----------------------------- MODULE Scheduler -----------------------------
(***************************************************************************)
(* The ready-set scheduler of one Project (kernel/scheduler.py, with the   *)
(* lifecycle table of kernel/lifecycle.py).                                *)
(*                                                                         *)
(* Runs are demand sets over computations.  A computation object (a        *)
(* _Computation) is one attempt at one fingerprint; the objects live on a  *)
(* heap, "comps", and are named by their index, because two attempts at    *)
(* one fingerprint are two objects.  The event loop is cooperative: a step *)
(* of this model is what one coroutine does between two awaits, and        *)
(* everything it calls (_dispatch above all) is part of that step.         *)
(*                                                                         *)
(* StoreYields tells the two result stores of the code apart.  The calls   *)
(* of PersistentResultStore suspend on the database, so other coroutines   *)
(* run between them (TRUE).  The calls of InMemoryResultStore never        *)
(* suspend: the coroutine that makes them keeps the event loop (FALSE).    *)
(***************************************************************************)
EXTENDS Integers, Sequences, FiniteSets

CONSTANTS Fingerprint,  \* the fingerprints a plan can name
          Upstream,     \* Upstream[f]: the fingerprints f reads its inputs from
          Run,          \* Run ids; an id is submitted at most once
          Concurrency,  \* the Project's concurrency budget
          StoreYields   \* the result store suspends its caller

ASSUME UpstreamAssumption ==
  /\ Upstream \in [Fingerprint -> SUBSET Fingerprint]
  /\ \A f \in Fingerprint : f \notin Upstream[f]
ASSUME ConcurrencyAssumption == Concurrency \in Nat \ {0}
ASSUME StoreYieldsAssumption == StoreYields \in BOOLEAN

VARIABLES comps,    \* the heap of computation objects
          records,  \* _records: the attempt Runs may join, 0 when there is none
          ready,    \* _ready: the deque of objects waiting for budget
          running,  \* _running: the objects holding budget
          runs,     \* _runs, and where each submit coroutine stands
          cancels,  \* cancel coroutines awaiting the tasks they cancelled
          store     \* fingerprints with a stored result

vars == <<comps, records, ready, running, runs, cancels, store>>

----------------------------------------------------------------------------
(* Lifecycle *)

ComputationState == {"pending", "ready", "running",
                     "succeeded", "failed", "skipped", "cancelled"}

TERMINAL_STATES == {"succeeded", "failed", "skipped", "cancelled"}

FAILED_STATES == {"failed", "skipped"}

UNHEALTHY_STATES == FAILED_STATES \cup {"cancelled"}

\* The (state, next state) pairs of the transition table.
TRANSITIONS == {<<"pending", "ready">>, <<"ready", "running">>,
                <<"running", "succeeded">>, <<"running", "failed">>,
                <<"pending", "skipped">>, <<"pending", "cancelled">>,
                <<"ready", "cancelled">>, <<"running", "cancelled">>}

(* Where the task of an object stands: not created, awaiting the runner,   *)
(* put_result, record_success or record_failure, or ended.                 *)
TaskState == {"none", "runner", "put", "pointer", "failure", "done"}

LiveTask == {"runner", "put", "pointer", "failure"}

Computation(f, st, dem) ==
  [fp |-> f, state |-> st, demanders |-> dem, deps |-> {}, task |-> "none"]

\* A Run id nobody has submitted.
NewRun == [phase |-> "new", plan |-> {}, todo |-> {}, read |-> <<>>,
           local |-> {}, joined |-> {}, withdrawn |-> FALSE,
           result |-> "none", answer |-> {}]

Init ==
  /\ comps = <<>>
  /\ records = [f \in Fingerprint |-> 0]
  /\ ready = <<>>
  /\ running = {}
  /\ runs = [r \in Run |-> NewRun]
  /\ cancels = {}
  /\ store \in {S \in SUBSET Fingerprint : \A f \in S : Upstream[f] \subseteq S}

(* A step works on the state it is building and hands it on to the next    *)
(* call it makes.                                                          *)
State == [comps |-> comps, records |-> records, ready |-> ready,
          running |-> running, runs |-> runs]

Become(s) ==
  /\ comps' = s.comps
  /\ records' = s.records
  /\ ready' = s.ready
  /\ running' = s.running
  /\ runs' = s.runs

(* With a store that never suspends, a coroutine between two store calls   *)
(* holds the event loop and nobody else moves.                             *)
LoopFree ==
  \/ StoreYields
  \/ /\ \A r \in Run : runs[r].phase # "joining"
     /\ \A i \in DOMAIN comps : comps[i].task \in {"none", "runner", "done"}

----------------------------------------------------------------------------
(* Answering Runs *)

(* Mutant: the status is the state of an unhealthy computation.            *)
RunResultOfWorst(s, r) ==
  IF s.runs[r].withdrawn THEN "cancelled"
  ELSE IF \E i \in s.runs[r].joined : s.comps[i].state \in UNHEALTHY_STATES
  THEN CHOOSE st \in UNHEALTHY_STATES :
         \E i \in s.runs[r].joined : s.comps[i].state = st
  ELSE "succeeded"

RunResult(s, r) ==
  IF s.runs[r].withdrawn THEN "cancelled"
  ELSE IF \E i \in s.runs[r].joined : s.comps[i].state \in UNHEALTHY_STATES
  THEN "failed"
  ELSE "succeeded"

\* The demand for object i that is left when the Runs of F are gone.
Left(s, F, i) == s.comps[i].demanders \ {r \in F : i \in s.runs[r].joined}

Released(s, F) == [i \in DOMAIN s.comps |->
                     [s.comps[i] EXCEPT !.demanders = Left(s, F, i)]]

(* Mutant: an answered Run's attempts are forgotten whoever demands them.  *)
RememberedByNobody(s, F) ==
  [f \in Fingerprint |->
     IF \E r \in F : s.records[f] \in s.runs[r].joined
     THEN 0 ELSE s.records[f]]

Remembered(s, F) ==
  [f \in Fingerprint |->
     IF /\ \E r \in F : s.records[f] \in s.runs[r].joined
        /\ Left(s, F, s.records[f]) = {}
     THEN 0 ELSE s.records[f]]

Answered(s, F) ==
  [r \in Run |->
     IF r \in F
     THEN [s.runs[r] EXCEPT !.result = RunResult(s, r),
                            !.answer = {s.comps[i].fp : i \in s.runs[r].joined},
                            !.joined = {}]
     ELSE s.runs[r]]

(* _finish_run for each Run of F: answer it, drop its demand, and forget   *)
(* the registered attempts nobody demands any more.                        *)
FinishRuns(s, F) ==
  [comps |-> Released(s, F), records |-> Remembered(s, F), ready |-> s.ready,
   running |-> s.running, runs |-> Answered(s, F)]

(* Mutant: a Run is complete once nothing of it is pending.                *)
CompleteRunsEarly(s) ==
  FinishRuns(s, {r \in Run :
                   /\ s.runs[r].phase # "new"
                   /\ s.runs[r].result = "none"
                   /\ \A i \in s.runs[r].joined : s.comps[i].state # "pending"})

(* Mutant: a Run that has its answer is completed again.                   *)
CompleteRunsAgain(s) ==
  FinishRuns(s, {r \in Run :
                   /\ s.runs[r].phase # "new"
                   /\ \A i \in s.runs[r].joined :
                        s.comps[i].state \in TERMINAL_STATES})

(* _complete_runs: every unanswered Run whose objects are all terminal.    *)
CompleteRuns(s) ==
  FinishRuns(s, {r \in Run :
                   /\ s.runs[r].phase # "new"
                   /\ s.runs[r].result = "none"
                   /\ \A i \in s.runs[r].joined :
                        s.comps[i].state \in TERMINAL_STATES})

----------------------------------------------------------------------------
(* Dispatch *)

\* The registered objects a sweep can decide.
Pending(s) == {i \in DOMAIN s.comps : /\ s.comps[i].state = "pending"
                                      /\ s.records[s.comps[i].fp] = i}

(* Mutant: an upstream that has not failed is as good as a stored one.     *)
ResolvesEagerly(s, v) ==
  \A i \in DOMAIN v :
    IF \E d \in s.comps[i].deps : s.comps[d].state \in UNHEALTHY_STATES
    THEN v[i] = "skipped"
    ELSE v[i] = "ready"

(* _resolve_pending repeats its sweep until nothing changes, so what it    *)
(* leaves is a fixpoint v of the sweep's three rules.  Where an upstream   *)
(* is cancelled and another gets skipped in the same sweep, the rule that  *)
(* applies depends on the order of the dictionary; either is allowed here. *)
Resolves(s, v) ==
  LET st(i) == IF i \in DOMAIN v THEN v[i] ELSE s.comps[i].state
      ups(i) == s.comps[i].deps
  IN \A i \in DOMAIN v :
       \/ v[i] = "skipped" /\ \E d \in ups(i) : st(d) \in FAILED_STATES
       \/ /\ v[i] = "cancelled"
          /\ \E d \in ups(i) : st(d) = "cancelled"
          /\ \A d \in ups(i) : s.comps[d].state \notin FAILED_STATES
       \/ v[i] = "ready" /\ \A d \in ups(i) : st(d) = "succeeded"
       \/ /\ v[i] = "pending"
          /\ \E d \in ups(i) : st(d) # "succeeded"
          /\ \A d \in ups(i) : st(d) \notin UNHEALTHY_STATES

Orders(S) == {q \in [1..Cardinality(S) -> S] : \A x \in S : \E n \in DOMAIN q : q[n] = x}

Decided(s, v) == [i \in DOMAIN s.comps |->
                    [s.comps[i] EXCEPT !.state = IF i \in DOMAIN v THEN v[i] ELSE @]]

(* The state after the sweep decided v and appended the new ready objects  *)
(* to the deque in the order q.                                            *)
Resolved(s, v, q) ==
  [comps |-> Decided(s, v), records |-> s.records, ready |-> s.ready \o q,
   running |-> s.running, runs |-> s.runs]

\* What the first k pops of _start_ready start; stale entries are dropped.
Started(s, k) == {s.ready[n] : n \in {m \in 1..k : s.comps[s.ready[m]].state = "ready"}}

(* Mutant: the budget test is off by one.                                  *)
StopsAfterLate(s, k) ==
  /\ \A n \in 0..(k - 1) : Cardinality(s.running \cup Started(s, n)) <= Concurrency
  /\ \/ k = Len(s.ready)
     \/ Cardinality(s.running \cup Started(s, k)) > Concurrency

(* _start_ready stops after k pops: the budget lasted for the first k - 1  *)
(* and is spent, or the deque is empty.                                    *)
StopsAfter(s, k) ==
  /\ \A n \in 0..(k - 1) : Cardinality(s.running \cup Started(s, n)) < Concurrency
  /\ \/ k = Len(s.ready)
     \/ Cardinality(s.running \cup Started(s, k)) >= Concurrency

Launched(s, k) ==
  [i \in DOMAIN s.comps |->
     IF i \in Started(s, k)
     THEN [s.comps[i] EXCEPT !.state = "running", !.task = "runner"]
     ELSE s.comps[i]]

AfterStart(s, k) ==
  [comps |-> Launched(s, k), records |-> s.records,
   ready |-> SubSeq(s.ready, k + 1, Len(s.ready)),
   running |-> s.running \cup Started(s, k), runs |-> s.runs]

(* _dispatch: resolve (s1), start (s2), complete (s3).                     *)
Dispatch(before) ==
  \E s \in {before} :
  \E v \in [Pending(s) -> {"pending", "ready", "skipped", "cancelled"}] :
    /\ Resolves(s, v)
    /\ \E q \in Orders({i \in Pending(s) : v[i] = "ready"}) :
       \E s1 \in {Resolved(s, v, q)} :
       \E k \in 0..Len(s1.ready) :
         /\ StopsAfter(s1, k)
         /\ \E s2 \in {AfterStart(s1, k)} :
            \E s3 \in {CompleteRuns(s2)} : Become(s3)

----------------------------------------------------------------------------
(* Submitting a Run *)

(* submit up to the await of its first _join: the plan is closed under its *)
(* dependencies or they are stored, so it is registered.  A stored result  *)
(* stays, so what the validation read still holds when it ends.  The       *)
(* Run service submits no empty plan.                                      *)
SubmitRegister(r, P) ==
  /\ LoopFree
  /\ runs[r].phase = "new"
  /\ P # {}
  /\ \A f \in P : Upstream[f] \subseteq P \cup store
  /\ runs' = [runs EXCEPT ![r] = [NewRun EXCEPT !.phase = "joining",
                                                !.plan = P, !.todo = P]]
  /\ UNCHANGED <<comps, records, ready, running, cancels, store>>

(* _join awaits get_result for the next fingerprint in plan order, which   *)
(* is topological; the answer is used only when submit resumes.            *)
SubmitRead(r, f) ==
  /\ runs[r].phase = "joining"
  /\ runs[r].read = <<>>
  /\ f \in runs[r].todo
  /\ Upstream[f] \cap runs[r].todo = {}
  /\ runs' = [runs EXCEPT ![r].read = <<f, f \in store>>]
  /\ UNCHANGED <<comps, records, ready, running, cancels, store>>

(* The rest of _join: a stored result gets a private succeeded object, a   *)
(* missing or ended attempt a fresh one, and an attempt in flight gains a  *)
(* demander.  JoinedAt is the object's place on the heap.                  *)
StartsAfresh(f) == \/ records[f] = 0
                   \/ comps[records[f]].state \in TERMINAL_STATES

JoinedAt(f, stored) ==
  IF stored \/ StartsAfresh(f) THEN Len(comps) + 1 ELSE records[f]

JoinedComps(r, f, stored) ==
  IF stored THEN Append(comps, Computation(f, "succeeded", {}))
  ELSE IF StartsAfresh(f) THEN Append(comps, Computation(f, "pending", {r}))
  ELSE [comps EXCEPT ![records[f]].demanders = @ \cup {r}]

(* _join, and the append to run.joined.                                    *)
Joined(r) ==
  LET f == runs[r].read[1]
      stored == runs[r].read[2]
      i == JoinedAt(f, stored)
  IN [comps |-> JoinedComps(r, f, stored),
      records |-> IF stored THEN records ELSE [records EXCEPT ![f] = i],
      ready |-> ready,
      running |-> running,
      runs |-> [runs EXCEPT ![r].joined = @ \cup {i},
                            ![r].local = @ \cup {i},
                            ![r].todo = @ \ {f},
                            ![r].read = <<>>]]

SubmitJoin(r) ==
  /\ runs[r].read # <<>>
  /\ runs[r].todo # {runs[r].read[1]}
  /\ Become(Joined(r))
  /\ UNCHANGED <<cancels, store>>

(* _wire for every object of the plan: point it at the objects this Run    *)
(* joined for its upstreams.                                               *)
Linked(s, mine) ==
  [i \in DOMAIN s.comps |->
     IF i \in mine
     THEN [s.comps[i] EXCEPT
             !.deps = @ \cup {d \in mine : s.comps[d].fp \in Upstream[s.comps[i].fp]}]
     ELSE s.comps[i]]

Wired(s, r) ==
  [comps |-> Linked(s, s.runs[r].local), records |-> s.records, ready |-> s.ready,
   running |-> s.running,
   runs |-> [s.runs EXCEPT ![r].phase = "submitted", ![r].local = {}]]

(* Mutant: submit ends without a dispatch.                                 *)
SubmitLastSilent(r) ==
  /\ runs[r].read # <<>>
  /\ runs[r].todo = {runs[r].read[1]}
  /\ Become(Wired(Joined(r), r))
  /\ UNCHANGED <<cancels, store>>

\* The last join, with the wiring and the dispatch that end submit.
SubmitLast(r) ==
  /\ runs[r].read # <<>>
  /\ runs[r].todo = {runs[r].read[1]}
  /\ Dispatch(Wired(Joined(r), r))
  /\ UNCHANGED <<cancels, store>>

(* get_result raises in a _join: submit ends there.  The Run stays         *)
(* registered with what it has joined, which is not wired.                 *)
SubmitRaises(r) ==
  /\ StoreYields
  /\ runs[r].phase = "joining"
  /\ runs[r].read = <<>>
  /\ runs' = [runs EXCEPT ![r].phase = "raised", ![r].local = {}]
  /\ UNCHANGED <<comps, records, ready, running, cancels, store>>

----------------------------------------------------------------------------
(* Cancelling a Run *)

(* Mutant: cancel takes computations other Runs demand.                    *)
UndemandedByAnyone(r) == {i \in runs[r].joined :
                            comps[i].state \notin TERMINAL_STATES}

(* Mutant: cancel stops only what is running.                              *)
UndemandedRunning(r) == {i \in runs[r].joined :
                           /\ comps[i].state = "running"
                           /\ comps[i].demanders \subseteq {r}}

\* The objects of r that are live and that no other Run demands.
Undemanded(r) == {i \in runs[r].joined :
                    /\ comps[i].state \notin TERMINAL_STATES
                    /\ comps[i].demanders \subseteq {r}}

Dropped(r) ==
  [i \in DOMAIN comps |->
     IF i \in runs[r].joined
     THEN [comps[i] EXCEPT !.demanders = @ \ {r},
                           !.state = IF i \in Undemanded(r) THEN "cancelled" ELSE @]
     ELSE comps[i]]

Withdrawn(r) ==
  [comps |-> Dropped(r), records |-> records, ready |-> ready,
   running |-> running \ Undemanded(r),
   runs |-> [runs EXCEPT ![r].withdrawn = TRUE]]

Awaited(r) == {i \in Undemanded(r) : comps[i].task # "none"}

(* cancel, when no task has to be awaited: the Run is answered at once.    *)
CancelNow(r) ==
  /\ LoopFree
  /\ runs[r].phase # "new"
  /\ runs[r].result = "none"
  /\ Awaited(r) = {}
  /\ Dispatch(FinishRuns(Withdrawn(r), {r}))
  /\ UNCHANGED <<cancels, store>>

(* cancel up to the first await of a cancelled task.                       *)
CancelBegin(r) ==
  /\ LoopFree
  /\ runs[r].phase # "new"
  /\ runs[r].result = "none"
  /\ Awaited(r) # {}
  /\ Become(Withdrawn(r))
  /\ cancels' = cancels \cup {[run |-> r, tasks |-> Awaited(r)]}
  /\ UNCHANGED store

(* The tasks have ended and cancel goes on.                                *)
CancelReturn(c) ==
  /\ LoopFree
  /\ \A i \in c.tasks : comps[i].task = "done"
  /\ Dispatch(FinishRuns(State, {c.run}))
  /\ cancels' = cancels \ {c}
  /\ UNCHANGED store

----------------------------------------------------------------------------
(* Executing a computation *)

Moves(i, from, to) ==
  /\ comps[i].state = "running"
  /\ comps[i].task = from
  /\ comps' = [comps EXCEPT ![i].task = to]
  /\ UNCHANGED <<records, ready, running, runs, cancels>>

\* The runner returned and _execute calls put_result.
RunnerReturns(i) ==
  /\ LoopFree
  /\ Moves(i, "runner", "put")
  /\ UNCHANGED store

PutResult(i) ==
  /\ Moves(i, "put", "pointer")
  /\ store' = store \cup {comps[i].fp}

(* An exception of the runner, or of a store call that reaches a database: *)
(* a put_result that raises may still have committed.                      *)
ExecuteRaises(i) ==
  \/ LoopFree /\ Moves(i, "runner", "failure") /\ UNCHANGED store
  \/ /\ StoreYields
     /\ Moves(i, "put", "failure")
     /\ store' \in {store, store \cup {comps[i].fp}}
  \/ StoreYields /\ Moves(i, "pointer", "failure") /\ UNCHANGED store

(* _finish: the object reaches its outcome, gives its budget back, and the *)
(* scheduler dispatches.                                                   *)
Finished(i, outcome) ==
  [comps |-> [comps EXCEPT ![i].state = outcome, ![i].task = "done"],
   records |-> records, ready |-> ready, running |-> running \ {i}, runs |-> runs]

Finish(i, outcome) ==
  /\ Dispatch(Finished(i, outcome))
  /\ UNCHANGED <<cancels, store>>

\* record_success returned for every instance.
RecordSuccess(i) ==
  /\ comps[i].state = "running"
  /\ comps[i].task = "pointer"
  /\ Finish(i, "succeeded")

\* record_failure returned, or its exception was suppressed.
RecordFailure(i) ==
  /\ comps[i].state = "running"
  /\ comps[i].task = "failure"
  /\ Finish(i, "failed")

(* Mutant: a task that survives its cancellation writes its outcome.       *)
TaskStopsOverwriting(i) ==
  /\ LoopFree
  /\ comps[i].state = "cancelled"
  /\ comps[i].task \in LiveTask
  /\ comps' = [comps EXCEPT ![i].task = "done", ![i].state = "succeeded"]
  /\ UNCHANGED <<records, ready, running, runs, cancels, store>>

(* CancelledError reaches the task of a cancelled object, which leaves the *)
(* record alone.  A put_result cancelled on the way may have committed.    *)
TaskStops(i) ==
  /\ LoopFree
  /\ comps[i].state = "cancelled"
  /\ comps[i].task \in LiveTask
  /\ comps' = [comps EXCEPT ![i].task = "done"]
  /\ \/ UNCHANGED store
     \/ comps[i].task = "put" /\ store' = store \cup {comps[i].fp}
  /\ UNCHANGED <<records, ready, running, runs, cancels>>

(* The persistent store belongs to the Workspace: the scheduler of another *)
(* Project may store f, and stores what f reads first.                     *)
StoredElsewhere(f) ==
  /\ StoreYields
  /\ f \notin store
  /\ Upstream[f] \subseteq store
  /\ store' = store \cup {f}
  /\ UNCHANGED <<comps, records, ready, running, runs, cancels>>

----------------------------------------------------------------------------
Submit(r) ==
  \/ \E P \in SUBSET Fingerprint : SubmitRegister(r, P)
  \/ \E f \in Fingerprint : SubmitRead(r, f)
  \/ SubmitJoin(r)
  \/ SubmitLast(r)
  \/ SubmitRaises(r)

Cancel(r) == CancelNow(r) \/ CancelBegin(r)

Execute(i) ==
  \/ RunnerReturns(i) \/ PutResult(i) \/ ExecuteRaises(i)
  \/ RecordSuccess(i) \/ RecordFailure(i) \/ TaskStops(i)

Next ==
  \/ \E r \in Run : Submit(r) \/ Cancel(r)
  \/ \E c \in cancels : CancelReturn(c)
  \/ \E i \in DOMAIN comps : Execute(i)
  \/ \E f \in Fingerprint : StoredElsewhere(f)

Spec == Init /\ [][Next]_vars

(* What the event loop owes: a coroutine whose await has an answer is      *)
(* resumed, the database answers, and a runner returns, raises or honours  *)
(* its cancellation.  Nobody has to submit or to cancel.                   *)
Progress ==
  \/ \E r \in Run : \/ \E f \in Fingerprint : SubmitRead(r, f)
                   \/ SubmitJoin(r) \/ SubmitLast(r)
  \/ \E c \in cancels : CancelReturn(c)
  \/ \E i \in DOMAIN comps : Execute(i)

FairSpec == Spec /\ WF_vars(Progress)

----------------------------------------------------------------------------
(* Properties *)

RunRecord ==
  [phase : {"new", "joining", "submitted", "raised"},
   plan : SUBSET Fingerprint,
   todo : SUBSET Fingerprint,
   read : {<<>>} \cup (Fingerprint \X BOOLEAN),
   local : SUBSET DOMAIN comps,
   joined : SUBSET DOMAIN comps,
   withdrawn : BOOLEAN,
   result : {"none", "succeeded", "failed", "cancelled"},
   answer : SUBSET Fingerprint]

(* The scheduler's bookkeeping is well formed: every object a Run, a       *)
(* deque, the budget, a cancel or another object points at is on the heap, *)
(* and _records files an object under its own fingerprint.                 *)
TypeOK ==
  /\ comps \in Seq([fp : Fingerprint, state : ComputationState,
                    demanders : SUBSET Run, deps : SUBSET DOMAIN comps,
                    task : TaskState])
  /\ records \in [Fingerprint -> {0} \cup DOMAIN comps]
  /\ \A f \in Fingerprint : records[f] # 0 => comps[records[f]].fp = f
  /\ ready \in Seq(DOMAIN comps)
  /\ running \subseteq DOMAIN comps
  /\ runs \in [Run -> RunRecord]
  /\ cancels \subseteq [run : Run, tasks : SUBSET DOMAIN comps]
  /\ store \subseteq Fingerprint

(* "One concurrency budget": _running holds exactly the objects in state   *)
(* running, on every path out of that state, and never more than the       *)
(* budget allows.                                                          *)
WithinBudget ==
  /\ running = {i \in DOMAIN comps : comps[i].state = "running"}
  /\ Cardinality(running) <= Concurrency

(* "Single-flight per fingerprint": no two attempts at a fingerprint are   *)
(* in flight together, whichever Runs asked for them and whatever was      *)
(* cancelled in between.                                                   *)
SingleFlight ==
  \A i, j \in DOMAIN comps :
    /\ comps[i].fp = comps[j].fp
    /\ comps[i].state \notin TERMINAL_STATES
    /\ comps[j].state \notin TERMINAL_STATES
    => i = j

(* A computation takes budget only when every upstream result is stored:   *)
(* the runner reads its inputs from the result store and raises when one   *)
(* is missing.                                                             *)
UpstreamStored ==
  \A i \in DOMAIN comps :
    comps[i].state \in {"ready", "running"} => Upstream[comps[i].fp] \subseteq store

(* A Run reports success only when all it asked for is stored, and reports *)
(* on every computation of its plan.                                       *)
SuccessIsWhole ==
  \A r \in Run :
    runs[r].result = "succeeded" =>
      runs[r].plan \subseteq store /\ runs[r].plan = runs[r].answer

(* "Computations nobody else wants follow it": work that waits or runs is  *)
(* demanded by a Run that is unanswered and not withdrawn.                 *)
WorkIsDemanded ==
  \A i \in DOMAIN comps :
    comps[i].state \notin TERMINAL_STATES =>
      \E r \in comps[i].demanders : runs[r].result = "none" /\ ~runs[r].withdrawn

(* "Cancelling one only withdraws its own demand": a Run that was not      *)
(* cancelled fails only when a computation it asked for did fail, never    *)
(* because another Run's cancel took a computation away.                   *)
FailureIsOwn ==
  \A r \in Run :
    runs[r].result = "failed" =>
      \E i \in DOMAIN comps : comps[i].state = "failed" /\ comps[i].fp \in runs[r].plan

(* "A computation is cancelled only when no active Run still demands it":  *)
(* whoever demands an object when a step cancels it has been withdrawn.    *)
CancelNeedsNoDemand ==
  [][\A i \in DOMAIN comps :
       comps[i].state # "cancelled" /\ comps'[i].state = "cancelled" =>
         \A r \in comps[i].demanders : runs'[r].withdrawn]_vars

(* A result is stored before its computation is reported as succeeded, and *)
(* what a Run that was not cancelled waits for is never lost: it is still  *)
(* filed in _records, where the sweeps find it, with the Run as demander,  *)
(* so that no other Run's end can forget it.                               *)
NothingLost ==
  /\ \A i \in DOMAIN comps : comps[i].state = "succeeded" => comps[i].fp \in store
  /\ \A r \in Run : ~runs[r].withdrawn =>
       \A i \in runs[r].joined :
         comps[i].state \notin TERMINAL_STATES =>
           records[comps[i].fp] = i /\ r \in comps[i].demanders

(* Every change of an object's state is one the lifecycle table allows (a  *)
(* dispatch may take an object through ready to running in one step), and  *)
(* a terminal object never moves again.                                    *)
LifecycleStep ==
  [][\A i \in DOMAIN comps :
       \/ comps'[i].state = comps[i].state
       \/ <<comps[i].state, comps'[i].state>> \in TRANSITIONS
       \/ comps[i].state = "pending" /\ comps'[i].state = "running"]_vars

(* The scheduler keeps the promise the Run service relies on: a Run is     *)
(* answered once, its status never changes although cancel may answer it a *)
(* second time after its await, and it is cancelled only by a cancel.      *)
Demand == INSTANCE RunDemand WITH
            demand <- [r \in Run |->
              [status |-> IF runs[r].phase = "new" THEN "unknown"
                          ELSE IF runs[r].result = "none" THEN "active"
                          ELSE runs[r].result,
               withdrawn |-> runs[r].withdrawn]]

AnsweredOnce == Demand!DemandSpec

(* "The withdrawn Run is answered ... with the states its computations     *)
(* have at this moment": an answer once given keeps what it reported.      *)
AnswerKept ==
  [][\A r \in Run : runs[r].result # "none" => runs[r].answer \subseteq runs'[r].answer]_vars

(* Every Run that is submitted is answered, unless submit raised and left  *)
(* it to nobody.                                                           *)
RunsFinish ==
  \A r \in Run :
    runs[r].phase = "joining" ~> runs[r].result # "none" \/ runs[r].phase = "raised"

=============================================================================
