-------------------------- MODULE SchedulerProofs --------------------------
(***************************************************************************)
(* Theorems about Scheduler, for every set of fingerprints and Runs, every *)
(* Upstream, every budget and both kinds of result store.                  *)
(***************************************************************************)
EXTENDS SchedulerOps

(* The inductive invariant.  Beyond the properties proved below it says    *)
(* that a result the task or a joining Run saw stored is stored, that the  *)
(* Run of a suspended cancel is withdrawn, and that a withdrawn Run can    *)
(* only be answered as cancelled.                                          *)
IInv ==
  /\ Good(State, store)
  /\ cancels \subseteq [run : Run, tasks : SUBSET DOMAIN comps]
  /\ \A c \in cancels : runs[c.run].withdrawn
  /\ store \subseteq Fingerprint

(* What every step does to the objects and the Runs there were.            *)
Legal ==
  /\ DOMAIN comps \subseteq DOMAIN comps'
  /\ \A i \in DOMAIN comps :
       \/ comps'[i].state = comps[i].state
       \/ <<comps[i].state, comps'[i].state>> \in TRANSITIONS
       \/ comps[i].state = "pending" /\ comps'[i].state = "running"
  /\ \A r \in Run : runs[r].result # "none" => runs'[r].result = runs[r].result
  /\ \A r \in Run : runs[r].withdrawn => runs'[r].withdrawn
  /\ \A r \in Run : runs'[r].phase = "new" => runs[r].phase = "new"
  /\ \A r \in Run : runs[r].phase = "new" => /\ runs'[r].result = "none"
                                             /\ ~runs'[r].withdrawn

LEMMA StageThenDispatch ==
  ASSUME NEW t, NEW u, Staged(t), Later(t, u), Good(u, store), Dispatch(u)
  PROVE  Good(State', store) /\ Legal
  <1>1. Good(State', store) /\ Later(t, State')
    BY DispatchGood, LaterTransitive
  <1>2. State'.comps = comps' /\ State'.runs = runs'
    BY DEF State
  <1>3. ASSUME NEW i \in DOMAIN comps
        PROVE  \/ comps'[i].state = comps[i].state
               \/ <<comps[i].state, comps'[i].state>> \in TRANSITIONS
               \/ comps[i].state = "pending" /\ comps'[i].state = "running"
    <2>1. i \in DOMAIN t.comps /\ SweepMove(t.comps[i].state, comps'[i].state)
      BY <1>1, <1>2 DEF Later, Staged
    <2> QED
      BY <2>1 DEF Staged, SweepMove, TRANSITIONS, TERMINAL_STATES
  <1>4. \A r \in Run : runs[r].phase = "new" <=> runs'[r].phase = "new"
    BY <1>1, <1>2 DEF Later, Staged
  <1>5. \A r \in Run : runs'[r].phase = "new" => runs'[r].result = "none" /\ ~runs'[r].withdrawn
    BY <1>1, <1>2 DEF Good, Answers
  <1> QED
    BY <1>1, <1>2, <1>3, <1>4, <1>5 DEF Later, Staged, Legal

LEMMA StageThenBecome ==
  ASSUME NEW t, NEW st, Good(t, st), Staged(t),
         t = [comps |-> t.comps, records |-> t.records, ready |-> t.ready,
              running |-> t.running, runs |-> t.runs],
         Become(t)
  PROVE  Good(State', st) /\ Legal
  <1>1. State' = t
    BY DEF Become, State
  <1>2. \A r \in Run : t.runs[r].phase = "new" => t.runs[r].result = "none" /\ ~t.runs[r].withdrawn
    BY DEF Good, Answers
  <1>3. Legal
    BY <1>2 DEF Become, Staged, Legal
  <1> QED
    BY <1>1, <1>3

LEMMA LaterReflexive ==
  ASSUME NEW s
  PROVE  Later(s, s)
  BY DEF Later, SweepMove

(* The rest of the invariant follows from what a step does to the state.   *)
LEMMA StepKeeps ==
  ASSUME IInv, Good(State', store'), Legal, store' \subseteq Fingerprint,
         \A c \in cancels' :
           \/ c \in cancels
           \/ c \in [run : Run, tasks : SUBSET DOMAIN comps] /\ runs'[c.run].withdrawn
  PROVE  IInv'
  <1>1. cancels' \subseteq [run : Run, tasks : SUBSET DOMAIN comps']
    BY DEF IInv, Legal
  <1>2. \A c \in cancels' : runs'[c.run].withdrawn
    BY DEF IInv, Legal
  <1> QED
    BY <1>1, <1>2 DEF IInv

\* A step that leaves the heap and the answers alone.
LEMMA RunsOnly ==
  ASSUME IInv, NEW r \in Run, NEW x \in RunOn(DOMAIN comps),
         runs' = [runs EXCEPT ![r] = x],
         UNCHANGED <<comps, records, ready, running, cancels, store>>,
         x.joined \subseteq runs[r].joined, x.withdrawn = runs[r].withdrawn,
         x.result = runs[r].result, x.phase # "new",
         x.read # <<>> /\ x.read[2] => x.read[1] \in store
  PROVE  IInv' /\ Legal
  <1> DEFINE D == DOMAIN comps
  <1>0. runs \in [Run -> RunOn(D)] /\ Good(State, store)
    BY GoodNow DEF IInv
  <1>1. /\ runs' \in [Run -> RunOn(D)]
        /\ runs'[r] = x
        /\ \A p \in Run \ {r} : runs'[p] = runs[p]
    BY <1>0
  <1>2. \A p \in Run : /\ runs'[p].joined \subseteq runs[p].joined
                       /\ runs'[p].withdrawn = runs[p].withdrawn
                       /\ runs'[p].result = runs[p].result
    BY <1>1
  <1>3. Typed(State)'
    BY <1>0, <1>1 DEF Good, Typed, State
  <1>4. Budget(State)'
    BY <1>0 DEF Good, Budget, State
  <1>5. Kept(State)'
    BY <1>0, <1>2 DEF Good, Kept, State
  <1>6. Stored(State, store)'
    BY <1>0, <1>1 DEF Good, Stored, State
  <1>7. Answers(State)'
    <2>1. \A p \in Run :
            /\ runs[p].withdrawn => runs[p].result \in {"none", "cancelled"}
            /\ runs[p].result = "cancelled" => runs[p].withdrawn
            /\ runs[p].phase = "new" => /\ ~runs[p].withdrawn
                                        /\ runs[p].result = "none"
                                        /\ runs[p].read = <<>>
      BY <1>0 DEF Good, Answers, State
    <2> QED
      BY <1>1, <1>2, <2>1 DEF Answers, State
  <1>8. \A c \in cancels : c.run \in Run /\ runs'[c.run].withdrawn
    BY <1>2 DEF IInv
  <1>9. \A p \in Run : /\ runs'[p].phase = "new" => runs[p].phase = "new"
                       /\ runs[p].phase = "new" => ~runs[p].withdrawn /\ runs[p].result = "none"
    BY <1>0, <1>1 DEF Good, Answers, State
  <1> QED
    BY <1>2, <1>3, <1>4, <1>5, <1>6, <1>7, <1>8, <1>9 DEF IInv, Good, Legal

LEMMA SubmitStep ==
  ASSUME IInv, NEW r \in Run, Submit(r)
  PROVE  IInv' /\ Legal
  <1>0. Good(State, store) /\ runs[r] \in RunOn(DOMAIN comps) /\ store \subseteq Fingerprint
    BY GoodNow DEF IInv
  <1>1. ASSUME NEW P \in SUBSET Fingerprint, SubmitRegister(r, P)
        PROVE  IInv' /\ Legal
    <2> DEFINE x == [NewRun EXCEPT !.phase = "joining", !.plan = P, !.todo = P]
    <2>1. /\ x \in RunOn(DOMAIN comps) /\ x.joined = {} /\ ~x.withdrawn
          /\ x.result = "none" /\ x.phase = "joining" /\ x.read = <<>>
          /\ x.withdrawn = FALSE
      BY DEF NewRun, RunOn
    <2>2. runs' = [runs EXCEPT ![r] = x]
          /\ UNCHANGED <<comps, records, ready, running, cancels, store>>
      BY <1>1 DEF SubmitRegister
    <2>3. runs[r].withdrawn = FALSE /\ runs[r].result = "none" /\ {} \subseteq runs[r].joined
      BY <1>0, <1>1 DEF SubmitRegister, Good, Answers, State, RunOn
    <2> HIDE DEF x
    <2> QED
      BY <2>1, <2>2, <2>3, RunsOnly
  <1>2. ASSUME NEW f \in Fingerprint, SubmitRead(r, f)
        PROVE  IInv' /\ Legal
    <2> DEFINE b == f \in store
               y == <<f, b>>
               x == [runs[r] EXCEPT !.read = y]
    <2>0. b \in BOOLEAN /\ (b => f \in store)
      OBVIOUS
    <2>2. /\ runs' = [runs EXCEPT ![r] = x]
          /\ UNCHANGED <<comps, records, ready, running, cancels, store>>
          /\ runs[r].phase = "joining"
      BY <1>2 DEF SubmitRead
    <2> HIDE DEF b
    <2>1. y \in Fingerprint \X BOOLEAN /\ (y[2] => y[1] \in store)
      BY <2>0
    <2> HIDE DEF y
    <2>3. /\ x \in RunOn(DOMAIN comps) /\ x.joined = runs[r].joined
          /\ x.withdrawn = runs[r].withdrawn /\ x.result = runs[r].result
          /\ x.phase = "joining" /\ x.read = y
      BY <1>0, <2>1, <2>2 DEF RunOn
    <2> HIDE DEF x
    <2> QED
      BY <2>1, <2>2, <2>3, RunsOnly
  <1>3. CASE SubmitJoin(r)
    <2>1. Good(Joined(r), store) /\ Staged(Joined(r)) /\ Become(Joined(r))
      BY <1>0, <1>3, JoinedGood DEF SubmitJoin
    <2>2. Joined(r) = [comps |-> Joined(r).comps, records |-> Joined(r).records,
                       ready |-> Joined(r).ready, running |-> Joined(r).running,
                       runs |-> Joined(r).runs]
      BY DEF Joined
    <2>3. Good(State', store) /\ Legal
      BY <2>1, <2>2, StageThenBecome
    <2> QED
      BY <1>0, <1>3, <2>3, StepKeeps DEF SubmitJoin
  <1>4. CASE SubmitLast(r)
    <2>1. Good(Joined(r), store) /\ Staged(Joined(r)) /\ Joined(r).runs[r].phase # "new"
      BY <1>0, <1>4, JoinedGood DEF SubmitLast
    <2>2. Good(Wired(Joined(r), r), store) /\ Later(Joined(r), Wired(Joined(r), r))
      BY <2>1, WiredGood
    <2>3. Good(State', store) /\ Legal
      BY <1>4, <2>1, <2>2, StageThenDispatch DEF SubmitLast
    <2> QED
      BY <1>0, <1>4, <2>3, StepKeeps DEF SubmitLast
  <1>5. CASE SubmitRaises(r)
    <2> DEFINE x == [runs[r] EXCEPT !.phase = "raised", !.local = {}]
    <2>1. /\ runs' = [runs EXCEPT ![r] = x]
          /\ UNCHANGED <<comps, records, ready, running, cancels, store>>
          /\ runs[r].read = <<>>
      BY <1>5 DEF SubmitRaises
    <2>2. /\ x \in RunOn(DOMAIN comps) /\ x.joined = runs[r].joined
          /\ x.withdrawn = runs[r].withdrawn /\ x.result = runs[r].result
          /\ x.phase = "raised" /\ x.read = runs[r].read
      BY <1>0 DEF RunOn
    <2> HIDE DEF x
    <2> QED
      BY <2>1, <2>2, RunsOnly
  <1> QED
    BY <1>1, <1>2, <1>3, <1>4, <1>5 DEF Submit

LEMMA WithdrawnStaged ==
  ASSUME Good(State, store), NEW r \in Run,
         runs[r].phase # "new", runs[r].result = "none"
  PROVE  Staged(Withdrawn(r))
  <1>1. \A i \in DOMAIN comps : comps[i].state \in ComputationState
    BY GoodNow DEF CompOn
  <1>2. \A i \in DOMAIN comps :
          \/ Withdrawn(r).comps[i].state = comps[i].state
          \/ /\ <<comps[i].state, Withdrawn(r).comps[i].state>> \in TRANSITIONS
             /\ Withdrawn(r).comps[i].state \in TERMINAL_STATES
    BY <1>1, WithdrawnGood DEF ComputationState, TRANSITIONS, TERMINAL_STATES
  <1> QED
    BY <1>2, WithdrawnGood DEF Staged

LEMMA CancelStep ==
  ASSUME IInv, NEW r \in Run, Cancel(r)
  PROVE  IInv' /\ Legal
  <1> DEFINE t == Withdrawn(r)
  <1>0. /\ Good(State, store) /\ store \subseteq Fingerprint
        /\ runs[r].phase # "new" /\ runs[r].result = "none"
    BY DEF IInv, Cancel, CancelNow, CancelBegin
  <1>1. /\ Good(t, store) /\ t.runs[r].withdrawn /\ t.runs[r].phase # "new"
        /\ Staged(t)
    BY <1>0, WithdrawnGood, WithdrawnStaged
  <1>2. CASE CancelNow(r)
    <2>1. Good(FinishRuns(t, {r}), store) /\ Later(t, FinishRuns(t, {r}))
      BY <1>1, FinishRunsGood
    <2>2. Good(State', store) /\ Legal
      BY <1>1, <1>2, <2>1, StageThenDispatch DEF CancelNow
    <2> QED
      BY <1>0, <1>2, <2>2, StepKeeps DEF CancelNow
  <1>3. CASE CancelBegin(r)
    <2>1. t = [comps |-> t.comps, records |-> t.records, ready |-> t.ready,
               running |-> t.running, runs |-> t.runs]
      BY DEF Withdrawn
    <2>2. Become(t)
      BY <1>3 DEF CancelBegin
    <2> HIDE DEF t
    <2>3. Good(State', store) /\ Legal /\ runs' = t.runs
      BY <1>1, <2>1, <2>2, StageThenBecome DEF Become
    <2>4. Awaited(r) \subseteq DOMAIN comps
      BY <1>0, GoodNow DEF Awaited, Undemanded, RunOn
    <2>5. \A c \in cancels' :
            \/ c \in cancels
            \/ c \in [run : Run, tasks : SUBSET DOMAIN comps] /\ runs'[c.run].withdrawn
      BY <1>1, <1>3, <2>3, <2>4 DEF CancelBegin
    <2> QED
      BY <1>0, <1>3, <2>3, <2>5, StepKeeps DEF CancelBegin
  <1> QED
    BY <1>2, <1>3 DEF Cancel

LEMMA CancelReturnStep ==
  ASSUME IInv, NEW c \in cancels, CancelReturn(c)
  PROVE  IInv' /\ Legal
  <1>0. /\ Good(State, store) /\ store \subseteq Fingerprint /\ c.run \in Run
        /\ runs[c.run].withdrawn
    BY DEF IInv
  <1>1. runs[c.run].phase # "new"
    BY <1>0 DEF Good, Answers, State
  <1>2. Good(FinishRuns(State, {c.run}), store) /\ Later(State, FinishRuns(State, {c.run}))
    BY <1>0, <1>1, FinishRunsGood DEF State
  <1>3. Staged(State)
    BY DEF Staged, State
  <1>4. Good(State', store) /\ Legal
    BY <1>2, <1>3, StageThenDispatch DEF CancelReturn
  <1> QED
    BY <1>0, <1>4, StepKeeps DEF CancelReturn

\* A step of the task of i that leaves the object's state alone.
LEMMA TaskStep ==
  ASSUME IInv, NEW i \in DOMAIN comps, NEW to \in TaskState,
         comps' = [comps EXCEPT ![i].task = to],
         UNCHANGED <<records, ready, running, runs, cancels>>,
         store \subseteq store', store' \subseteq Fingerprint,
         to = "pointer" => comps[i].fp \in store'
  PROVE  IInv' /\ Legal
  <1> DEFINE t == State'
             D == DOMAIN comps
  <1>0. Good(State, store) /\ comps \in Seq(CompOn(D)) /\ comps[i] \in CompOn(D)
    BY GoodNow DEF IInv
  <1>1. /\ t.comps = comps' /\ t.records = records /\ t.ready = ready
        /\ t.running = running /\ t.runs = runs
    BY DEF State
  <1>2. /\ DOMAIN comps' = D /\ \A j \in D \ {i} : comps'[j] = comps[j]
        /\ comps'[i] = [comps[i] EXCEPT !.task = to]
    BY <1>0
  <1>3. /\ comps'[i] \in CompOn(D) /\ comps'[i].fp = comps[i].fp
        /\ comps'[i].demanders = comps[i].demanders
        /\ comps'[i].state = comps[i].state /\ comps'[i].task = to
    BY <1>0, <1>2 DEF CompOn
  <1>4. comps' \in Seq(CompOn(D))
    <2>1. comps' = [j \in D |-> comps'[j]]
      BY <1>0
    <2>2. \A j \in D : comps'[j] \in CompOn(D)
      BY <1>2, <1>3, GoodNow DEF IInv
    <2>3. comps' \in [D -> CompOn(D)]
      BY <2>1, <2>2
    <2> QED
      BY <1>0, <2>3, FunctionIsSeq
  <1>5. running = {j \in running : comps'[j].state = "running"}
    BY <1>0, <1>2, <1>3 DEF Good, Budget, State
  <1>6. comps'[i].state = "succeeded" => comps[i].fp \in store'
    BY <1>0, <1>3 DEF Good, Stored, State
  <1> HIDE DEF t
  <1>7. Good(t, store') /\ Staged(t)
    <2>1. /\ DOMAIN t.comps = D /\ t.comps \in Seq(CompOn(D))
          /\ \A j \in D \ {i} : t.comps[j] = comps[j]
          /\ t.comps[i].fp = comps[i].fp /\ t.comps[i].demanders = comps[i].demanders
          /\ t.comps[i].state = comps[i].state
      BY <1>1, <1>2, <1>3, <1>4
    <2>2. t.comps[i].state = "succeeded" \/ t.comps[i].task = "pointer"
            => comps[i].fp \in store'
      BY <1>1, <1>3, <1>6
    <2>3. t.running = {j \in running : t.comps[j].state = "running"}
      BY <1>1, <1>5
    <2> DEFINE st == store'
    <2>4. store \subseteq st /\ (t.comps[i].state = "succeeded" \/ t.comps[i].task = "pointer"
                                   => comps[i].fp \in st)
      BY <2>2
    <2> HIDE DEF st
    <2>5. Good(t, st) /\ Staged(t)
      BY <1>0, <1>1, <2>1, <2>3, <2>4, TouchedGood
    <2> QED
      BY <2>5 DEF st
  <1>8. \A p \in Run : runs[p].phase = "new" => ~runs[p].withdrawn /\ runs[p].result = "none"
    BY <1>0 DEF Good, Answers, State
  <1>9. Legal
    BY <1>1, <1>7, <1>8 DEF Staged, Legal
  <1> QED
    BY <1>7, <1>9, StepKeeps DEF t

LEMMA FinishStep ==
  ASSUME IInv, NEW i \in DOMAIN comps, comps[i].state = "running",
         NEW outcome \in {"succeeded", "failed"},
         outcome = "succeeded" => comps[i].task = "pointer",
         Finish(i, outcome)
  PROVE  IInv' /\ Legal
  <1> DEFINE t == Finished(i, outcome)
             D == DOMAIN comps
  <1>0. Good(State, store) /\ comps \in Seq(CompOn(D)) /\ comps[i] \in CompOn(D)
    BY GoodNow DEF IInv
  <1>1. /\ t.comps = [comps EXCEPT ![i].state = outcome, ![i].task = "done"]
        /\ t.records = records /\ t.ready = ready
        /\ t.running = running \ {i} /\ t.runs = runs
    BY DEF Finished
  <1>a. Dispatch(t) /\ UNCHANGED <<cancels, store>>
    BY DEF Finish
  <1> HIDE DEF t
  <1>2. /\ DOMAIN t.comps = D /\ \A j \in D \ {i} : t.comps[j] = comps[j]
        /\ t.comps[i] = [comps[i] EXCEPT !.state = outcome, !.task = "done"]
    BY <1>0, <1>1
  <1>3. /\ t.comps[i] \in CompOn(D) /\ t.comps[i].fp = comps[i].fp
        /\ t.comps[i].demanders = comps[i].demanders
        /\ t.comps[i].state = outcome /\ t.comps[i].task = "done"
    BY <1>0, <1>2 DEF CompOn, ComputationState, TaskState
  <1>4. t.comps \in Seq(CompOn(D))
    <2>1. t.comps = [j \in D |-> t.comps[j]]
      BY <1>0, <1>1
    <2>2. \A j \in D : t.comps[j] \in CompOn(D)
      BY <1>2, <1>3, GoodNow DEF IInv
    <2>3. t.comps \in [D -> CompOn(D)]
      BY <2>1, <2>2
    <2> QED
      BY <1>0, <2>3, FunctionIsSeq
  <1>5. t.running = {j \in running : t.comps[j].state = "running"}
    BY <1>0, <1>1, <1>2, <1>3 DEF Good, Budget, State
  <1>6. t.comps[i].state = "succeeded" => comps[i].fp \in store
    BY <1>0, <1>3 DEF Good, Stored, State
  <1>7. Good(t, store) /\ Staged(t)
    BY <1>0, <1>1, <1>2, <1>3, <1>4, <1>5, <1>6, TouchedGood
  <1>8. Good(State', store) /\ Legal
    BY <1>a, <1>7, LaterReflexive, StageThenDispatch
  <1> QED
    BY <1>a, <1>8, StepKeeps DEF IInv

LEMMA ExecuteStep ==
  ASSUME IInv, NEW i \in DOMAIN comps, Execute(i)
  PROVE  IInv' /\ Legal
  <1>0. store \subseteq Fingerprint /\ comps[i].fp \in Fingerprint
    BY GoodNow DEF IInv, CompOn
  <1>1. CASE RunnerReturns(i)
    BY <1>0, <1>1, TaskStep DEF RunnerReturns, Moves, TaskState
  <1>2. CASE PutResult(i)
    BY <1>0, <1>2, TaskStep DEF PutResult, Moves, TaskState
  <1>3. CASE ExecuteRaises(i)
    <2>1. /\ comps' = [comps EXCEPT ![i].task = "failure"]
          /\ UNCHANGED <<records, ready, running, runs, cancels>>
          /\ store \subseteq store' /\ store' \subseteq Fingerprint
      BY <1>0, <1>3 DEF ExecuteRaises, Moves
    <2> QED
      BY <2>1, TaskStep DEF TaskState
  <1>4. CASE RecordSuccess(i)
    BY <1>4, FinishStep DEF RecordSuccess
  <1>5. CASE RecordFailure(i)
    BY <1>5, FinishStep DEF RecordFailure
  <1>6. CASE TaskStops(i)
    <2>1. /\ comps' = [comps EXCEPT ![i].task = "done"]
          /\ UNCHANGED <<records, ready, running, runs, cancels>>
          /\ store \subseteq store' /\ store' \subseteq Fingerprint
      BY <1>0, <1>6 DEF TaskStops
    <2> QED
      BY <2>1, TaskStep DEF TaskState
  <1> QED
    BY <1>1, <1>2, <1>3, <1>4, <1>5, <1>6 DEF Execute

\* Nothing moves but the store, which may grow.
LEMMA StoreStep ==
  ASSUME IInv, UNCHANGED <<comps, records, ready, running, runs, cancels>>,
         store \subseteq store', store' \subseteq Fingerprint
  PROVE  IInv' /\ Legal
  <1>1. State' = State /\ Typed(State') /\ Budget(State') /\ Kept(State') /\ Answers(State')
    BY DEF IInv, Good, State
  <1>2. Stored(State', store')
    BY <1>1 DEF IInv, Good, Stored
  <1>3. \A p \in Run : runs[p].phase = "new" => ~runs[p].withdrawn /\ runs[p].result = "none"
    BY DEF IInv, Good, Answers, State
  <1>4. Legal
    BY <1>3 DEF Legal
  <1> QED
    BY <1>1, <1>2, <1>4, StepKeeps DEF Good

LEMMA StepLemma ==
  ASSUME IInv, [Next]_vars
  PROVE  IInv' /\ Legal
  <1>1. ASSUME NEW r \in Run, Submit(r) \/ Cancel(r)
        PROVE  IInv' /\ Legal
    BY <1>1, SubmitStep, CancelStep
  <1>2. ASSUME NEW c \in cancels, CancelReturn(c)
        PROVE  IInv' /\ Legal
    BY <1>2, CancelReturnStep
  <1>3. ASSUME NEW i \in DOMAIN comps, Execute(i)
        PROVE  IInv' /\ Legal
    BY <1>3, ExecuteStep
  <1>4. ASSUME NEW f \in Fingerprint, StoredElsewhere(f)
        PROVE  IInv' /\ Legal
    <2>1. /\ UNCHANGED <<comps, records, ready, running, runs, cancels>>
          /\ store \subseteq store' /\ store' \subseteq Fingerprint
      BY <1>4 DEF StoredElsewhere, IInv
    <2> QED
      BY <2>1, StoreStep
  <1>5. CASE UNCHANGED vars
    <2>1. /\ UNCHANGED <<comps, records, ready, running, runs, cancels>>
          /\ store \subseteq store' /\ store' \subseteq Fingerprint
      BY <1>5 DEF vars, IInv
    <2> QED
      BY <2>1, StoreStep
  <1> QED
    BY <1>1, <1>2, <1>3, <1>4, <1>5 DEF Next

LEMMA InitLemma == Init => IInv
  <1> SUFFICES ASSUME Init PROVE IInv
    OBVIOUS
  <1>1. comps = <<>> /\ DOMAIN comps = {} /\ running = {} /\ cancels = {}
    BY DEF Init
  <1>2. \A r \in Run : runs[r] = NewRun
    BY DEF Init
  <1>3. Typed(State)
    <2>1. NewRun \in RunOn({})
      BY DEF NewRun, RunOn
    <2>2. runs \in [Run -> RunOn({})]
      BY <2>1 DEF Init
    <2>3. comps \in Seq(CompOn({})) /\ ready \in Seq({})
      BY DEF Init
    <2>4. /\ records \in [Fingerprint -> {0} \cup {}]
          /\ \A f \in Fingerprint : records[f] = 0
      BY DEF Init
    <2> QED
      BY <1>1, <2>2, <2>3, <2>4 DEF Typed, State
  <1>4. Budget(State)
    BY <1>1, FS_EmptySet, ConcurrencyAssumption DEF Budget, State
  <1>5. Kept(State) /\ Stored(State, store) /\ Answers(State)
    BY <1>1, <1>2 DEF Kept, Stored, Answers, State, NewRun
  <1>6. store \subseteq Fingerprint
    BY DEF Init
  <1> QED
    BY <1>1, <1>3, <1>4, <1>5, <1>6 DEF IInv, Good

----------------------------------------------------------------------------
(* Theorems *)

(* The inductive invariant holds in every reachable state.                 *)
THEOREM Inductive == Spec => []IInv
  BY InitLemma, StepLemma, PTL DEF Spec

(* Whatever submit, cancel, _dispatch and _execute do in whatever order,   *)
(* every pointer of the scheduler's bookkeeping stays on the heap and      *)
(* _records files every attempt under its own fingerprint.                 *)
THEOREM TypeCorrect == Spec => []TypeOK
  <1>1. IInv => TypeOK
    BY TypeOKIsTyped DEF IInv, Good
  <1> QED
    BY <1>1, Inductive, PTL

(* _running is exactly the set of running objects and never exceeds the    *)
(* Project's budget, whatever the budget is.                               *)
THEOREM BudgetHolds == Spec => []WithinBudget
  <1>1. IInv => WithinBudget
    BY DEF IInv, Good, Budget, WithinBudget, State
  <1> QED
    BY <1>1, Inductive, PTL

(* What is reported as succeeded is stored, and what a Run that was not    *)
(* cancelled waits for stays filed in _records with the Run as demander.   *)
THEOREM NothingIsLost == Spec => []NothingLost
  <1>1. IInv => NothingLost
    BY DEF IInv, Good, Kept, Stored, NothingLost, State
  <1> QED
    BY <1>1, Inductive, PTL

(* No step of the scheduler moves an object against the lifecycle table.   *)
THEOREM LifecycleRespected == Spec => LifecycleStep
  <1>1. IInv /\ [Next]_vars =>
          [\A i \in DOMAIN comps :
             \/ comps'[i].state = comps[i].state
             \/ <<comps[i].state, comps'[i].state>> \in TRANSITIONS
             \/ comps[i].state = "pending" /\ comps'[i].state = "running"]_vars
    BY StepLemma DEF Legal
  <1> QED
    BY <1>1, Inductive, PTL DEF Spec, LifecycleStep

(* The scheduler implements RunDemand: whatever it does is accepting,      *)
(* withdrawing or answering Runs, each at most once, and the second answer *)
(* of a suspended cancel repeats the first.                                *)
THEOREM ImplementsDemand == Spec => AnsweredOnce
  <1> DEFINE Status(run) == IF run.phase = "new" THEN "unknown"
                            ELSE IF run.result = "none" THEN "active"
                            ELSE run.result
             d == [r \in Run |-> [status |-> Status(runs[r]), withdrawn |-> runs[r].withdrawn]]
  <1>1. Init => Demand!DemandInit
    BY DEF Init, NewRun, Demand!DemandInit, Demand!Unknown
  <1>2. ASSUME IInv, IInv', [Next]_vars
        PROVE  [Demand!DemandNext]_d
    <2>1. Legal
      BY <1>2, StepLemma
    <2>2. ASSUME NEW r \in Run
          PROVE  d'[r] = d[r] \/ Demand!Accepts(r) \/ Demand!Withdraws(r) \/ Demand!Answers(r)
      <3>1. /\ d[r] = [status |-> Status(runs[r]), withdrawn |-> runs[r].withdrawn]
            /\ d'[r] = [status |-> Status(runs'[r]), withdrawn |-> runs'[r].withdrawn]
        OBVIOUS
      <3>2. /\ runs[r].withdrawn \in BOOLEAN /\ runs'[r].withdrawn \in BOOLEAN
            /\ runs'[r].result \in {"none", "succeeded", "failed", "cancelled"}
        <4>1. Typed(State) /\ Typed(State') /\ State.runs = runs /\ State'.runs = runs'
          BY <1>2 DEF IInv, Good, State
        <4> QED
          BY <4>1, RunFields
      <3>3. /\ runs[r].withdrawn => runs[r].result \in {"none", "cancelled"}
            /\ runs[r].result = "cancelled" => runs[r].withdrawn
            /\ runs[r].phase = "new" => ~runs[r].withdrawn
        BY <1>2 DEF IInv, Good, Answers, State
      <3>4. /\ runs'[r].withdrawn => runs'[r].result \in {"none", "cancelled"}
            /\ runs'[r].result = "cancelled" => runs'[r].withdrawn
            /\ runs'[r].phase = "new" => ~runs'[r].withdrawn
        BY <1>2 DEF IInv, Good, Answers, State
      <3>5. CASE runs[r].phase = "new"
        <4>1. runs[r].withdrawn = FALSE /\ runs'[r].withdrawn = FALSE /\ runs'[r].result = "none"
          BY <2>1, <3>2, <3>3, <3>5 DEF Legal
        <4>2. d[r] = Demand!Unknown
          BY <3>1, <3>5, <4>1 DEF Demand!Unknown
        <4>3. CASE runs'[r].phase = "new"
          BY <3>1, <3>5, <4>1, <4>3
        <4>4. CASE runs'[r].phase # "new"
          <5>1. d'[r] = Demand!Active(FALSE)
            BY <3>1, <4>1, <4>4 DEF Demand!Active
          <5> QED
            BY <4>2, <5>1 DEF Demand!Accepts
        <4> QED
          BY <4>3, <4>4
      <3>6. CASE runs[r].phase # "new" /\ runs[r].result # "none"
        <4>1. runs'[r].phase # "new" /\ runs'[r].result = runs[r].result
          BY <2>1, <3>6 DEF Legal
        <4>2. runs'[r].withdrawn = runs[r].withdrawn
          BY <2>1, <3>2, <3>3, <3>4, <3>6, <4>1 DEF Legal
        <4> QED
          BY <3>1, <3>6, <4>1, <4>2
      <3>7. CASE runs[r].phase # "new" /\ runs[r].result = "none"
        BY <2>1, <3>1, <3>2, <3>3, <3>4, <3>7
           DEF Legal, Demand!Withdraws, Demand!Answers, Demand!Active, Demand!Answered,
               Demand!Outcome
      <3> QED
        BY <3>5, <3>6, <3>7
    <2> QED
      BY <2>2 DEF Demand!DemandNext
  <1> QED
    BY <1>1, <1>2, Inductive, PTL DEF Spec, AnsweredOnce, Demand!DemandSpec

=============================================================================
