-------------------------- MODULE SchedulerStages --------------------------
(***************************************************************************)
(* The inductive invariant of Scheduler on the state a step is building,   *)
(* and that every stage of a dispatch preserves it.                        *)
(***************************************************************************)
EXTENDS Scheduler, FiniteSetTheorems, SequenceTheorems, TLAPS

CompOn(D) == [fp : Fingerprint, state : ComputationState,
              demanders : SUBSET Run, deps : SUBSET D, task : TaskState]

RunOn(D) == [phase : {"new", "joining", "submitted", "raised"},
             plan : SUBSET Fingerprint,
             todo : SUBSET Fingerprint,
             read : {<<>>} \cup (Fingerprint \X BOOLEAN),
             local : SUBSET D,
             joined : SUBSET D,
             withdrawn : BOOLEAN,
             result : {"none", "succeeded", "failed", "cancelled"},
             answer : SUBSET Fingerprint]

(* TypeOK of the state a step is building.                                 *)
Typed(s) ==
  /\ s.comps \in Seq(CompOn(DOMAIN s.comps))
  /\ s.records \in [Fingerprint -> {0} \cup DOMAIN s.comps]
  /\ \A f \in Fingerprint : s.records[f] # 0 => s.comps[s.records[f]].fp = f
  /\ s.ready \in Seq(DOMAIN s.comps)
  /\ s.running \subseteq DOMAIN s.comps
  /\ s.runs \in [Run -> RunOn(DOMAIN s.comps)]

LEMMA TypeOKIsTyped ==
  TypeOK <=> /\ Typed(State)
             /\ cancels \subseteq [run : Run, tasks : SUBSET DOMAIN comps]
             /\ store \subseteq Fingerprint
  BY DEF TypeOK, Typed, State, CompOn, RunOn, RunRecord

LEMMA FunctionIsSeq ==
  ASSUME NEW S, NEW T, NEW c \in Seq(T), NEW g, g \in [DOMAIN c -> S]
  PROVE  g \in Seq(S) /\ DOMAIN g = DOMAIN c /\ Len(g) = Len(c)
  <1>1. DOMAIN c = 1..Len(c) /\ Len(c) \in Nat
    OBVIOUS
  <1>2. g \in [1..Len(c) -> S]
    BY <1>1
  <1>3. g \in Seq(S)
    BY <1>1, <1>2
  <1> QED
    BY <1>1, <1>2, <1>3

LEMMA RunResultType ==
  ASSUME NEW s, NEW r
  PROVE  RunResult(s, r) \in {"succeeded", "failed", "cancelled"}
  BY DEF RunResult

----------------------------------------------------------------------------
(* What each stage of a step does, field by field *)

LEMMA CompFields ==
  ASSUME NEW s, Typed(s), NEW i \in DOMAIN s.comps
  PROVE  /\ s.comps[i] \in CompOn(DOMAIN s.comps)
         /\ s.comps[i].fp \in Fingerprint
         /\ s.comps[i].state \in ComputationState
         /\ s.comps[i].demanders \in SUBSET Run
         /\ s.comps[i].deps \in SUBSET DOMAIN s.comps
         /\ s.comps[i].task \in TaskState
  <1>1. s.comps \in Seq(CompOn(DOMAIN s.comps))
    BY DEF Typed
  <1>2. s.comps[i] \in CompOn(DOMAIN s.comps)
    BY <1>1
  <1> QED
    BY <1>2 DEF CompOn

LEMMA ReleasedFields ==
  ASSUME NEW s, Typed(s), NEW F \in SUBSET Run
  PROVE  /\ Released(s, F) \in Seq(CompOn(DOMAIN s.comps))
         /\ DOMAIN Released(s, F) = DOMAIN s.comps
         /\ \A i \in DOMAIN s.comps :
              /\ Released(s, F)[i].fp = s.comps[i].fp
              /\ Released(s, F)[i].state = s.comps[i].state
              /\ Released(s, F)[i].task = s.comps[i].task
              /\ Released(s, F)[i].demanders = Left(s, F, i)
  <1> DEFINE D == DOMAIN s.comps
             g == Released(s, F)
  <1>1. \A i \in D : Left(s, F, i) \in SUBSET Run
    <2> TAKE i \in D
    <2>1. s.comps[i].demanders \in SUBSET Run
      BY CompFields
    <2> QED
      BY <2>1 DEF Left
  <1>2. \A i \in D : g[i] = [s.comps[i] EXCEPT !.demanders = Left(s, F, i)]
    BY DEF Released
  <1>3. \A i \in D : /\ g[i] \in CompOn(D)
                     /\ g[i].fp = s.comps[i].fp
                     /\ g[i].state = s.comps[i].state
                     /\ g[i].task = s.comps[i].task
                     /\ g[i].demanders = Left(s, F, i)
    <2> TAKE i \in D
    <2>1. s.comps[i] \in CompOn(D) /\ Left(s, F, i) \in SUBSET Run
      BY <1>1, CompFields
    <2> QED
      BY <1>2, <2>1 DEF CompOn
  <1>4. g \in [D -> CompOn(D)]
    BY <1>3 DEF Released
  <1>5. g \in Seq(CompOn(D)) /\ DOMAIN g = D
    BY <1>4, FunctionIsSeq DEF Typed
  <1> QED
    BY <1>3, <1>5

LEMMA AnsweredFields ==
  ASSUME NEW s, Typed(s), NEW F \in SUBSET Run
  PROVE  /\ Answered(s, F) \in [Run -> RunOn(DOMAIN s.comps)]
         /\ \A r \in F : /\ Answered(s, F)[r].result = RunResult(s, r)
                         /\ Answered(s, F)[r].joined = {}
                         /\ Answered(s, F)[r].withdrawn = s.runs[r].withdrawn
                         /\ Answered(s, F)[r].phase = s.runs[r].phase
                         /\ Answered(s, F)[r].read = s.runs[r].read
         /\ \A r \in Run \ F : Answered(s, F)[r] = s.runs[r]
  <1> DEFINE D == DOMAIN s.comps
             reported(r) == {s.comps[i].fp : i \in s.runs[r].joined}
  <1>1. \A r \in Run : s.runs[r] \in RunOn(D)
    BY DEF Typed
  <1>2. \A r \in Run : reported(r) \in SUBSET Fingerprint
    <2> TAKE r \in Run
    <2>1. s.runs[r].joined \subseteq D
      BY <1>1 DEF RunOn
    <2>2. \A i \in D : s.comps[i].fp \in Fingerprint
      BY CompFields
    <2> QED
      BY <2>1, <2>2
  <1> HIDE DEF reported
  <1>3. \A r \in Run : Answered(s, F)[r] =
          IF r \in F THEN [s.runs[r] EXCEPT !.result = RunResult(s, r),
                                            !.answer = reported(r),
                                            !.joined = {}]
                     ELSE s.runs[r]
    BY DEF Answered, reported
  <1>4. \A r \in F : RunResult(s, r) \in {"none", "succeeded", "failed", "cancelled"}
    BY RunResultType
  <1>5. \A r \in F : /\ Answered(s, F)[r] \in RunOn(D)
                     /\ Answered(s, F)[r].result = RunResult(s, r)
                     /\ Answered(s, F)[r].joined = {}
                     /\ Answered(s, F)[r].withdrawn = s.runs[r].withdrawn
                     /\ Answered(s, F)[r].phase = s.runs[r].phase
                     /\ Answered(s, F)[r].read = s.runs[r].read
    <2> SUFFICES ASSUME NEW r \in F
                 PROVE  /\ Answered(s, F)[r] \in RunOn(D)
                        /\ Answered(s, F)[r].result = RunResult(s, r)
                        /\ Answered(s, F)[r].joined = {}
                        /\ Answered(s, F)[r].withdrawn = s.runs[r].withdrawn
                        /\ Answered(s, F)[r].phase = s.runs[r].phase
                        /\ Answered(s, F)[r].read = s.runs[r].read
      OBVIOUS
    <2>1. Answered(s, F)[r] = [s.runs[r] EXCEPT !.result = RunResult(s, r),
                                                !.answer = reported(r),
                                                !.joined = {}]
      BY <1>3
    <2>2. reported(r) \in SUBSET Fingerprint /\ s.runs[r] \in RunOn(D)
      BY <1>1, <1>2
    <2> QED
      BY <2>1, <2>2, <1>4 DEF RunOn
  <1>6. \A r \in Run \ F : Answered(s, F)[r] = s.runs[r]
    BY <1>3
  <1>7. Answered(s, F) \in [Run -> RunOn(D)]
    BY <1>1, <1>5, <1>6 DEF Answered
  <1> QED
    BY <1>5, <1>6, <1>7

LEMMA RememberedFields ==
  ASSUME NEW s, Typed(s), NEW F \in SUBSET Run
  PROVE  /\ Remembered(s, F) \in [Fingerprint -> {0} \cup DOMAIN s.comps]
         /\ \A f \in Fingerprint : Remembered(s, F)[f] \in {0, s.records[f]}
  BY DEF Remembered, Typed

(* A stage that keeps the heap's objects and their fingerprints, and files *)
(* no new object, keeps a state typed when its parts are.                  *)
LEMMA SameHeapTyped ==
  ASSUME NEW s, Typed(s), NEW t,
         t.comps \in Seq(CompOn(DOMAIN s.comps)),
         DOMAIN t.comps = DOMAIN s.comps,
         \A i \in DOMAIN s.comps : t.comps[i].fp = s.comps[i].fp,
         t.records \in [Fingerprint -> {0} \cup DOMAIN s.comps],
         \A f \in Fingerprint : t.records[f] \in {0, s.records[f]},
         t.ready \in Seq(DOMAIN s.comps),
         t.running \subseteq DOMAIN s.comps,
         t.runs \in [Run -> RunOn(DOMAIN s.comps)]
  PROVE  Typed(t)
  <1>1. \A f \in Fingerprint : t.records[f] # 0 => t.comps[t.records[f]].fp = f
    <2> TAKE f \in Fingerprint
    <2> HAVE t.records[f] # 0
    <2>1. /\ t.records[f] = s.records[f] /\ s.records[f] \in DOMAIN s.comps
          /\ s.comps[s.records[f]].fp = f
      BY DEF Typed
    <2> QED
      BY <2>1
  <1> QED
    BY <1>1 DEF Typed

LEMMA FinishRunsTyped ==
  ASSUME NEW s, Typed(s), NEW F \in SUBSET Run
  PROVE  Typed(FinishRuns(s, F))
  <1> DEFINE t == FinishRuns(s, F)
  <1>1. /\ t.comps = Released(s, F) /\ t.records = Remembered(s, F)
        /\ t.ready = s.ready /\ t.running = s.running /\ t.runs = Answered(s, F)
    BY DEF FinishRuns
  <1>2. s.ready \in Seq(DOMAIN s.comps) /\ s.running \subseteq DOMAIN s.comps
    BY DEF Typed
  <1> HIDE DEF t
  <1>3. Typed(t)
    BY <1>1, <1>2, ReleasedFields, RememberedFields, AnsweredFields, SameHeapTyped
  <1> QED
    BY <1>3 DEF t

LEMMA DecidedFields ==
  ASSUME NEW s, Typed(s),
         NEW v \in [Pending(s) -> {"pending", "ready", "skipped", "cancelled"}]
  PROVE  /\ Decided(s, v) \in Seq(CompOn(DOMAIN s.comps))
         /\ DOMAIN Decided(s, v) = DOMAIN s.comps
         /\ \A i \in DOMAIN s.comps :
              /\ Decided(s, v)[i].fp = s.comps[i].fp
              /\ Decided(s, v)[i].state = IF i \in Pending(s) THEN v[i] ELSE s.comps[i].state
              /\ Decided(s, v)[i].task = s.comps[i].task
              /\ Decided(s, v)[i].demanders = s.comps[i].demanders
  <1> DEFINE D == DOMAIN s.comps
             g == Decided(s, v)
             st(i) == IF i \in Pending(s) THEN v[i] ELSE s.comps[i].state
  <1>1. \A i \in D : st(i) \in ComputationState
    BY CompFields DEF ComputationState
  <1>2. \A i \in D : g[i] = [s.comps[i] EXCEPT !.state = st(i)]
    BY DEF Decided
  <1> HIDE DEF st
  <1>3. \A i \in D : /\ g[i] \in CompOn(D)
                     /\ g[i].fp = s.comps[i].fp
                     /\ g[i].state = st(i)
                     /\ g[i].task = s.comps[i].task
                     /\ g[i].demanders = s.comps[i].demanders
    <2> TAKE i \in D
    <2>1. s.comps[i] \in CompOn(D) /\ st(i) \in ComputationState
      BY <1>1, CompFields
    <2> QED
      BY <1>2, <2>1 DEF CompOn
  <1>4. g \in [D -> CompOn(D)]
    BY <1>3 DEF Decided
  <1>5. g \in Seq(CompOn(D)) /\ DOMAIN g = D
    BY <1>4, FunctionIsSeq DEF Typed
  <1> QED
    BY <1>3, <1>5 DEF st

LEMMA LaunchedFields ==
  ASSUME NEW s, Typed(s), NEW k
  PROVE  /\ Launched(s, k) \in Seq(CompOn(DOMAIN s.comps))
         /\ DOMAIN Launched(s, k) = DOMAIN s.comps
         /\ \A i \in DOMAIN s.comps :
              /\ Launched(s, k)[i].fp = s.comps[i].fp
              /\ Launched(s, k)[i].state =
                   IF i \in Started(s, k) THEN "running" ELSE s.comps[i].state
              /\ Launched(s, k)[i].task =
                   IF i \in Started(s, k) THEN "runner" ELSE s.comps[i].task
              /\ Launched(s, k)[i].demanders = s.comps[i].demanders
  <1> DEFINE D == DOMAIN s.comps
             g == Launched(s, k)
  <1>1. "running" \in ComputationState /\ "runner" \in TaskState
    BY DEF ComputationState, TaskState
  <1>2. \A i \in D : g[i] = IF i \in Started(s, k)
                            THEN [s.comps[i] EXCEPT !.state = "running", !.task = "runner"]
                            ELSE s.comps[i]
    BY DEF Launched
  <1>3. \A i \in D : /\ g[i] \in CompOn(D)
                     /\ g[i].fp = s.comps[i].fp
                     /\ g[i].state = IF i \in Started(s, k) THEN "running"
                                                            ELSE s.comps[i].state
                     /\ g[i].task = IF i \in Started(s, k) THEN "runner"
                                                           ELSE s.comps[i].task
                     /\ g[i].demanders = s.comps[i].demanders
    <2> TAKE i \in D
    <2>1. s.comps[i] \in CompOn(D)
      BY CompFields
    <2>2. CASE i \in Started(s, k)
      BY <1>1, <1>2, <2>1, <2>2 DEF CompOn
    <2>3. CASE i \notin Started(s, k)
      BY <1>2, <2>1, <2>3
    <2> QED
      BY <2>2, <2>3
  <1>4. g \in [D -> CompOn(D)]
    BY <1>3 DEF Launched
  <1>5. g \in Seq(CompOn(D)) /\ DOMAIN g = D
    BY <1>4, FunctionIsSeq DEF Typed
  <1> QED
    BY <1>3, <1>5

LEMMA ResolvedTyped ==
  ASSUME NEW s, Typed(s),
         NEW v \in [Pending(s) -> {"pending", "ready", "skipped", "cancelled"}],
         NEW q \in Seq(DOMAIN s.comps)
  PROVE  Typed(Resolved(s, v, q))
  <1> DEFINE t == Resolved(s, v, q)
  <1>1. /\ t.comps = Decided(s, v) /\ t.records = s.records
        /\ t.ready = s.ready \o q /\ t.running = s.running /\ t.runs = s.runs
    BY DEF Resolved
  <1>2. s.ready \o q \in Seq(DOMAIN s.comps)
    <2>1. s.ready \in Seq(DOMAIN s.comps)
      BY DEF Typed
    <2> QED
      BY <2>1, ConcatProperties
  <1> HIDE DEF t
  <1>3. /\ t.records \in [Fingerprint -> {0} \cup DOMAIN s.comps]
        /\ \A f \in Fingerprint : t.records[f] \in {0, s.records[f]}
        /\ t.running \subseteq DOMAIN s.comps
        /\ t.runs \in [Run -> RunOn(DOMAIN s.comps)]
    BY <1>1 DEF Typed
  <1>4. Typed(t)
    <2>1. /\ t.comps \in Seq(CompOn(DOMAIN s.comps))
          /\ DOMAIN t.comps = DOMAIN s.comps
          /\ \A i \in DOMAIN s.comps : t.comps[i].fp = s.comps[i].fp
      BY <1>1, DecidedFields
    <2>2. t.ready \in Seq(DOMAIN s.comps)
      BY <1>1, <1>2
    <2> QED
      BY <1>3, <2>1, <2>2, SameHeapTyped
  <1> QED
    BY <1>4 DEF t

LEMMA AfterStartTyped ==
  ASSUME NEW s, Typed(s), NEW k \in 0..Len(s.ready)
  PROVE  Typed(AfterStart(s, k)) /\ Started(s, k) \subseteq DOMAIN s.comps
  <1> DEFINE t == AfterStart(s, k)
             rest == SubSeq(s.ready, k + 1, Len(s.ready))
  <1>1. /\ t.comps = Launched(s, k) /\ t.records = s.records
        /\ t.running = s.running \cup Started(s, k) /\ t.runs = s.runs
    BY DEF AfterStart
  <1>a. t.ready = rest
    BY Zenon DEF AfterStart
  <1>2. s.ready \in Seq(DOMAIN s.comps)
    BY DEF Typed
  <1>3. rest \in Seq(DOMAIN s.comps)
    <2>1. \A m \in (k + 1)..Len(s.ready) : s.ready[m] \in DOMAIN s.comps
      BY <1>2
    <2>2. k + 1 \in Int /\ Len(s.ready) \in Int
      BY <1>2
    <2> HIDE DEF rest
    <2>3. SubSeq(s.ready, k + 1, Len(s.ready)) \in Seq(DOMAIN s.comps)
      BY <2>1, <2>2, SubSeqProperties
    <2> QED
      BY <2>3 DEF rest
  <1>4. Started(s, k) \subseteq DOMAIN s.comps
    <2>1. \A m \in 1..k : s.ready[m] \in DOMAIN s.comps
      BY <1>2
    <2> QED
      BY <2>1 DEF Started
  <1> HIDE DEF t, rest
  <1>5. /\ t.records \in [Fingerprint -> {0} \cup DOMAIN s.comps]
        /\ \A f \in Fingerprint : t.records[f] \in {0, s.records[f]}
        /\ t.running \subseteq DOMAIN s.comps
        /\ t.runs \in [Run -> RunOn(DOMAIN s.comps)]
    BY <1>1, <1>4 DEF Typed
  <1>6. Typed(t)
    <2>1. /\ t.comps \in Seq(CompOn(DOMAIN s.comps))
          /\ DOMAIN t.comps = DOMAIN s.comps
          /\ \A i \in DOMAIN s.comps : t.comps[i].fp = s.comps[i].fp
      BY <1>1, LaunchedFields
    <2> QED
      BY <1>a, <1>3, <1>5, <2>1, SameHeapTyped
  <1> QED
    BY <1>4, <1>6 DEF t

LEMMA CompleteRunsTyped ==
  ASSUME NEW s, Typed(s) PROVE Typed(CompleteRuns(s))
  BY FinishRunsTyped DEF CompleteRuns

----------------------------------------------------------------------------
(* The inductive invariant, on the state a step is building *)

Budget(s) ==
  /\ s.running = {i \in DOMAIN s.comps : s.comps[i].state = "running"}
  /\ Cardinality(s.running) <= Concurrency

(* What a Run that was not cancelled waits for is filed, with its demand.  *)
Kept(s) ==
  \A r \in Run : ~s.runs[r].withdrawn =>
    \A i \in s.runs[r].joined :
      s.comps[i].state \notin TERMINAL_STATES =>
        s.records[s.comps[i].fp] = i /\ r \in s.comps[i].demanders

(* A success, a task past put_result and a store read that found a result  *)
(* all speak of a stored result.                                           *)
Stored(s, st) ==
  /\ \A i \in DOMAIN s.comps :
       s.comps[i].state = "succeeded" \/ s.comps[i].task = "pointer"
         => s.comps[i].fp \in st
  /\ \A r \in Run : s.runs[r].read # <<>> /\ s.runs[r].read[2] => s.runs[r].read[1] \in st

(* A withdrawn Run is answered as cancelled or not yet; an id nobody has   *)
(* submitted has no demand and no answer.                                  *)
Answers(s) ==
  \A r \in Run :
    /\ s.runs[r].withdrawn => s.runs[r].result \in {"none", "cancelled"}
    /\ s.runs[r].result = "cancelled" => s.runs[r].withdrawn
    /\ s.runs[r].phase = "new" => /\ ~s.runs[r].withdrawn
                                  /\ s.runs[r].result = "none"
                                  /\ s.runs[r].read = <<>>

Good(s, st) == Typed(s) /\ Budget(s) /\ Kept(s) /\ Stored(s, st) /\ Answers(s)

(* What a dispatch may do to the state of an object.                       *)
SweepMove(x, y) == \/ y = x
                   \/ x = "pending" /\ y \in {"ready", "running", "skipped", "cancelled"}
                   \/ x = "ready" /\ y = "running"

Later(s, t) ==
  /\ DOMAIN t.comps = DOMAIN s.comps
  /\ \A i \in DOMAIN s.comps : SweepMove(s.comps[i].state, t.comps[i].state)
  /\ \A r \in Run : s.runs[r].result # "none" => t.runs[r].result = s.runs[r].result
  /\ \A r \in Run : s.runs[r].withdrawn => t.runs[r].withdrawn
  /\ \A r \in Run : s.runs[r].phase = "new" <=> t.runs[r].phase = "new"

LEMMA HeapFinite ==
  ASSUME NEW s, Typed(s), NEW S, S \subseteq DOMAIN s.comps
  PROVE  IsFiniteSet(S)
  <1>1. DOMAIN s.comps = 1..Len(s.comps) /\ Len(s.comps) \in Nat
    BY DEF Typed
  <1>2. IsFiniteSet(DOMAIN s.comps)
    BY <1>1, FS_Interval
  <1> QED
    BY <1>2, FS_Subset

LEMMA RunFields ==
  ASSUME NEW s, Typed(s), NEW r \in Run
  PROVE  /\ s.runs[r] \in RunOn(DOMAIN s.comps)
         /\ s.runs[r].joined \subseteq DOMAIN s.comps
         /\ s.runs[r].local \subseteq DOMAIN s.comps
         /\ s.runs[r].withdrawn \in BOOLEAN
         /\ s.runs[r].result \in {"none", "succeeded", "failed", "cancelled"}
  <1>1. s.runs[r] \in RunOn(DOMAIN s.comps)
    BY DEF Typed
  <1> QED
    BY <1>1 DEF RunOn

LEMMA FinishRunsGood ==
  ASSUME NEW s, NEW st, Good(s, st), NEW F \in SUBSET Run,
         \A r \in F : /\ s.runs[r].phase # "new"
                      /\ s.runs[r].result = "none" \/ s.runs[r].withdrawn
  PROVE  Good(FinishRuns(s, F), st) /\ Later(s, FinishRuns(s, F))
  <1> DEFINE t == FinishRuns(s, F)
             D == DOMAIN s.comps
  <1>1. /\ t.comps = Released(s, F) /\ t.records = Remembered(s, F)
        /\ t.running = s.running /\ t.runs = Answered(s, F)
    BY DEF FinishRuns
  <1> HIDE DEF t
  <1>2. Typed(s) /\ Budget(s) /\ Kept(s) /\ Stored(s, st) /\ Answers(s)
    BY DEF Good
  <1>3. Typed(t)
    BY <1>2, FinishRunsTyped DEF t
  <1>4. /\ DOMAIN t.comps = D
        /\ \A i \in D : /\ t.comps[i].fp = s.comps[i].fp
                        /\ t.comps[i].state = s.comps[i].state
                        /\ t.comps[i].task = s.comps[i].task
                        /\ t.comps[i].demanders = Left(s, F, i)
    BY <1>1, <1>2, ReleasedFields
  <1>5. \A r \in F : /\ t.runs[r].result = RunResult(s, r)
                     /\ t.runs[r].joined = {}
                     /\ t.runs[r].withdrawn = s.runs[r].withdrawn
                     /\ t.runs[r].phase = s.runs[r].phase
                     /\ t.runs[r].read = s.runs[r].read
    BY <1>1, <1>2, AnsweredFields
  <1>6. \A r \in Run \ F : t.runs[r] = s.runs[r]
    BY <1>1, <1>2, AnsweredFields
  <1>7. Budget(t)
    BY <1>1, <1>2, <1>4 DEF Budget
  <1>8. Kept(t)
    <2> SUFFICES ASSUME NEW r \in Run, ~t.runs[r].withdrawn,
                        NEW i \in t.runs[r].joined,
                        t.comps[i].state \notin TERMINAL_STATES
                 PROVE  t.records[t.comps[i].fp] = i /\ r \in t.comps[i].demanders
      BY DEF Kept
    <2>1. r \notin F /\ t.runs[r] = s.runs[r]
      BY <1>5, <1>6
    <2>2. i \in D
      BY <2>1, <1>2, RunFields
    <2>3. s.records[s.comps[i].fp] = i /\ r \in s.comps[i].demanders
      BY <1>2, <1>4, <2>1, <2>2 DEF Kept
    <2>4. r \in Left(s, F, i)
      BY <2>1, <2>3 DEF Left
    <2>5. s.comps[i].fp \in Fingerprint
      BY <1>2, <2>2, CompFields
    <2>6. Remembered(s, F)[s.comps[i].fp] = i
      BY <2>3, <2>4, <2>5 DEF Remembered
    <2> QED
      BY <1>1, <1>4, <2>2, <2>4, <2>6
  <1>9. Stored(t, st)
    <2>1. \A r \in Run : t.runs[r].read = s.runs[r].read
      BY <1>5, <1>6
    <2> QED
      BY <1>2, <1>4, <2>1 DEF Stored
  <1>10. Answers(t)
    <2> SUFFICES ASSUME NEW r \in Run
                 PROVE  /\ t.runs[r].withdrawn => t.runs[r].result \in {"none", "cancelled"}
                        /\ t.runs[r].result = "cancelled" => t.runs[r].withdrawn
                        /\ t.runs[r].phase = "new" => /\ ~t.runs[r].withdrawn
                                                      /\ t.runs[r].result = "none"
                                                      /\ t.runs[r].read = <<>>
      BY DEF Answers
    <2>1. CASE r \in F
      BY <1>5, <2>1 DEF RunResult
    <2>2. CASE r \notin F
      BY <1>2, <1>6, <2>2 DEF Answers
    <2> QED
      BY <2>1, <2>2
  <1>11. Later(s, t)
    <2>1. \A r \in Run : s.runs[r].result # "none" => t.runs[r].result = s.runs[r].result
      <3> TAKE r \in Run
      <3> HAVE s.runs[r].result # "none"
      <3>1. CASE r \in F
        <4>1. s.runs[r].withdrawn /\ s.runs[r].result = "cancelled"
          BY <1>2, <3>1 DEF Answers
        <4> QED
          BY <1>5, <3>1, <4>1 DEF RunResult
      <3>2. CASE r \notin F
        BY <1>6, <3>2
      <3> QED
        BY <3>1, <3>2
    <2>2. \A r \in Run : /\ s.runs[r].withdrawn => t.runs[r].withdrawn
                         /\ s.runs[r].phase = t.runs[r].phase
      BY <1>5, <1>6
    <2> QED
      BY <1>4, <2>1, <2>2 DEF Later, SweepMove
  <1> QED
    BY <1>3, <1>7, <1>8, <1>9, <1>10, <1>11 DEF Good, t

LEMMA ResolvedGood ==
  ASSUME NEW s, NEW st, Good(s, st),
         NEW v \in [Pending(s) -> {"pending", "ready", "skipped", "cancelled"}],
         NEW q \in Seq(DOMAIN s.comps)
  PROVE  Good(Resolved(s, v, q), st) /\ Later(s, Resolved(s, v, q))
  <1> DEFINE t == Resolved(s, v, q)
             D == DOMAIN s.comps
  <1>1. /\ t.comps = Decided(s, v) /\ t.records = s.records
        /\ t.running = s.running /\ t.runs = s.runs
    BY DEF Resolved
  <1> HIDE DEF t
  <1>2. Typed(s) /\ Budget(s) /\ Kept(s) /\ Stored(s, st) /\ Answers(s)
    BY DEF Good
  <1>3. Typed(t)
    BY <1>2, ResolvedTyped DEF t
  <1>4. /\ DOMAIN t.comps = D
        /\ \A i \in D :
             /\ t.comps[i].fp = s.comps[i].fp
             /\ t.comps[i].state = IF i \in Pending(s) THEN v[i] ELSE s.comps[i].state
             /\ t.comps[i].task = s.comps[i].task
             /\ t.comps[i].demanders = s.comps[i].demanders
    BY <1>1, <1>2, DecidedFields
  <1>5. \A i \in Pending(s) : i \in D /\ s.comps[i].state = "pending"
    BY DEF Pending
  <1>6. Budget(t)
    <2>1. \A i \in D : t.comps[i].state = "running" <=> s.comps[i].state = "running"
      BY <1>4, <1>5
    <2> QED
      BY <1>1, <1>2, <1>4, <2>1 DEF Budget
  <1>7. Kept(t)
    <2>1. \A i \in D : t.comps[i].state \notin TERMINAL_STATES
                         => s.comps[i].state \notin TERMINAL_STATES
      BY <1>4, <1>5 DEF TERMINAL_STATES
    <2>2. \A r \in Run : s.runs[r].joined \subseteq D
      BY <1>2, RunFields
    <2> QED
      BY <1>1, <1>2, <1>4, <2>1, <2>2 DEF Kept
  <1>8. Stored(t, st)
    <2>1. \A i \in D : t.comps[i].state = "succeeded" => s.comps[i].state = "succeeded"
      BY <1>4, <1>5
    <2> QED
      BY <1>1, <1>2, <1>4, <2>1 DEF Stored
  <1>9. Answers(t)
    BY <1>1, <1>2 DEF Answers
  <1>10. Later(s, t)
    <2>1. \A i \in D : SweepMove(s.comps[i].state, t.comps[i].state)
      BY <1>4, <1>5 DEF SweepMove
    <2> QED
      BY <1>1, <1>4, <2>1 DEF Later
  <1> QED
    BY <1>3, <1>6, <1>7, <1>8, <1>9, <1>10 DEF Good, t

(* The pop that spends the budget starts at most one object.               *)
LEMMA StartedWithinBudget ==
  ASSUME NEW s, Typed(s), Cardinality(s.running) <= Concurrency,
         NEW k \in 0..Len(s.ready), StopsAfter(s, k)
  PROVE  Cardinality(s.running \cup Started(s, k)) <= Concurrency
  <1>1. CASE k = 0
    <2>1. Started(s, k) = {}
      BY <1>1 DEF Started
    <2>2. s.running \cup Started(s, k) = s.running
      BY <2>1
    <2> QED
      BY <2>2
  <1>2. CASE k # 0
    <2> DEFINE A == s.running \cup Started(s, k - 1)
    <2>1. Len(s.ready) \in Nat /\ k - 1 \in 0..(k - 1) /\ k - 1 \in 0..Len(s.ready)
      BY <1>2 DEF Typed
    <2>2. Cardinality(A) < Concurrency
      BY <2>1 DEF StopsAfter
    <2>3. A \subseteq DOMAIN s.comps
      <3>1. Started(s, k - 1) \subseteq DOMAIN s.comps
        BY <2>1, AfterStartTyped
      <3>2. s.running \subseteq DOMAIN s.comps
        BY DEF Typed
      <3> QED
        BY <3>1, <3>2
    <2>4. IsFiniteSet(A)
      BY <2>3, HeapFinite
    <2>5. \A x \in Started(s, k) : x \in Started(s, k - 1) \/ x = s.ready[k]
      BY <1>2, <2>1 DEF Started
    <2>6. s.running \cup Started(s, k) \subseteq A \cup {s.ready[k]}
      BY <2>5
    <2> HIDE DEF A
    <2>7. /\ IsFiniteSet(A \cup {s.ready[k]})
          /\ Cardinality(A) \in Nat
          /\ Cardinality(A \cup {s.ready[k]}) <= Cardinality(A) + 1
      <3>1. Cardinality(A) \in Nat
        BY <2>4, FS_CardinalityType
      <3>2. /\ IsFiniteSet(A \cup {s.ready[k]})
            /\ \/ Cardinality(A \cup {s.ready[k]}) = Cardinality(A)
               \/ Cardinality(A \cup {s.ready[k]}) = Cardinality(A) + 1
        BY <2>4, FS_AddElement
      <3> QED
        BY <3>1, <3>2
    <2>8. /\ Cardinality(s.running \cup Started(s, k)) <= Cardinality(A \cup {s.ready[k]})
          /\ IsFiniteSet(s.running \cup Started(s, k))
      BY <2>6, <2>7, FS_Subset
    <2>9. /\ Cardinality(s.running \cup Started(s, k)) \in Nat
          /\ Cardinality(A \cup {s.ready[k]}) \in Nat
      BY <2>7, <2>8, FS_CardinalityType
    <2> QED
      BY <2>2, <2>7, <2>8, <2>9, ConcurrencyAssumption
  <1> QED
    BY <1>1, <1>2

LEMMA AfterStartGood ==
  ASSUME NEW s, NEW st, Good(s, st), NEW k \in 0..Len(s.ready), StopsAfter(s, k)
  PROVE  Good(AfterStart(s, k), st) /\ Later(s, AfterStart(s, k))
  <1> DEFINE t == AfterStart(s, k)
             D == DOMAIN s.comps
  <1>1. /\ t.comps = Launched(s, k) /\ t.records = s.records
        /\ t.running = s.running \cup Started(s, k) /\ t.runs = s.runs
    BY DEF AfterStart
  <1> HIDE DEF t
  <1>2. Typed(s) /\ Budget(s) /\ Kept(s) /\ Stored(s, st) /\ Answers(s)
    BY DEF Good
  <1>3. Typed(t) /\ Started(s, k) \subseteq D
    BY <1>2, AfterStartTyped DEF t
  <1>4. /\ DOMAIN t.comps = D
        /\ \A i \in D :
             /\ t.comps[i].fp = s.comps[i].fp
             /\ t.comps[i].state = IF i \in Started(s, k) THEN "running"
                                                          ELSE s.comps[i].state
             /\ t.comps[i].task = IF i \in Started(s, k) THEN "runner"
                                                         ELSE s.comps[i].task
             /\ t.comps[i].demanders = s.comps[i].demanders
    BY <1>1, <1>2, LaunchedFields
  <1>5. \A i \in Started(s, k) : s.comps[i].state = "ready"
    BY DEF Started
  <1>6. Budget(t)
    <2>1. t.running = {i \in D : t.comps[i].state = "running"}
      BY <1>1, <1>2, <1>3, <1>4 DEF Budget
    <2>2. Cardinality(t.running) <= Concurrency
      BY <1>1, <1>2, StartedWithinBudget DEF Budget
    <2> QED
      BY <1>4, <2>1, <2>2 DEF Budget
  <1>7. Kept(t)
    <2>1. \A i \in D : t.comps[i].state \notin TERMINAL_STATES
                         => s.comps[i].state \notin TERMINAL_STATES
      BY <1>4, <1>5 DEF TERMINAL_STATES
    <2>2. \A r \in Run : s.runs[r].joined \subseteq D
      BY <1>2, RunFields
    <2> QED
      BY <1>1, <1>2, <1>4, <2>1, <2>2 DEF Kept
  <1>8. Stored(t, st)
    <2>1. \A i \in D : /\ t.comps[i].state = "succeeded" => s.comps[i].state = "succeeded"
                       /\ t.comps[i].task = "pointer" => s.comps[i].task = "pointer"
      BY <1>4
    <2> QED
      BY <1>1, <1>2, <1>4, <2>1 DEF Stored
  <1>9. Answers(t)
    BY <1>1, <1>2 DEF Answers
  <1>10. Later(s, t)
    <2>1. \A i \in D : SweepMove(s.comps[i].state, t.comps[i].state)
      BY <1>4, <1>5 DEF SweepMove
    <2> QED
      BY <1>1, <1>4, <2>1 DEF Later
  <1> QED
    BY <1>3, <1>6, <1>7, <1>8, <1>9, <1>10 DEF Good, t

LEMMA LaterTransitive ==
  ASSUME NEW s, NEW t, NEW u, Later(s, t), Later(t, u)
  PROVE  Later(s, u)
  <1>1. \A i \in DOMAIN s.comps : SweepMove(s.comps[i].state, u.comps[i].state)
    BY DEF Later, SweepMove
  <1> QED
    BY <1>1 DEF Later

LEMMA CompleteRunsGood ==
  ASSUME NEW s, NEW st, Good(s, st)
  PROVE  Good(CompleteRuns(s), st) /\ Later(s, CompleteRuns(s))
  BY FinishRunsGood DEF CompleteRuns

LEMMA OrdersAreSequences ==
  ASSUME NEW s, Typed(s), NEW S, S \subseteq DOMAIN s.comps, NEW q \in Orders(S)
  PROVE  q \in Seq(DOMAIN s.comps)
  <1>1. Cardinality(S) \in Nat
    BY HeapFinite, FS_CardinalityType
  <1>2. q \in [1..Cardinality(S) -> DOMAIN s.comps]
    BY DEF Orders
  <1> QED
    BY <1>1, <1>2

(* A dispatch keeps the invariant, moves objects only the way a sweep      *)
(* moves them, and changes no answer.                                      *)
LEMMA DispatchGood ==
  ASSUME NEW s, NEW st, Good(s, st), Dispatch(s)
  PROVE  Good(State', st) /\ Later(s, State')
  <1>1. PICK v \in [Pending(s) -> {"pending", "ready", "skipped", "cancelled"}] :
          \E q \in Orders({i \in Pending(s) : v[i] = "ready"}) :
            \E k \in 0..Len(Resolved(s, v, q).ready) :
              /\ StopsAfter(Resolved(s, v, q), k)
              /\ Become(CompleteRuns(AfterStart(Resolved(s, v, q), k)))
    BY DEF Dispatch
  <1>2. PICK q \in Orders({i \in Pending(s) : v[i] = "ready"}) :
            \E k \in 0..Len(Resolved(s, v, q).ready) :
              /\ StopsAfter(Resolved(s, v, q), k)
              /\ Become(CompleteRuns(AfterStart(Resolved(s, v, q), k)))
    BY <1>1
  <1> DEFINE s1 == Resolved(s, v, q)
  <1>3. PICK k \in 0..Len(s1.ready) :
          StopsAfter(s1, k) /\ Become(CompleteRuns(AfterStart(s1, k)))
    BY <1>2
  <1> DEFINE s2 == AfterStart(s1, k)
             s3 == CompleteRuns(s2)
  <1>4. q \in Seq(DOMAIN s.comps)
    BY OrdersAreSequences DEF Good, Pending
  <1>5. Good(s1, st) /\ Later(s, s1)
    BY <1>4, ResolvedGood
  <1> HIDE DEF s1
  <1>6. Good(s2, st) /\ Later(s1, s2)
    BY <1>3, <1>5, AfterStartGood
  <1> HIDE DEF s2
  <1>7. Good(s3, st) /\ Later(s2, s3)
    BY <1>6, CompleteRunsGood
  <1>8. State' = s3
    BY <1>3 DEF Become, State, s2, CompleteRuns, FinishRuns
  <1> HIDE DEF s3
  <1> QED
    BY <1>5, <1>6, <1>7, <1>8, LaterTransitive

=============================================================================
