--------------------------- MODULE SchedulerOps ---------------------------
(***************************************************************************)
(* What join, wire, cancel and a task do before their dispatch preserves   *)
(* the invariant of SchedulerStages.                                       *)
(***************************************************************************)
EXTENDS SchedulerStages

LEMMA NewComputation ==
  ASSUME NEW D, NEW f \in Fingerprint, NEW x \in {"pending", "succeeded"},
         NEW dem \in SUBSET Run
  PROVE  /\ Computation(f, x, dem) \in CompOn(D)
         /\ Computation(f, x, dem).fp = f
         /\ Computation(f, x, dem).state = x
         /\ Computation(f, x, dem).demanders = dem
         /\ Computation(f, x, dem).task = "none"
  BY DEF Computation, CompOn, ComputationState, TaskState

LEMMA LargerHeap ==
  ASSUME NEW D, NEW E, D \subseteq E
  PROVE  CompOn(D) \subseteq CompOn(E) /\ RunOn(D) \subseteq RunOn(E)
  BY DEF CompOn, RunOn

(* An invariant of the current state, read off the variables.              *)
LEMMA GoodNow ==
  ASSUME Good(State, store)
  PROVE  /\ comps \in Seq(CompOn(DOMAIN comps))
         /\ DOMAIN comps = 1..Len(comps) /\ Len(comps) \in Nat
         /\ records \in [Fingerprint -> {0} \cup DOMAIN comps]
         /\ \A f \in Fingerprint : records[f] # 0 => comps[records[f]].fp = f
         /\ ready \in Seq(DOMAIN comps)
         /\ running \subseteq DOMAIN comps
         /\ runs \in [Run -> RunOn(DOMAIN comps)]
         /\ \A i \in DOMAIN comps : comps[i] \in CompOn(DOMAIN comps)
         /\ \A r \in Run : runs[r] \in RunOn(DOMAIN comps)
  <1>1. /\ comps \in Seq(CompOn(DOMAIN comps))
        /\ records \in [Fingerprint -> {0} \cup DOMAIN comps]
        /\ \A f \in Fingerprint : records[f] # 0 => comps[records[f]].fp = f
        /\ ready \in Seq(DOMAIN comps)
        /\ running \subseteq DOMAIN comps
        /\ runs \in [Run -> RunOn(DOMAIN comps)]
    BY DEF Good, Typed, State
  <1>2. \A i \in DOMAIN comps : comps[i] \in CompOn(DOMAIN comps)
    BY <1>1
  <1>3. DOMAIN comps = 1..Len(comps) /\ Len(comps) \in Nat
    BY <1>1
  <1>4. \A r \in Run : runs[r] \in RunOn(DOMAIN comps)
    BY <1>1
  <1> QED
    BY <1>1, <1>2, <1>3, <1>4

(* A withdrawal keeps the invariant; it cancels only objects that are not  *)
(* terminal and touches no answer.                                         *)
LEMMA WithdrawnGood ==
  ASSUME Good(State, store), NEW r \in Run,
         runs[r].phase # "new", runs[r].result = "none"
  PROVE  /\ Good(Withdrawn(r), store)
         /\ DOMAIN Withdrawn(r).comps = DOMAIN comps
         /\ \A i \in DOMAIN comps :
              \/ Withdrawn(r).comps[i].state = comps[i].state
              \/ /\ comps[i].state \notin TERMINAL_STATES
                 /\ Withdrawn(r).comps[i].state = "cancelled"
         /\ \A p \in Run : /\ Withdrawn(r).runs[p].result = runs[p].result
                           /\ Withdrawn(r).runs[p].phase = runs[p].phase
         /\ Withdrawn(r).runs[r].withdrawn
         /\ \A p \in Run : runs[p].withdrawn => Withdrawn(r).runs[p].withdrawn
  <1> DEFINE t == Withdrawn(r)
             D == DOMAIN comps
             st(i) == IF i \in Undemanded(r) THEN "cancelled" ELSE comps[i].state
  <1>1. /\ t.comps = Dropped(r) /\ t.records = records /\ t.ready = ready
        /\ t.running = running \ Undemanded(r)
        /\ t.runs = [runs EXCEPT ![r].withdrawn = TRUE]
    BY DEF Withdrawn
  <1> HIDE DEF t
  <1>2. \A p \in Run : /\ t.runs[p] \in RunOn(D)
                       /\ t.runs[p].result = runs[p].result
                       /\ t.runs[p].phase = runs[p].phase
                       /\ t.runs[p].joined = runs[p].joined
                       /\ t.runs[p].read = runs[p].read
                       /\ t.runs[p].withdrawn = IF p = r THEN TRUE ELSE runs[p].withdrawn
    <2> TAKE p \in Run
    <2>1. runs[p] \in RunOn(D) /\ runs \in [Run -> RunOn(D)]
      BY GoodNow
    <2>2. CASE p = r
      <3>1. t.runs[p] = [runs[r] EXCEPT !.withdrawn = TRUE]
        BY <1>1, <2>1, <2>2
      <3> QED
        BY <2>1, <2>2, <3>1 DEF RunOn
    <2>3. CASE p # r
      <3>1. t.runs[p] = runs[p]
        BY <1>1, <2>1, <2>3
      <3> QED
        BY <2>1, <2>3, <3>1
    <2> QED
      BY <2>2, <2>3
  <1>3. \A i \in D : st(i) \in ComputationState
    BY GoodNow DEF CompOn, ComputationState
  <1>4. \A i \in D : Dropped(r)[i] =
          IF i \in runs[r].joined
          THEN [comps[i] EXCEPT !.demanders = @ \ {r}, !.state = st(i)]
          ELSE comps[i]
    BY DEF Dropped
  <1>a. Undemanded(r) \subseteq runs[r].joined
    BY DEF Undemanded
  <1>b. \A i \in D \ runs[r].joined : st(i) = comps[i].state
    BY <1>a
  <1> HIDE DEF st
  <1>5. \A i \in D :
          /\ t.comps[i] \in CompOn(D)
          /\ t.comps[i].fp = comps[i].fp
          /\ t.comps[i].task = comps[i].task
          /\ t.comps[i].state = st(i)
          /\ t.comps[i].demanders = IF i \in runs[r].joined
                                    THEN comps[i].demanders \ {r}
                                    ELSE comps[i].demanders
    <2> TAKE i \in D
    <2>1. comps[i] \in CompOn(D) /\ st(i) \in ComputationState
      BY <1>3, GoodNow
    <2>2. CASE i \in runs[r].joined
      <3>1. t.comps[i] = [comps[i] EXCEPT !.demanders = comps[i].demanders \ {r},
                                          !.state = st(i)]
        BY <1>1, <1>4, <2>1, <2>2 DEF CompOn
      <3> QED
        BY <2>1, <2>2, <3>1 DEF CompOn
    <2>3. CASE i \notin runs[r].joined
      BY <1>1, <1>4, <1>b, <2>1, <2>3
    <2> QED
      BY <2>2, <2>3
  <1>6. t.comps \in [D -> CompOn(D)]
    BY <1>1, <1>5 DEF Dropped
  <1>7. t.comps \in Seq(CompOn(D)) /\ DOMAIN t.comps = D
    BY <1>6, GoodNow, FunctionIsSeq
  <1>8. Typed(t)
    <2>1. Typed(State) /\ State.comps = comps /\ State.records = records
      BY DEF Good, State
    <2>2. /\ t.records \in [Fingerprint -> {0} \cup D] /\ t.ready \in Seq(D)
          /\ t.running \subseteq D
      BY <1>1, GoodNow
    <2>3. t.runs \in [Run -> RunOn(D)]
      BY <1>1, <1>2, GoodNow
    <2>4. \A f \in Fingerprint : t.records[f] \in {0, State.records[f]}
      BY <1>1, <2>1
    <2> QED
      BY <1>5, <1>7, <2>1, <2>2, <2>3, <2>4, SameHeapTyped
  <1>9. \A i \in Undemanded(r) : i \in D /\ comps[i].state \notin TERMINAL_STATES
    <2>1. runs[r].joined \subseteq D
      BY GoodNow DEF RunOn
    <2> QED
      BY <2>1 DEF Undemanded
  <1>10. Budget(t)
    <2>1. running = {i \in D : comps[i].state = "running"} /\ Cardinality(running) <= Concurrency
      BY DEF Good, Budget, State
    <2>2. t.running = {i \in D : t.comps[i].state = "running"}
      BY <1>1, <1>5, <1>9, <2>1 DEF st
    <2>3. IsFiniteSet(running) /\ t.running \subseteq running
      <3>1. Typed(State) /\ running \subseteq DOMAIN State.comps
        BY GoodNow DEF Good, State
      <3> QED
        BY <1>1, <3>1, HeapFinite
    <2>4. Cardinality(t.running) <= Cardinality(running) /\ IsFiniteSet(t.running)
      BY <2>3, FS_Subset
    <2>5. Cardinality(t.running) \in Nat /\ Cardinality(running) \in Nat
      BY <2>3, <2>4, FS_CardinalityType
    <2> QED
      BY <1>7, <2>1, <2>2, <2>4, <2>5, ConcurrencyAssumption DEF Budget
  <1>11. Kept(t)
    <2> SUFFICES ASSUME NEW p \in Run, ~t.runs[p].withdrawn,
                        NEW i \in t.runs[p].joined,
                        t.comps[i].state \notin TERMINAL_STATES
                 PROVE  t.records[t.comps[i].fp] = i /\ p \in t.comps[i].demanders
      BY DEF Kept
    <2>1. p # r /\ ~runs[p].withdrawn /\ i \in runs[p].joined /\ i \in D
      BY <1>2, GoodNow DEF RunOn
    <2>2. comps[i].state \notin TERMINAL_STATES
      BY <1>5, <2>1 DEF st, TERMINAL_STATES
    <2>3. records[comps[i].fp] = i /\ p \in comps[i].demanders
      BY <2>1, <2>2 DEF Good, Kept, State
    <2> QED
      BY <1>1, <1>5, <2>1, <2>3
  <1>12. Stored(t, store)
    <2>1. Stored(State, store)
      BY DEF Good
    <2>2. \A i \in D : t.comps[i].state = "succeeded" => comps[i].state = "succeeded"
      BY <1>5 DEF st
    <2> QED
      BY <1>2, <1>5, <1>7, <2>1, <2>2 DEF Stored, State
  <1>13. Answers(t)
    <2>1. \A p \in Run :
            /\ runs[p].withdrawn => runs[p].result \in {"none", "cancelled"}
            /\ runs[p].result = "cancelled" => runs[p].withdrawn
            /\ runs[p].phase = "new" => /\ ~runs[p].withdrawn
                                        /\ runs[p].result = "none"
                                        /\ runs[p].read = <<>>
      BY DEF Good, Answers, State
    <2>2. \A p \in Run : /\ t.runs[p].withdrawn => t.runs[p].result \in {"none", "cancelled"}
                         /\ t.runs[p].result = "cancelled" => t.runs[p].withdrawn
      BY <1>2, <2>1
    <2>3. \A p \in Run : t.runs[p].phase = "new" => /\ ~t.runs[p].withdrawn
                                                    /\ t.runs[p].result = "none"
                                                    /\ t.runs[p].read = <<>>
      <3> TAKE p \in Run
      <3> HAVE t.runs[p].phase = "new"
      <3>1. p # r /\ runs[p].phase = "new"
        BY <1>2
      <3> QED
        BY <1>2, <2>1, <3>1
    <2> QED
      BY <2>2, <2>3 DEF Answers
  <1>14. \A i \in D : \/ t.comps[i].state = comps[i].state
                      \/ comps[i].state \notin TERMINAL_STATES /\ t.comps[i].state = "cancelled"
    BY <1>5, <1>9 DEF st
  <1> QED
    BY <1>2, <1>7, <1>8, <1>10, <1>11, <1>12, <1>13, <1>14 DEF Good, t

(* What a join does to the heap: at most one object is added, it is the    *)
(* one joined, and the others keep everything but their demanders.         *)
LEMMA JoinedHeap ==
  ASSUME Good(State, store), NEW r \in Run, NEW f \in Fingerprint, NEW stored \in BOOLEAN
  PROVE  LET c == JoinedComps(r, f, stored)
             i == JoinedAt(f, stored)
         IN /\ c \in Seq(CompOn(DOMAIN c))
            /\ DOMAIN comps \subseteq DOMAIN c
            /\ DOMAIN c \subseteq DOMAIN comps \cup {i}
            /\ i \in DOMAIN c
            /\ i # 0
            /\ c[i].fp = f
            /\ \A j \in DOMAIN comps : /\ c[j].fp = comps[j].fp
                                       /\ c[j].state = comps[j].state
                                       /\ c[j].task = comps[j].task
                                       /\ comps[j].demanders \subseteq c[j].demanders
            /\ i \notin DOMAIN comps => /\ c[i].task = "none"
                                        /\ c[i].state = IF stored THEN "succeeded"
                                                                  ELSE "pending"
            /\ ~stored => r \in c[i].demanders
            /\ stored => i \notin DOMAIN comps
            /\ ~stored => \A j \in DOMAIN comps :
                 comps[j].state \notin TERMINAL_STATES /\ records[f] = j => i = j
  <1> DEFINE c == JoinedComps(r, f, stored)
             i == JoinedAt(f, stored)
             D == DOMAIN comps
             E == DOMAIN c
  <1>0. /\ comps \in Seq(CompOn(D)) /\ D = 1..Len(comps) /\ Len(comps) \in Nat
        /\ \A j \in D : comps[j] \in CompOn(D)
        /\ records[f] \in {0} \cup D
        /\ records[f] # 0 => comps[records[f]].fp = f
    BY GoodNow
  <1>1. CASE stored \/ StartsAfresh(f)
    <2> DEFINE x == IF stored THEN Computation(f, "succeeded", {})
                              ELSE Computation(f, "pending", {r})
    <2>1. c = Append(comps, x) /\ i = Len(comps) + 1
      BY <1>1 DEF JoinedComps, JoinedAt
    <2>2. /\ x \in CompOn(D) /\ x.fp = f /\ x.task = "none"
          /\ x.state = IF stored THEN "succeeded" ELSE "pending"
          /\ ~stored => r \in x.demanders
      BY NewComputation
    <2> HIDE DEF x, c, i
    <2>3. /\ c \in Seq(CompOn(D)) /\ E = 1..(Len(comps) + 1)
          /\ c[i] = x
          /\ \A j \in D : c[j] = comps[j]
      BY <1>0, <2>1, <2>2
    <2>4. D \subseteq E /\ E \subseteq D \cup {i} /\ i \in E /\ i # 0 /\ i \notin D
      BY <1>0, <2>1, <2>3
    <2>5. c \in Seq(CompOn(E))
      <3>1. \A j \in E : c[j] \in CompOn(E)
        BY <1>0, <2>2, <2>3, <2>4, LargerHeap
      <3> QED
        BY <2>3, <3>1
    <2>6. ~stored => \A j \in D : comps[j].state \notin TERMINAL_STATES /\ records[f] = j
                                    => i = j
      BY <1>0, <1>1 DEF StartsAfresh
    <2>7. \A j \in D : /\ c[j].fp = comps[j].fp /\ c[j].state = comps[j].state
                       /\ c[j].task = comps[j].task
                       /\ comps[j].demanders \subseteq c[j].demanders
      BY <2>3
    <2>8. /\ c[i].fp = f /\ c[i].task = "none"
          /\ c[i].state = IF stored THEN "succeeded" ELSE "pending"
          /\ ~stored => r \in c[i].demanders
      BY <2>2, <2>3
    <2> QED
      BY <2>4, <2>5, <2>6, <2>7, <2>8 DEF c, i
  <1>2. CASE ~(stored \/ StartsAfresh(f))
    <2>1. /\ c = [comps EXCEPT ![records[f]].demanders = @ \cup {r}]
          /\ i = records[f] /\ ~stored
      BY <1>2 DEF JoinedComps, JoinedAt
    <2>2. i \in D /\ i # 0 /\ comps[i].fp = f
      BY <1>0, <1>2, <2>1 DEF StartsAfresh
    <2> HIDE DEF c, i
    <2>3. E = D /\ \A j \in D \ {i} : c[j] = comps[j]
      BY <1>0, <2>1, <2>2
    <2>4. /\ c[i] \in CompOn(D) /\ c[i].fp = comps[i].fp /\ c[i].state = comps[i].state
          /\ c[i].task = comps[i].task /\ c[i].demanders = comps[i].demanders \cup {r}
      <3>1. c[i] = [comps[i] EXCEPT !.demanders = comps[i].demanders \cup {r}]
        BY <1>0, <2>1, <2>2
      <3>2. comps[i] \in CompOn(D)
        BY <1>0, <2>2
      <3> QED
        BY <3>1, <3>2 DEF CompOn
    <2>5. c \in Seq(CompOn(D))
      <3>1. c \in [D -> CompOn(D)]
        <4>1. \A j \in D : c[j] \in CompOn(D)
          BY <1>0, <2>3, <2>4
        <4> QED
          BY <2>1, <2>3, <4>1
      <3> QED
        BY <1>0, <3>1, FunctionIsSeq
    <2>6. \A j \in D : /\ c[j].fp = comps[j].fp /\ c[j].state = comps[j].state
                       /\ c[j].task = comps[j].task
                       /\ comps[j].demanders \subseteq c[j].demanders
      BY <2>3, <2>4
    <2> QED
      BY <2>1, <2>2, <2>3, <2>4, <2>5, <2>6 DEF c, i
  <1> QED
    BY <1>1, <1>2

(* What the part of a step before its dispatch may do: objects keep their  *)
(* state or end in the way the lifecycle table allows, and no answer and   *)
(* no withdrawal is taken back.                                            *)
Staged(t) ==
  /\ DOMAIN comps \subseteq DOMAIN t.comps
  /\ \A i \in DOMAIN comps :
       \/ t.comps[i].state = comps[i].state
       \/ /\ <<comps[i].state, t.comps[i].state>> \in TRANSITIONS
          /\ t.comps[i].state \in TERMINAL_STATES
  /\ \A r \in Run : runs[r].result # "none" => t.runs[r].result = runs[r].result
  /\ \A r \in Run : runs[r].withdrawn => t.runs[r].withdrawn
  /\ \A r \in Run : runs[r].phase = "new" <=> t.runs[r].phase = "new"

LEMMA JoinedGood ==
  ASSUME Good(State, store), NEW r \in Run, runs[r].read # <<>>
  PROVE  /\ Good(Joined(r), store) /\ Staged(Joined(r))
         /\ Joined(r).runs[r].phase # "new"
  <1> DEFINE f == runs[r].read[1]
             stored == runs[r].read[2]
             i == JoinedAt(f, stored)
             t == Joined(r)
             D == DOMAIN comps
             E == DOMAIN t.comps
  <1>0. /\ runs[r] \in RunOn(D) /\ records \in [Fingerprint -> {0} \cup D]
        /\ runs \in [Run -> RunOn(D)] /\ ready \in Seq(D) /\ running \subseteq D
        /\ \A g \in Fingerprint : records[g] # 0 => comps[records[g]].fp = g
        /\ \A j \in D : comps[j] \in CompOn(D)
    BY GoodNow
  <1>1. f \in Fingerprint /\ stored \in BOOLEAN
    BY <1>0 DEF RunOn
  <1>2. /\ t.comps = JoinedComps(r, f, stored)
        /\ t.records = IF stored THEN records ELSE [records EXCEPT ![f] = i]
        /\ t.ready = ready /\ t.running = running
        /\ t.runs = [runs EXCEPT ![r].joined = @ \cup {i}, ![r].local = @ \cup {i},
                                 ![r].todo = @ \ {f}, ![r].read = <<>>]
    BY DEF Joined
  <1> HIDE DEF t, f, stored, i
  <1>3. /\ t.comps \in Seq(CompOn(E)) /\ D \subseteq E /\ E \subseteq D \cup {i}
        /\ i \in E /\ i # 0 /\ t.comps[i].fp = f
    BY <1>1, <1>2, JoinedHeap DEF i
  <1>4. \A j \in D : /\ t.comps[j].fp = comps[j].fp
                     /\ t.comps[j].state = comps[j].state
                     /\ t.comps[j].task = comps[j].task
                     /\ comps[j].demanders \subseteq t.comps[j].demanders
    BY <1>1, <1>2, JoinedHeap
  <1>5. /\ i \notin D => /\ t.comps[i].task = "none"
                         /\ t.comps[i].state = IF stored THEN "succeeded" ELSE "pending"
        /\ ~stored => r \in t.comps[i].demanders
        /\ stored => i \notin D
        /\ ~stored => \A j \in D : comps[j].state \notin TERMINAL_STATES /\ records[f] = j
                                     => i = j
    BY <1>1, <1>2, JoinedHeap DEF i
  <1>6. /\ t.runs \in [Run -> RunOn(E)]
        /\ \A p \in Run : /\ t.runs[p].joined = IF p = r THEN runs[p].joined \cup {i}
                                                         ELSE runs[p].joined
                          /\ t.runs[p].read = IF p = r THEN <<>> ELSE runs[p].read
                          /\ t.runs[p].withdrawn = runs[p].withdrawn
                          /\ t.runs[p].result = runs[p].result
                          /\ t.runs[p].phase = runs[p].phase
    <2>1. RunOn(D) \subseteq RunOn(E)
      BY <1>3, LargerHeap
    <2>2. t.runs[r] = [runs[r] EXCEPT !.joined = runs[r].joined \cup {i},
                                      !.local = runs[r].local \cup {i},
                                      !.todo = runs[r].todo \ {f}, !.read = <<>>]
      BY <1>0, <1>2
    <2>3. /\ t.runs[r] \in RunOn(E)
          /\ t.runs[r].joined = runs[r].joined \cup {i}
          /\ t.runs[r].read = <<>>
          /\ t.runs[r].withdrawn = runs[r].withdrawn
          /\ t.runs[r].result = runs[r].result
          /\ t.runs[r].phase = runs[r].phase
      <3>1. runs[r] \in RunOn(E)
        BY <1>0, <2>1
      <3>2. /\ runs[r].joined \cup {i} \in SUBSET E /\ runs[r].local \cup {i} \in SUBSET E
            /\ runs[r].todo \ {f} \in SUBSET Fingerprint
        BY <1>3, <3>1 DEF RunOn
      <3> DEFINE x == runs[r]
                 jo == runs[r].joined \cup {i}
                 lo == runs[r].local \cup {i}
                 to == runs[r].todo \ {f}
      <3>3. x \in RunOn(E) /\ jo \in SUBSET E /\ lo \in SUBSET E /\ to \in SUBSET Fingerprint
        BY <3>1, <3>2
      <3>4. t.runs[r] = [x EXCEPT !.joined = jo, !.local = lo, !.todo = to, !.read = <<>>]
        BY <2>2
      <3> HIDE DEF x, jo, lo, to, E
      <3>5. /\ t.runs[r] \in RunOn(E) /\ t.runs[r].joined = jo /\ t.runs[r].read = <<>>
            /\ t.runs[r].withdrawn = x.withdrawn /\ t.runs[r].result = x.result
            /\ t.runs[r].phase = x.phase
        BY <3>3, <3>4 DEF RunOn
      <3> QED
        BY <3>5 DEF x, jo
    <2>4. \A p \in Run \ {r} : t.runs[p] = runs[p] /\ runs[p] \in RunOn(E)
      BY <1>0, <1>2, <2>1
    <2>6. t.runs = [p \in Run |-> t.runs[p]]
      BY <1>0, <1>2
    <2>7. \A p \in Run : t.runs[p] \in RunOn(E)
      BY <2>3, <2>4
    <2> HIDE DEF E
    <2>8. t.runs \in [Run -> RunOn(E)]
      BY <2>6, <2>7
    <2> QED
      BY <2>3, <2>4, <2>8
  <1>7. /\ t.records \in [Fingerprint -> {0} \cup E]
        /\ \A g \in Fingerprint : t.records[g] = IF stored \/ g # f THEN records[g] ELSE i
    BY <1>0, <1>1, <1>2, <1>3
  <1>8. Typed(t)
    <2>1. \A g \in Fingerprint : t.records[g] # 0 => t.comps[t.records[g]].fp = g
      <3> TAKE g \in Fingerprint
      <3> HAVE t.records[g] # 0
      <3>1. CASE stored \/ g # f
        BY <1>0, <1>4, <1>7, <3>1
      <3>2. CASE ~stored /\ g = f
        BY <1>3, <1>7, <3>2
      <3> QED
        BY <3>1, <3>2
    <2>2. t.ready \in Seq(E) /\ t.running \subseteq E
      BY <1>0, <1>2, <1>3
    <2> QED
      BY <1>3, <1>6, <1>7, <2>1, <2>2 DEF Typed
  <1>9. Budget(t)
    <2>1. running = {j \in D : comps[j].state = "running"} /\ Cardinality(running) <= Concurrency
      BY DEF Good, Budget, State
    <2>2. \A j \in E : t.comps[j].state = "running" <=> j \in running
      BY <1>3, <1>4, <1>5, <2>1
    <2>3. t.running = {j \in E : t.comps[j].state = "running"}
      BY <1>2, <1>3, <2>1, <2>2
    <2> QED
      BY <1>2, <2>1, <2>3 DEF Budget
  <1>10. Kept(t)
    <2> SUFFICES ASSUME NEW p \in Run, ~t.runs[p].withdrawn,
                        NEW j \in t.runs[p].joined,
                        t.comps[j].state \notin TERMINAL_STATES
                 PROVE  t.records[t.comps[j].fp] = j /\ p \in t.comps[j].demanders
      BY DEF Kept
    <2>1. CASE p = r /\ j = i
      <3>1. ~stored
        BY <1>5, <2>1 DEF TERMINAL_STATES
      <3> QED
        BY <1>1, <1>3, <1>5, <1>7, <2>1, <3>1
    <2>2. CASE ~(p = r /\ j = i)
      <3>1. j \in runs[p].joined /\ ~runs[p].withdrawn
        BY <1>6, <2>2
      <3>2. j \in D
        BY <1>0, <3>1 DEF RunOn
      <3>3. comps[j].state \notin TERMINAL_STATES
        BY <1>4, <3>2
      <3>4. records[comps[j].fp] = j /\ p \in comps[j].demanders
        BY <3>1, <3>3 DEF Good, Kept, State
      <3>5. comps[j].fp \in Fingerprint
        BY <1>0, <3>2 DEF CompOn
      <3>6. t.records[comps[j].fp] = j
        BY <1>5, <1>7, <3>2, <3>3, <3>4, <3>5
      <3> QED
        BY <1>4, <3>2, <3>4, <3>6
    <2> QED
      BY <2>1, <2>2
  <1>11. Stored(t, store)
    <2>1. Stored(State, store)
      BY DEF Good
    <2>2. stored => f \in store
      BY <2>1 DEF Stored, State, stored, f
    <2>3. \A j \in E : t.comps[j].state = "succeeded" \/ t.comps[j].task = "pointer"
                         => t.comps[j].fp \in store
      <3> TAKE j \in E
      <3>1. CASE j \in D
        BY <1>4, <2>1, <3>1 DEF Stored, State
      <3>2. CASE j \notin D
        BY <1>3, <1>5, <2>2, <3>2
      <3> QED
        BY <3>1, <3>2
    <2>4. \A p \in Run : t.runs[p].read # <<>> /\ t.runs[p].read[2] => t.runs[p].read[1] \in store
      BY <1>6, <2>1 DEF Stored, State
    <2> QED
      BY <2>3, <2>4 DEF Stored
  <1>12. \A p \in Run :
           /\ runs[p].withdrawn => runs[p].result \in {"none", "cancelled"}
           /\ runs[p].result = "cancelled" => runs[p].withdrawn
           /\ runs[p].phase = "new" => /\ ~runs[p].withdrawn
                                       /\ runs[p].result = "none"
                                       /\ runs[p].read = <<>>
    BY DEF Good, Answers, State
  <1>13. Answers(t)
    BY <1>6, <1>12 DEF Answers
  <1>14. Staged(t)
    BY <1>3, <1>4, <1>6 DEF Staged
  <1>15. t.runs[r].phase # "new"
    BY <1>6, <1>12
  <1> QED
    BY <1>8, <1>9, <1>10, <1>11, <1>13, <1>14, <1>15 DEF Good, t

LEMMA WiredGood ==
  ASSUME NEW s, NEW st, Good(s, st), NEW r \in Run, s.runs[r].phase # "new"
  PROVE  Good(Wired(s, r), st) /\ Later(s, Wired(s, r))
  <1> DEFINE t == Wired(s, r)
             D == DOMAIN s.comps
             mine == s.runs[r].local
             up(i) == s.comps[i].deps
                        \cup {d \in mine : s.comps[d].fp \in Upstream[s.comps[i].fp]}
  <1>1. /\ t.comps = Linked(s, mine) /\ t.records = s.records /\ t.ready = s.ready
        /\ t.running = s.running
        /\ t.runs = [s.runs EXCEPT ![r].phase = "submitted", ![r].local = {}]
    BY DEF Wired
  <1> HIDE DEF t
  <1>2. Typed(s) /\ Budget(s) /\ Kept(s) /\ Stored(s, st) /\ Answers(s)
    BY DEF Good
  <1>3. mine \subseteq D
    BY <1>2, RunFields
  <1>4. /\ DOMAIN t.comps = D
        /\ \A i \in D : /\ t.comps[i] \in CompOn(D)
                        /\ t.comps[i].fp = s.comps[i].fp
                        /\ t.comps[i].state = s.comps[i].state
                        /\ t.comps[i].task = s.comps[i].task
                        /\ t.comps[i].demanders = s.comps[i].demanders
    <2>1. DOMAIN t.comps = D
      BY <1>1 DEF Linked
    <2>2. ASSUME NEW i \in D
          PROVE  /\ t.comps[i] \in CompOn(D)
                 /\ t.comps[i].fp = s.comps[i].fp
                 /\ t.comps[i].state = s.comps[i].state
                 /\ t.comps[i].task = s.comps[i].task
                 /\ t.comps[i].demanders = s.comps[i].demanders
      <3>1. s.comps[i] \in CompOn(D)
        BY <1>2, CompFields
      <3>2. CASE i \in mine
        <4>1. t.comps[i] = [s.comps[i] EXCEPT !.deps = up(i)]
          BY <1>1, <3>1, <3>2 DEF Linked, CompOn
        <4>2. up(i) \in SUBSET D
          BY <1>3, <3>1 DEF CompOn
        <4> HIDE DEF up
        <4> QED
          BY <3>1, <4>1, <4>2 DEF CompOn
      <3>3. CASE i \notin mine
        BY <1>1, <3>1, <3>3 DEF Linked
      <3> QED
        BY <3>2, <3>3
    <2> QED
      BY <2>1, <2>2
  <1>5. \A p \in Run : /\ t.runs[p] \in RunOn(D)
                       /\ t.runs[p].joined = s.runs[p].joined
                       /\ t.runs[p].read = s.runs[p].read
                       /\ t.runs[p].withdrawn = s.runs[p].withdrawn
                       /\ t.runs[p].result = s.runs[p].result
                       /\ t.runs[p].phase = IF p = r THEN "submitted" ELSE s.runs[p].phase
    <2> TAKE p \in Run
    <2>1. s.runs[p] \in RunOn(D) /\ s.runs \in [Run -> RunOn(D)]
      BY <1>2, RunFields DEF Typed
    <2>2. CASE p = r
      <3>1. t.runs[p] = [s.runs[p] EXCEPT !.phase = "submitted", !.local = {}]
        BY <1>1, <2>1, <2>2
      <3> QED
        BY <2>1, <2>2, <3>1 DEF RunOn
    <2>3. CASE p # r
      <3>1. t.runs[p] = s.runs[p]
        BY <1>1, <2>1, <2>3
      <3> QED
        BY <2>1, <2>3, <3>1
    <2> QED
      BY <2>2, <2>3
  <1>6. Typed(t)
    <2>1. t.comps \in [D -> CompOn(D)]
      BY <1>1, <1>4 DEF Linked
    <2>2. t.comps \in Seq(CompOn(D))
      BY <1>2, <2>1, FunctionIsSeq DEF Typed
    <2>3. t.runs \in [Run -> RunOn(D)]
      <3>1. t.runs = [p \in Run |-> t.runs[p]]
        BY <1>1, <1>2 DEF Typed
      <3> QED
        BY <1>5, <3>1
    <2>4. /\ t.records \in [Fingerprint -> {0} \cup D] /\ t.ready \in Seq(D)
          /\ t.running \subseteq D
      BY <1>1, <1>2 DEF Typed
    <2>5. \A f \in Fingerprint : t.records[f] \in {0, s.records[f]}
      BY <1>1
    <2> QED
      BY <1>2, <1>4, <2>2, <2>3, <2>4, <2>5, SameHeapTyped
  <1>7. Budget(t)
    BY <1>1, <1>2, <1>4 DEF Budget
  <1>8. Kept(t)
    <2> SUFFICES ASSUME NEW p \in Run, ~t.runs[p].withdrawn,
                        NEW i \in t.runs[p].joined,
                        t.comps[i].state \notin TERMINAL_STATES
                 PROVE  t.records[t.comps[i].fp] = i /\ p \in t.comps[i].demanders
      BY DEF Kept
    <2>1. i \in D /\ i \in s.runs[p].joined /\ ~s.runs[p].withdrawn
      BY <1>2, <1>5, RunFields
    <2>2. s.records[s.comps[i].fp] = i /\ p \in s.comps[i].demanders
      BY <1>2, <1>4, <2>1 DEF Kept
    <2> QED
      BY <1>1, <1>4, <2>1, <2>2
  <1>9. Stored(t, st)
    BY <1>2, <1>4, <1>5 DEF Stored
  <1>10. Answers(t)
    BY <1>2, <1>5 DEF Answers
  <1>11. Later(s, t)
    BY <1>4, <1>5 DEF Later, SweepMove
  <1> QED
    BY <1>6, <1>7, <1>8, <1>9, <1>10, <1>11 DEF Good, t

(* A step of the task of object i: the object keeps its state or, when it  *)
(* is running, reaches an outcome.                                         *)
LEMMA TouchedGood ==
  ASSUME Good(State, store), NEW i \in DOMAIN comps, NEW t, NEW st, store \subseteq st,
         t.records = records, t.ready = ready, t.runs = runs,
         DOMAIN t.comps = DOMAIN comps,
         t.comps \in Seq(CompOn(DOMAIN comps)),
         \A j \in DOMAIN comps \ {i} : t.comps[j] = comps[j],
         t.comps[i].fp = comps[i].fp, t.comps[i].demanders = comps[i].demanders,
         t.comps[i].state = "succeeded" \/ t.comps[i].task = "pointer" => comps[i].fp \in st,
         \/ t.comps[i].state = comps[i].state
         \/ comps[i].state = "running" /\ t.comps[i].state \in {"succeeded", "failed"},
         t.running = {j \in running : t.comps[j].state = "running"}
  PROVE  Good(t, st) /\ Staged(t)
  <1> DEFINE D == DOMAIN comps
  <1>1. \A j \in D : t.comps[j].fp = comps[j].fp /\ t.comps[j].demanders = comps[j].demanders
    OBVIOUS
  <1>2. Typed(t)
    <2>1. Typed(State) /\ State.comps = comps /\ State.records = records
      BY DEF Good, State
    <2>2. /\ t.records \in [Fingerprint -> {0} \cup D] /\ t.ready \in Seq(D)
          /\ t.running \subseteq D /\ t.runs \in [Run -> RunOn(D)]
      BY GoodNow
    <2>3. \A f \in Fingerprint : t.records[f] \in {0, State.records[f]}
      BY <2>1
    <2> QED
      BY <1>1, <2>1, <2>2, <2>3, SameHeapTyped
  <1>3. Budget(t)
    <2>1. running = {j \in D : comps[j].state = "running"} /\ Cardinality(running) <= Concurrency
      BY DEF Good, Budget, State
    <2>2. \A j \in D : t.comps[j].state = "running" => comps[j].state = "running"
      OBVIOUS
    <2>3. t.running = {j \in D : t.comps[j].state = "running"}
      BY <2>1, <2>2
    <2>4. IsFiniteSet(running) /\ t.running \subseteq running
      <3>1. Typed(State) /\ running \subseteq DOMAIN State.comps
        BY GoodNow DEF Good, State
      <3> QED
        BY <3>1, HeapFinite
    <2>5. Cardinality(t.running) <= Cardinality(running) /\ IsFiniteSet(t.running)
      BY <2>4, FS_Subset
    <2>6. Cardinality(t.running) \in Nat /\ Cardinality(running) \in Nat
      BY <2>4, <2>5, FS_CardinalityType
    <2> QED
      BY <2>1, <2>3, <2>5, <2>6, ConcurrencyAssumption DEF Budget
  <1>4. Kept(t)
    <2>1. \A j \in D : t.comps[j].state \notin TERMINAL_STATES
                         => comps[j].state \notin TERMINAL_STATES
      BY DEF TERMINAL_STATES
    <2>2. \A p \in Run : runs[p].joined \subseteq D
      BY GoodNow DEF RunOn
    <2>3. Kept(State)
      BY DEF Good
    <2> QED
      BY <1>1, <2>1, <2>2, <2>3 DEF Kept, State
  <1>5. Stored(t, st)
    <2>1. Stored(State, store)
      BY DEF Good
    <2>2. \A j \in D : t.comps[j].state = "succeeded" \/ t.comps[j].task = "pointer"
                         => t.comps[j].fp \in st
      BY <2>1 DEF Stored, State
    <2> QED
      BY <2>1, <2>2 DEF Stored, State
  <1>6. Answers(t)
    BY DEF Good, Answers, State
  <1>7. Staged(t)
    BY DEF Staged, TRANSITIONS, TERMINAL_STATES
  <1> QED
    BY <1>2, <1>3, <1>4, <1>5, <1>6, <1>7 DEF Good

=============================================================================
