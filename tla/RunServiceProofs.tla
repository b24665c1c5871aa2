-------------------------- MODULE RunServiceProofs --------------------------
(***************************************************************************)
(* The safety invariants of RunService, for any set of Runs, any number of *)
(* cancel requests and any number of restarts.                             *)
(***************************************************************************)
EXTENDS RunService, TLAPS

AtRest == {"none", "done", "raised"}

\* A cancel under way is a request for a Run that has a row.
Requests ==
  \A c \in Caller : calls[c] # Idle =>
    calls[c].run \in asked /\ rows[calls[c].run] # "none"

\* A watched Run's start is over, and close withdraws it only once its
\* watcher no longer watches.
Watched ==
  /\ \A r \in held \cup left : starts[r] = "ended"
  /\ \A r \in Run : watch[r] # "none" => starts[r] = "ended"
  /\ server = "withdrawing" => \A r \in left : watch[r] \in AtRest

\* Nobody is left to write the finish of a Run withdrawn without a request.
Withdrawn ==
  \A r \in Run : demand[r].withdrawn =>
    r \in asked \/ (starts[r] = "ended" /\ watch[r] \in AtRest)

\* The finish has been written wherever a coroutine says it has.
Written ==
  \A r \in Run :
    /\ starts[r] = "new" <=> rows[r] = "none"
    /\ watch[r] = "saving" => demand[r].status \in Outcome
    /\ starts[r] = "leaving" \/ watch[r] = "leaving" => rows[r] \in FINISHED_RUN_STATUSES
    /\ watch[r] = "done" /\ ~Stopping => rows[r] \in FINISHED_RUN_STATUSES

Saved ==
  \A c \in Caller : calls[c].pc = "leaving" => rows[calls[c].run] \in FINISHED_RUN_STATUSES

IInv ==
  /\ TypeOK /\ Requests /\ Watched /\ Withdrawn /\ Written /\ Saved
  /\ CancelledOnRequest /\ RunningIsOwned /\ CancelReturnsFinish

----------------------------------------------------------------------------
(* What a member of the two record types looks like. *)

(* A demand says cancelled only when it is withdrawn, and an active one is  *)
(* rebuilt from its flag.                                                   *)
LEMMA DemandFacts ==
  /\ Unknown \in DemandState /\ Unknown.status = "unknown" /\ Unknown.withdrawn = FALSE
  /\ \A w \in BOOLEAN : /\ Active(w) \in DemandState
                        /\ Active(w).status = "active"
                        /\ Active(w).withdrawn = w
  /\ \A o \in Outcome : /\ Answered(o) \in DemandState
                        /\ Answered(o).status = o
                        /\ Answered(o).withdrawn = (o = "cancelled")
  /\ \A d \in DemandState : d.status = "cancelled" => d.withdrawn
<1> USE DEF DemandState
<1>1. Unknown \in DemandState /\ Unknown.status = "unknown" /\ Unknown.withdrawn = FALSE
  BY DEF Unknown
<1>2. ASSUME NEW w \in BOOLEAN
      PROVE  /\ Active(w) \in DemandState
             /\ Active(w).status = "active"
             /\ Active(w).withdrawn = w
  <2>1. Active(w) \in DemandState
    BY Zenon
  <2>2. Active(w).status = "active" /\ Active(w).withdrawn = w
    BY DEF Active
  <2> QED BY <2>1, <2>2
<1>3. ASSUME NEW o \in Outcome
      PROVE  /\ Answered(o) \in DemandState
             /\ Answered(o).status = o
             /\ Answered(o).withdrawn = (o = "cancelled")
  <2>1. Answered(o) \in DemandState
    BY Zenon
  <2>2. Answered(o).status = o /\ Answered(o).withdrawn = (o = "cancelled")
    BY DEF Answered
  <2> QED BY <2>1, <2>2
<1>4. ASSUME NEW d \in DemandState, d.status = "cancelled"
      PROVE  d.withdrawn
  <2>1. CASE d = Unknown
    BY <1>4, <2>1 DEF Unknown
  <2>2. CASE \E w \in BOOLEAN : d = Active(w)
    BY <1>4, <2>2 DEF Active
  <2>3. CASE \E o \in Outcome : d = Answered(o)
    BY <1>3, <1>4, <2>3
  <2> QED BY <2>1, <2>2, <2>3, Zenon
<1> QED BY <1>1, <1>2, <1>3, <1>4, Zenon

(* A cancel call is idle or names a Run.                                    *)
LEMMA CallFacts ==
  /\ Idle \in CallState /\ Idle.pc = "idle"
  /\ \A k \in CallState : k # Idle => k.run \in Run /\ k.pc # "idle"
BY DEF CallState, Idle

Position == {"read", "withdrawing", "awaiting", "saving", "leaving", "returned", "raised"}

(* Moving a call changes its position and keeps its Run.                    *)
LEMMA CallMoves ==
  ASSUME NEW k \in CallState, k # Idle, NEW p \in Position
  PROVE  /\ [k EXCEPT !.pc = p] \in CallState
         /\ [k EXCEPT !.pc = p].pc = p
         /\ [k EXCEPT !.pc = p].run = k.run
         /\ [k EXCEPT !.pc = p] # Idle
BY DEF CallState, Idle, Position

(* The same of a step of a cancel coroutine.                                *)
LEMMA CallGone ==
  ASSUME calls \in [Caller -> CallState], NEW c \in Caller,
         NEW from \in Position, NEW to \in Position, CallGoes(c, from, to)
  PROVE  /\ calls' \in [Caller -> CallState]
         /\ calls[c] # Idle /\ calls'[c] # Idle
         /\ calls'[c].run = calls[c].run
         /\ calls'[c].pc = to
         /\ \A d \in Caller : d # c => calls'[d] = calls[d]
<1>1. calls[c] \in CallState /\ calls[c] # Idle
  BY DEF CallGoes, Position, Idle
<1> DEFINE k == [calls[c] EXCEPT !.pc = to]
<1>2. k \in CallState /\ k # Idle /\ k.run = calls[c].run /\ k.pc = to
  BY <1>1, CallMoves
<1>3. calls' = [calls EXCEPT ![c] = k]
  BY DEF CallGoes
<1> HIDE DEF k
<1> QED BY <1>1, <1>2, <1>3

(* scheduler.cancel leaves every status, and withdraws no other Run.        *)
LEMMA WithdrawFacts ==
  ASSUME demand \in [Run -> DemandState], NEW r \in Run, Withdraw(r)
  PROVE  /\ demand' \in [Run -> DemandState]
         /\ \A q \in Run : /\ demand'[q].status = demand[q].status
                           /\ demand'[q].withdrawn => q = r \/ demand[q].withdrawn
<1>1. /\ Active(TRUE) \in DemandState /\ Active(TRUE).status = "active"
  BY DemandFacts
<1> QED BY <1>1 DEF Withdraw

(* A submitted Run is not withdrawn.                                        *)
LEMMA SubmitFacts ==
  ASSUME demand \in [Run -> DemandState], NEW r \in Run,
         demand' = [demand EXCEPT ![r] = Active(FALSE)]
  PROVE  \A q \in Run : demand'[q].withdrawn => q # r
<1> DEFINE a == Active(FALSE)
<1>1. ~a.withdrawn
  BY DEF Active
<1> HIDE DEF a
<1>2. demand'[r] = a
  BY DEF a
<1> QED BY <1>1, <1>2, Zenon

----------------------------------------------------------------------------
(* Each coroutine preserves the invariant. *)

(* start: only a Run whose start is not over gets a watcher.              *)
LEMMA StartStep ==
  ASSUME NEW r \in Run, IInv, Start(r)
  PROVE  IInv'
<1> USE DemandFacts, CallFacts, MaxBootsAssumption
    DEF IInv, TypeOK, Requests, Watched, Withdrawn, Written, Saved,
        CancelledOnRequest, RunningIsOwned, CancelReturnsFinish,
        Outcome, FINISHED_RUN_STATUSES, LiveWatch, AtRest, Stopping
<1>1. CASE StartRecords(r)
  <2> USE <1>1 DEF StartRecords, StartGoes
  <2>1. TypeOK'
    OBVIOUS
  <2>2. (Requests /\ Watched /\ Withdrawn /\ Written /\ Saved)'
    OBVIOUS
  <2>3. (CancelledOnRequest /\ RunningIsOwned /\ CancelReturnsFinish)'
    OBVIOUS
  <2> QED BY <2>1, <2>2, <2>3
<1>2. CASE StartFinishes(r)
  <2> USE <1>2 DEF StartFinishes, StartGoes
  <2>1. TypeOK'
    OBVIOUS
  <2>2. (Requests /\ Watched /\ Withdrawn /\ Written /\ Saved)'
    OBVIOUS
  <2>3. (CancelledOnRequest /\ RunningIsOwned /\ CancelReturnsFinish)'
    OBVIOUS
  <2> QED BY <2>1, <2>2, <2>3
<1>3. CASE StartLeaves(r)
  <2> USE <1>3 DEF StartLeaves, StartGoes
  <2>1. TypeOK'
    OBVIOUS
  <2>2. (Requests /\ Watched /\ Withdrawn /\ Written /\ Saved)'
    OBVIOUS
  <2>3. (CancelledOnRequest /\ RunningIsOwned /\ CancelReturnsFinish)'
    OBVIOUS
  <2> QED BY <2>1, <2>2, <2>3
<1>4. CASE StartSubmits(r)
  <2> USE <1>4 DEF StartSubmits, StartGoes
  <2>0. watch[r] # "saving"
    BY DEF Accepts
  <2>1. TypeOK'
    OBVIOUS
  <2>2. (Requests /\ Watched /\ Saved)'
    OBVIOUS
  <2>3. Withdrawn'
    <3> SUFFICES ASSUME NEW q \in Run, demand'[q].withdrawn
                 PROVE  q \in asked \/ (starts'[q] = "ended" /\ watch[q] \in AtRest)
      BY Zenon
    <3>1. q # r
      BY SubmitFacts
    <3>2. demand'[q] = demand[q] /\ starts'[q] = starts[q]
      BY <3>1
    <3> QED BY <3>2
  <2>4. Written'
    <3> SUFFICES ASSUME NEW q \in Run
                 PROVE  /\ starts'[q] = "new" <=> rows[q] = "none"
                        /\ watch[q] = "saving" => demand'[q].status \in Outcome
                        /\ starts'[q] = "leaving" \/ watch[q] = "leaving"
                             => rows[q] \in FINISHED_RUN_STATUSES
                        /\ watch[q] = "done" /\ ~Stopping
                             => rows[q] \in FINISHED_RUN_STATUSES
      OBVIOUS
    <3>1. CASE q = r
      BY <2>0, <3>1
    <3>2. CASE q # r
      BY <3>2
    <3> QED BY <3>1, <3>2
  <2>5. (CancelledOnRequest /\ RunningIsOwned /\ CancelReturnsFinish)'
    OBVIOUS
  <2> QED BY <2>1, <2>2, <2>3, <2>4, <2>5
<1>5. CASE StartRaises(r)
  <2> USE <1>5 DEF StartRaises, StartGoes
  <2>1. TypeOK'
    OBVIOUS
  <2>2. (Requests /\ Watched /\ Withdrawn /\ Written /\ Saved)'
    OBVIOUS
  <2>3. (CancelledOnRequest /\ RunningIsOwned /\ CancelReturnsFinish)'
    OBVIOUS
  <2> QED BY <2>1, <2>2, <2>3
<1>6. CASE StartAnnounces(r)
  <2> USE <1>6 DEF StartAnnounces, StartGoes
  <2>1. TypeOK'
    OBVIOUS
  <2>2. (Requests /\ Watched /\ Withdrawn /\ Written /\ Saved)'
    OBVIOUS
  <2>3. (CancelledOnRequest /\ RunningIsOwned /\ CancelReturnsFinish)'
    OBVIOUS
  <2> QED BY <2>1, <2>2, <2>3
<1>7. CASE StartWatches(r)
  <2> USE <1>7 DEF StartWatches, StartGoes
  <2>1. TypeOK'
    OBVIOUS
  <2>2. (Requests /\ Watched /\ Withdrawn /\ Written /\ Saved)'
    OBVIOUS
  <2>3. (CancelledOnRequest /\ RunningIsOwned /\ CancelReturnsFinish)'
    OBVIOUS
  <2> QED BY <2>1, <2>2, <2>3
<1> QED BY <1>1, <1>2, <1>3, <1>4, <1>5, <1>6, <1>7 DEF Start

(* The watcher: a Run it saves as cancelled was withdrawn, so asked for.   *)
LEMMA WatchStep ==
  ASSUME NEW r \in Run, IInv, Watch(r)
  PROVE  IInv'
<1> USE DemandFacts, CallFacts, MaxBootsAssumption
    DEF IInv, TypeOK, Requests, Watched, Withdrawn, Written, Saved,
        CancelledOnRequest, RunningIsOwned, CancelReturnsFinish,
        Outcome, FINISHED_RUN_STATUSES, LiveWatch, AtRest, Stopping
<1>1. CASE WatchWakes(r)
  <2> USE <1>1 DEF WatchWakes, WatchGoes
  <2>1. TypeOK'
    OBVIOUS
  <2>2. (Requests /\ Watched /\ Withdrawn /\ Written /\ Saved)'
    OBVIOUS
  <2>3. (CancelledOnRequest /\ RunningIsOwned /\ CancelReturnsFinish)'
    OBVIOUS
  <2> QED BY <2>1, <2>2, <2>3
<1>2. CASE WatchStops(r)
  <2> USE <1>2 DEF WatchStops, WatchGoes
  <2>1. TypeOK'
    OBVIOUS
  <2>2. (Requests /\ Watched /\ Withdrawn /\ Written /\ Saved)'
    OBVIOUS
  <2>3. (CancelledOnRequest /\ RunningIsOwned /\ CancelReturnsFinish)'
    OBVIOUS
  <2> QED BY <2>1, <2>2, <2>3
<1>3. CASE WatchSaves(r)
  <2> USE <1>3 DEF WatchSaves, WatchGoes
  <2>1. TypeOK'
    OBVIOUS
  <2>2. (Requests /\ Watched /\ Withdrawn /\ Written /\ Saved)'
    OBVIOUS
  <2>3. (CancelledOnRequest /\ RunningIsOwned /\ CancelReturnsFinish)'
    OBVIOUS
  <2> QED BY <2>1, <2>2, <2>3
<1>4. CASE WatchRaises(r)
  <2> USE <1>4 DEF WatchRaises, WatchGoes
  <2>1. TypeOK'
    OBVIOUS
  <2>2. (Requests /\ Watched /\ Withdrawn /\ Written /\ Saved)'
    OBVIOUS
  <2>3. (CancelledOnRequest /\ RunningIsOwned /\ CancelReturnsFinish)'
    OBVIOUS
  <2> QED BY <2>1, <2>2, <2>3
<1>5. CASE WatchLeaves(r)
  <2> USE <1>5 DEF WatchLeaves, WatchGoes
  <2>1. TypeOK'
    OBVIOUS
  <2>2. (Requests /\ Watched /\ Withdrawn /\ Written /\ Saved)'
    OBVIOUS
  <2>3. (CancelledOnRequest /\ RunningIsOwned /\ CancelReturnsFinish)'
    OBVIOUS
  <2> QED BY <2>1, <2>2, <2>3
<1> QED BY <1>1, <1>2, <1>3, <1>4, <1>5 DEF Watch

(* cancel: whoever withdraws or writes here has asked.                     *)
LEMMA CancelStep ==
  ASSUME NEW c \in Caller, IInv, Cancel(c)
  PROVE  IInv'
<1> USE DemandFacts, CallFacts, MaxBootsAssumption
    DEF IInv, TypeOK, Requests, Watched, Withdrawn, Written, Saved,
        CancelledOnRequest, RunningIsOwned, CancelReturnsFinish,
        Outcome, FINISHED_RUN_STATUSES, LiveWatch, AtRest, Stopping
<1>1. CASE \E r \in Run : CancelReads(c, r)
  <2> USE <1>1 DEF CancelReads
  <2>0. /\ calls' \in [Caller -> CallState]
        /\ calls'[c] # Idle
        /\ calls'[c].pc = "read"
        /\ calls'[c].run \in asked' /\ rows[calls'[c].run] = "running"
    BY DEF CallState, Idle
  <2>1. TypeOK'
    BY <2>0
  <2>2. (Requests /\ Watched /\ Withdrawn /\ Written /\ Saved)'
    BY <2>0
  <2>3. (CancelledOnRequest /\ RunningIsOwned /\ CancelReturnsFinish)'
    BY <2>0
  <2> QED BY <2>1, <2>2, <2>3
<1>2. CASE CancelWithdraws(c)
  <2> USE <1>2 DEF CancelWithdraws
  <2>0. /\ calls' \in [Caller -> CallState]
        /\ calls[c] # Idle
        /\ calls'[c] # Idle
        /\ calls'[c].run = calls[c].run
        /\ calls'[c].pc = "withdrawing"
    BY DEF CallState, Idle
  <2> DEFINE r == calls[c].run
  <2>1. r \in Run /\ r \in asked /\ Withdraw(r)
    BY <2>0
  <2> HIDE DEF r
  <2>2. /\ demand' \in [Run -> DemandState]
        /\ \A q \in Run : /\ demand'[q].status = demand[q].status
                          /\ demand'[q].withdrawn => q = r \/ demand[q].withdrawn
    BY <2>1, WithdrawFacts
  <2>3. TypeOK'
    BY <2>0, <2>2
  <2>4. (Requests /\ Watched /\ Withdrawn /\ Written /\ Saved)'
    BY <2>0, <2>1, <2>2
  <2>5. (CancelledOnRequest /\ RunningIsOwned /\ CancelReturnsFinish)'
    BY <2>0
  <2> QED BY <2>3, <2>4, <2>5
<1>3. CASE CancelReturns(c)
  <2> USE <1>3 DEF CancelReturns
  <2> DEFINE to == IF calls[c].watched THEN "awaiting" ELSE "saving"
  <2>0. /\ calls' \in [Caller -> CallState]
        /\ calls[c] # Idle /\ calls'[c] # Idle
        /\ calls'[c].run = calls[c].run
        /\ calls'[c].pc = to
    <3>1. to \in Position /\ CallGoes(c, "withdrawing", to)
      BY DEF Position
    <3> HIDE DEF to
    <3> QED BY <3>1, CallGone DEF Position
  <2> USE DEF CallGoes
  <2>1. TypeOK'
    BY <2>0
  <2>2. (Requests /\ Watched /\ Withdrawn /\ Written /\ Saved)'
    BY <2>0
  <2>3. (CancelledOnRequest /\ RunningIsOwned /\ CancelReturnsFinish)'
    BY <2>0
  <2> QED BY <2>1, <2>2, <2>3
<1>4. CASE CancelAwaits(c)
  <2> USE <1>4 DEF CancelAwaits
  <2> DEFINE to == IF watch[calls[c].run] = "done" THEN "returned" ELSE "raised"
  <2>0. /\ calls' \in [Caller -> CallState]
        /\ calls[c] # Idle /\ calls'[c] # Idle
        /\ calls'[c].run = calls[c].run
        /\ calls'[c].pc = to
    <3>1. to \in Position /\ CallGoes(c, "awaiting", to)
      BY DEF Position
    <3> HIDE DEF to
    <3> QED BY <3>1, CallGone DEF Position
  <2> USE DEF CallGoes
  <2>1. TypeOK'
    BY <2>0
  <2>2. (Requests /\ Watched /\ Withdrawn /\ Written /\ Saved)'
    BY <2>0
  <2>3. (CancelledOnRequest /\ RunningIsOwned /\ CancelReturnsFinish)'
    BY <2>0
  <2> QED BY <2>1, <2>2, <2>3
<1>5. CASE CancelSaves(c)
  <2> USE <1>5 DEF CancelSaves, CallGoes
  <2>0. /\ calls' \in [Caller -> CallState]
        /\ calls[c] # Idle
        /\ calls'[c] # Idle
        /\ calls'[c].run = calls[c].run
        /\ calls'[c].pc = "leaving"
    BY CallGone DEF Position
  <2>1. TypeOK'
    BY <2>0
  <2>2. (Requests /\ Watched /\ Withdrawn /\ Written /\ Saved)'
    BY <2>0
  <2>3. (CancelledOnRequest /\ RunningIsOwned /\ CancelReturnsFinish)'
    BY <2>0
  <2> QED BY <2>1, <2>2, <2>3
<1>6. CASE CancelLeaves(c)
  <2> USE <1>6 DEF CancelLeaves, CallGoes
  <2>0. /\ calls' \in [Caller -> CallState]
        /\ calls[c] # Idle
        /\ calls'[c] # Idle
        /\ calls'[c].run = calls[c].run
        /\ calls'[c].pc = "returned"
    BY CallGone DEF Position
  <2>1. TypeOK'
    BY <2>0
  <2>2. (Requests /\ Watched /\ Withdrawn /\ Written /\ Saved)'
    BY <2>0
  <2>3. (CancelledOnRequest /\ RunningIsOwned /\ CancelReturnsFinish)'
    BY <2>0
  <2> QED BY <2>1, <2>2, <2>3
<1>7. CASE CancelRaises(c)
  <2> USE <1>7 DEF CancelRaises
  <2>0. /\ calls' \in [Caller -> CallState]
        /\ calls[c] # Idle /\ calls'[c] # Idle
        /\ calls'[c].run = calls[c].run
        /\ calls'[c].pc = "raised"
    <3>1. PICK from \in {"saving", "leaving"} : CallGoes(c, from, "raised")
      OBVIOUS
    <3> QED BY <3>1, CallGone DEF Position
  <2> USE DEF CallGoes
  <2>1. TypeOK'
    BY <2>0
  <2>2. (Requests /\ Watched /\ Withdrawn /\ Written /\ Saved)'
    BY <2>0
  <2>3. (CancelledOnRequest /\ RunningIsOwned /\ CancelReturnsFinish)'
    BY <2>0
  <2> QED BY <2>1, <2>2, <2>3
<1> QED BY <1>1, <1>2, <1>3, <1>4, <1>5, <1>6, <1>7 DEF Cancel

(* The scheduler, close and the restart: close withdraws a Run only when    *)
(* nobody watches it any more.                                             *)
LEMMA ServerStep ==
  ASSUME IInv, 
         (\E r \in Run : SchedulerAnswers(r) \/ CloseWithdraws(r))
           \/ CloseBegins \/ CloseSettles \/ Exits \/ Restarts
  PROVE  IInv'
<1> USE DemandFacts, CallFacts, MaxBootsAssumption
    DEF IInv, TypeOK, Requests, Watched, Withdrawn, Written, Saved,
        CancelledOnRequest, RunningIsOwned, CancelReturnsFinish,
        Outcome, FINISHED_RUN_STATUSES, LiveWatch, AtRest, Stopping
<1>1. CASE \E r \in Run : SchedulerAnswers(r)
  <2> USE <1>1 DEF SchedulerAnswers, Answers
  <2>1. TypeOK'
    OBVIOUS
  <2>2. (Requests /\ Watched /\ Withdrawn /\ Written /\ Saved)'
    OBVIOUS
  <2>3. (CancelledOnRequest /\ RunningIsOwned /\ CancelReturnsFinish)'
    OBVIOUS
  <2> QED BY <2>1, <2>2, <2>3
<1>2. CASE \E r \in Run : CloseWithdraws(r)
  <2>0. PICK r \in Run : CloseWithdraws(r)
    BY <1>2
  <2> USE <2>0 DEF CloseWithdraws
  <2>1. /\ demand' \in [Run -> DemandState]
        /\ \A q \in Run : /\ demand'[q].status = demand[q].status
                          /\ demand'[q].withdrawn => q = r \/ demand[q].withdrawn
    BY WithdrawFacts
  <2>2. TypeOK'
    BY <2>1
  <2>3. (Requests /\ Watched /\ Withdrawn /\ Written /\ Saved)'
    BY <2>1
  <2>4. (CancelledOnRequest /\ RunningIsOwned /\ CancelReturnsFinish)'
    BY <2>1
  <2> QED BY <2>2, <2>3, <2>4
<1>3. CASE CloseBegins
  <2> USE <1>3 DEF CloseBegins
  <2>1. TypeOK'
    OBVIOUS
  <2>2. (Requests /\ Watched /\ Withdrawn /\ Written /\ Saved)'
    OBVIOUS
  <2>3. (CancelledOnRequest /\ RunningIsOwned /\ CancelReturnsFinish)'
    OBVIOUS
  <2> QED BY <2>1, <2>2, <2>3
<1>4. CASE CloseSettles
  <2> USE <1>4 DEF CloseSettles
  <2>1. TypeOK'
    OBVIOUS
  <2>2. (Requests /\ Watched /\ Withdrawn /\ Written /\ Saved)'
    OBVIOUS
  <2>3. (CancelledOnRequest /\ RunningIsOwned /\ CancelReturnsFinish)'
    OBVIOUS
  <2> QED BY <2>1, <2>2, <2>3
<1>5. CASE Exits
  <2> USE <1>5 DEF Exits
  <2>1. TypeOK'
    OBVIOUS
  <2>2. (Requests /\ Watched /\ Withdrawn /\ Written /\ Saved)'
    OBVIOUS
  <2>3. (CancelledOnRequest /\ RunningIsOwned /\ CancelReturnsFinish)'
    OBVIOUS
  <2> QED BY <2>1, <2>2, <2>3
<1>6. CASE Restarts
  <2> USE <1>6 DEF Restarts
  <2>1. TypeOK'
    OBVIOUS
  <2>2. (Requests /\ Watched /\ Withdrawn /\ Written /\ Saved)'
    OBVIOUS
  <2>3. (CancelledOnRequest /\ RunningIsOwned /\ CancelReturnsFinish)'
    OBVIOUS
  <2> QED BY <2>1, <2>2, <2>3
<1> QED BY <1>1, <1>2, <1>3, <1>4, <1>5, <1>6

----------------------------------------------------------------------------
(* The strengthened invariant holds initially and is kept by every step of  *)
(* the service, the scheduler and the process.                              *)
THEOREM Inductive == Spec => []IInv
<1>1. Init => IInv
  <2> USE DemandFacts, CallFacts, MaxBootsAssumption
      DEF Init, DemandInit, IInv, TypeOK, Requests, Watched, Withdrawn, Written, Saved,
          CancelledOnRequest, RunningIsOwned, CancelReturnsFinish, AtRest, Stopping
  <2> QED OBVIOUS
<1>2. IInv /\ [Next]_vars => IInv'
  <2> SUFFICES ASSUME IInv, [Next]_vars PROVE IInv'
    OBVIOUS
  <2>1. CASE Next
    BY <2>1, StartStep, WatchStep, CancelStep, ServerStep, Zenon DEF Next
  <2>2. CASE UNCHANGED vars
    BY <2>2 DEF vars, IInv, TypeOK, Requests, Watched, Withdrawn, Written, Saved,
                CancelledOnRequest, RunningIsOwned, CancelReturnsFinish, Stopping
  <2> QED BY <2>1, <2>2
<1> QED BY <1>1, <1>2, PTL DEF Spec

(* Types of the Run rows and of every coroutine of the service.             *)
THEOREM RunTypeCorrect == Spec => []TypeOK
<1>1. IInv => TypeOK
  BY DEF IInv
<1> QED BY Inductive, <1>1, PTL

(* No row says cancelled unless a cancel was asked for: what close does to  *)
(* the Runs it withdraws is never recorded as an outcome.                   *)
THEOREM CancelIsAsked == Spec => []CancelledOnRequest
<1>1. IInv => CancelledOnRequest
  BY DEF IInv
<1> QED BY Inductive, <1>1, PTL

(* A running row always has a start, a watcher or a restart ahead of it.    *)
THEOREM RunsAreOwned == Spec => []RunningIsOwned
<1>1. IInv => RunningIsOwned
  BY DEF IInv
<1> QED BY Inductive, <1>1, PTL

(* cancel returns a finished Run.                                           *)
THEOREM CancelFinishes == Spec => []CancelReturnsFinish
<1>1. IInv => CancelReturnsFinish
  BY DEF IInv
<1> QED BY Inductive, <1>1, PTL

=============================================================================
