----------------------------- MODULE RunService -----------------------------
(***************************************************************************)
(* The Run service of one Project (runs/service.py): start, cancel, the    *)
(* watcher of each Run, close and the recovery after a restart, over the   *)
(* Run rows of the database and a scheduler that behaves as RunDemand.     *)
(*                                                                         *)
(* A step is what a coroutine does between two awaits.  A database read    *)
(* and its use are two steps; a commit is the step that changes the row.   *)
(***************************************************************************)
EXTENDS RunDemand

CONSTANTS Caller,    \* the cancel requests that may be made
          Faults,    \* TRUE when database calls may raise
          MaxBoots   \* bound: how often the process may go down

ASSUME FaultsAssumption == Faults \in BOOLEAN
ASSUME MaxBootsAssumption == MaxBoots \in Nat

VARIABLES rows,     \* project_runs: the status of each Run, "none" before its insert
          starts,   \* where start of each Run stands
          watch,    \* where the watcher task of each Run stands
          held,     \* _watchers: the Runs whose watcher is registered
          calls,    \* the cancel coroutines
          asked,    \* history: the Runs whose cancel was asked for
          server,   \* "up", "settling" and "withdrawing" (both in close), or "down"
          left,     \* the watched Runs close has still to withdraw
          boots     \* how often the process went down

vars == <<demand, rows, starts, watch, held, calls, asked, server, left, boots>>

FINISHED_RUN_STATUSES == Outcome \cup {"interrupted"}

Stopping == server \in {"settling", "withdrawing"}

LiveWatch == {"waiting", "saving", "leaving"}

Idle == [pc |-> "idle"]

Init ==
  /\ DemandInit
  /\ rows = [r \in Run |-> "none"]
  /\ starts = [r \in Run |-> "new"]
  /\ watch = [r \in Run |-> "none"]
  /\ held = {}
  /\ calls = [c \in Caller |-> Idle]
  /\ asked = {}
  /\ server = "up"
  /\ left = {}
  /\ boots = 0

----------------------------------------------------------------------------
(* start *)

StartGoes(r, from, to) == starts[r] = from /\ starts' = [starts EXCEPT ![r] = to]

(* _record commits the row.  An empty plan has nothing to submit.          *)
StartRecords(r) ==
  /\ server = "up"
  /\ \E to \in {"fresh", "recorded"} : StartGoes(r, "new", to)
  /\ rows' = [rows EXCEPT ![r] = "running"]
  /\ UNCHANGED <<demand, watch, held, calls, asked, server, left, boots>>

(* Nothing was stale: start writes the finish itself, then publishes.      *)
StartFinishes(r) ==
  /\ StartGoes(r, "fresh", "leaving")
  /\ rows' = [rows EXCEPT ![r] = "succeeded"]
  /\ UNCHANGED <<demand, watch, held, calls, asked, server, left, boots>>

StartLeaves(r) ==
  /\ StartGoes(r, "leaving", "ended")
  /\ UNCHANGED <<demand, rows, watch, held, calls, asked, server, left, boots>>

(* submit has validated the plan and registers the Run.                    *)
StartSubmits(r) ==
  /\ StartGoes(r, "recorded", "joining")
  /\ demand' = [demand EXCEPT ![r] = Active(FALSE)]
  /\ Accepts(r)
  /\ UNCHANGED <<rows, watch, held, calls, asked, server, left, boots>>

(* A store read of submit, or the save or the publish of an empty plan's   *)
(* finish, raises: the request fails and nobody watches the Run.           *)
StartRaises(r) ==
  /\ Faults
  /\ \E from \in {"fresh", "leaving", "recorded", "joining"} : StartGoes(r, from, "raised")
  /\ UNCHANGED <<demand, rows, watch, held, calls, asked, server, left, boots>>

\* submit returned; run_started is being announced.
StartAnnounces(r) ==
  /\ StartGoes(r, "joining", "announcing")
  /\ UNCHANGED <<demand, rows, watch, held, calls, asked, server, left, boots>>

StartWatches(r) ==
  /\ StartGoes(r, "announcing", "ended")
  /\ watch' = [watch EXCEPT ![r] = "waiting"]
  /\ held' = held \cup {r}
  /\ UNCHANGED <<demand, rows, calls, asked, server, left, boots>>

----------------------------------------------------------------------------
(* _watch *)

WatchGoes(r, from, to) == watch[r] = from /\ watch' = [watch EXCEPT ![r] = to]

(* Mutant: the watcher writes an outcome whichever of its two waits ended. *)
WatchWakesEarly(r) ==
  /\ WatchGoes(r, "waiting", "saving")
  /\ UNCHANGED <<demand, rows, starts, held, calls, asked, server, left, boots>>

WatchWakes(r) ==
  /\ demand[r].status \in Outcome
  /\ WatchGoes(r, "waiting", "saving")
  /\ UNCHANGED <<demand, rows, starts, held, calls, asked, server, left, boots>>

(* close asked the watcher to stop: it writes nothing.                     *)
WatchStops(r) ==
  /\ Stopping
  /\ WatchGoes(r, "waiting", "done")
  /\ held' = held \ {r}
  /\ UNCHANGED <<demand, rows, starts, calls, asked, server, left, boots>>

WatchSaves(r) ==
  /\ WatchGoes(r, "saving", "leaving")
  /\ rows' = [rows EXCEPT ![r] = demand[r].status]
  /\ UNCHANGED <<demand, starts, held, calls, asked, server, left, boots>>

(* The save, or the publish after it, raises.                              *)
WatchRaises(r) ==
  /\ Faults
  /\ \E from \in {"saving", "leaving"} : WatchGoes(r, from, "raised")
  /\ held' = held \ {r}
  /\ UNCHANGED <<demand, rows, starts, calls, asked, server, left, boots>>

\* run_finished and the publish are over.
WatchLeaves(r) ==
  /\ WatchGoes(r, "leaving", "done")
  /\ held' = held \ {r}
  /\ UNCHANGED <<demand, rows, starts, calls, asked, server, left, boots>>

----------------------------------------------------------------------------
(* cancel *)

(* get_run read an active row; a finished Run is returned untouched.       *)
CancelReads(c, r) ==
  /\ server = "up"
  /\ calls[c] = Idle
  /\ rows[r] = "running"
  /\ calls' = [calls EXCEPT ![c] = [pc |-> "read", run |-> r, watched |-> FALSE]]
  /\ asked' = asked \cup {r}
  /\ UNCHANGED <<demand, rows, starts, watch, held, server, left, boots>>

(* What scheduler.cancel does to a Run: a no-op when it is unknown or has  *)
(* its answer.                                                             *)
Withdraw(r) ==
  demand' = IF demand[r].status = "active"
            THEN [demand EXCEPT ![r] = Active(TRUE)] ELSE demand

(* cancel resumes, looks for a watcher and calls scheduler.cancel.         *)
CancelWithdraws(c) ==
  /\ calls[c].pc = "read"
  /\ calls' = [calls EXCEPT ![c] = [pc |-> "withdrawing", run |-> @.run,
                                    watched |-> @.run \in held]]
  /\ Withdraw(calls[c].run)
  /\ UNCHANGED <<rows, starts, watch, held, asked, server, left, boots>>

CallGoes(c, from, to) ==
  /\ calls[c].pc = from
  /\ calls' = [calls EXCEPT ![c].pc = to]
  /\ UNCHANGED <<demand, starts, watch, held, asked, server, left, boots>>

(* Mutant: cancel does not wait for the watcher.                           *)
CancelReturnsUnwatched(c) ==
  /\ calls[c].pc = "withdrawing"
  /\ demand[calls[c].run].status # "active"
  /\ CallGoes(c, "withdrawing", IF calls[c].watched THEN "returned" ELSE "saving")
  /\ UNCHANGED rows

\* scheduler.cancel returned: the Run has its answer, or was never known.
CancelReturns(c) ==
  /\ calls[c].pc = "withdrawing"
  /\ demand[calls[c].run].status # "active"
  /\ CallGoes(c, "withdrawing", IF calls[c].watched THEN "awaiting" ELSE "saving")
  /\ UNCHANGED rows

\* The watcher ended; its exception, if any, is cancel's.
CancelAwaits(c) ==
  /\ calls[c].pc = "awaiting"
  /\ watch[calls[c].run] \in {"done", "raised"}
  /\ CallGoes(c, "awaiting",
              IF watch[calls[c].run] = "done" THEN "returned" ELSE "raised")
  /\ UNCHANGED rows

(* No watcher: cancel writes the finish itself.                            *)
CancelSaves(c) ==
  /\ CallGoes(c, "saving", "leaving")
  /\ rows' = [rows EXCEPT ![calls[c].run] = "cancelled"]

CancelLeaves(c) == CallGoes(c, "leaving", "returned") /\ UNCHANGED rows

CancelRaises(c) ==
  /\ Faults
  /\ \E from \in {"saving", "leaving"} : CallGoes(c, from, "raised")
  /\ UNCHANGED rows

----------------------------------------------------------------------------
(* The scheduler answers a Run: cancelled when, and only when, scheduler.cancel *)
(* has withdrawn it. *)

SchedulerAnswers(r) ==
  /\ server # "down"
  /\ demand' \in {[demand EXCEPT ![r] = Answered(o)] : o \in Outcome}
  /\ Answers(r)
  /\ demand'[r].withdrawn = demand[r].withdrawn
  /\ UNCHANGED <<rows, starts, watch, held, calls, asked, server, left, boots>>

----------------------------------------------------------------------------
(* close, the end of the process and the next start *)

CloseBegins ==
  /\ server = "up"
  /\ boots < MaxBoots
  /\ server' = "settling"
  /\ left' = held
  /\ held' = {}
  /\ UNCHANGED <<demand, rows, starts, watch, calls, asked, boots>>

(* Mutant: close withdraws the Runs while their watchers still watch.      *)
CloseSettlesEarly ==
  /\ server = "settling"
  /\ server' = "withdrawing"
  /\ UNCHANGED <<demand, rows, starts, watch, held, calls, asked, left, boots>>

(* _settle is over: the watchers ended, or the deadline passed and those   *)
(* that had not were cancelled, before or after a save of theirs committed.*)
CloseSettles ==
  /\ server = "settling"
  /\ server' = "withdrawing"
  /\ \E S \in SUBSET {r \in left : watch[r] = "saving"} :
       rows' = [r \in Run |-> IF r \in S THEN demand[r].status ELSE rows[r]]
  /\ watch' = [r \in Run |-> IF r \in left /\ watch[r] \in LiveWatch
                             THEN "raised" ELSE watch[r]]
  /\ UNCHANGED <<demand, starts, held, calls, asked, left, boots>>

CloseWithdraws(r) ==
  /\ server = "withdrawing"
  /\ r \in left
  /\ left' = left \ {r}
  /\ Withdraw(r)
  /\ UNCHANGED <<rows, starts, watch, held, calls, asked, server, boots>>

(* The process ends, after close or in the middle of anything.             *)
Exits ==
  /\ server # "down"
  /\ boots < MaxBoots
  /\ boots' = boots + 1
  /\ server' = "down"
  /\ demand' = [r \in Run |-> Unknown]
  /\ starts' = [r \in Run |-> IF starts[r] = "new" THEN "new" ELSE "ended"]
  /\ watch' = [r \in Run |-> "none"]
  /\ held' = {}
  /\ calls' = [c \in Caller |-> Idle]
  /\ left' = {}
  /\ UNCHANGED <<rows, asked>>

(* Mutant: the next owner serves requests without the recovery.            *)
RestartsBare ==
  /\ server = "down"
  /\ server' = "up"
  /\ UNCHANGED <<demand, rows, starts, watch, held, calls, asked, left, boots>>

(* The next owner recovers before it serves requests: every unfinished Run *)
(* is interrupted.                                                         *)
Restarts ==
  /\ server = "down"
  /\ server' = "up"
  /\ rows' = [r \in Run |-> IF rows[r] = "running" THEN "interrupted" ELSE rows[r]]
  /\ UNCHANGED <<demand, starts, watch, held, calls, asked, left, boots>>

----------------------------------------------------------------------------
Start(r) ==
  \/ StartRecords(r) \/ StartFinishes(r) \/ StartLeaves(r) \/ StartSubmits(r)
  \/ StartRaises(r) \/ StartAnnounces(r) \/ StartWatches(r)

Watch(r) ==
  \/ WatchWakes(r) \/ WatchStops(r) \/ WatchSaves(r)
  \/ WatchRaises(r) \/ WatchLeaves(r)

Cancel(c) ==
  \/ \E r \in Run : CancelReads(c, r)
  \/ CancelWithdraws(c) \/ CancelReturns(c) \/ CancelAwaits(c)
  \/ CancelSaves(c) \/ CancelLeaves(c) \/ CancelRaises(c)

Next ==
  \/ \E r \in Run : Start(r) \/ Watch(r) \/ SchedulerAnswers(r) \/ CloseWithdraws(r)
  \/ \E c \in Caller : Cancel(c)
  \/ CloseBegins \/ CloseSettles \/ Exits \/ Restarts

Spec == Init /\ [][Next]_vars

(* A coroutine whose await has an answer is resumed, the scheduler answers *)
(* every Run, a process that closes ends, and a process that ended is      *)
(* started again.                                                          *)
FairSpec ==
  /\ Spec
  /\ \A r \in Run : /\ WF_vars(StartFinishes(r)) /\ WF_vars(StartSubmits(r))
                    /\ WF_vars(StartAnnounces(r)) /\ WF_vars(StartWatches(r))
                    /\ WF_vars(Watch(r)) /\ WF_vars(SchedulerAnswers(r))
  /\ WF_vars(Stopping /\ Exits)
  /\ WF_vars(Restarts)

----------------------------------------------------------------------------
(* Properties *)

DemandState ==
  {Unknown} \cup {Active(w) : w \in BOOLEAN} \cup {Answered(o) : o \in Outcome}

CallState ==
  {Idle} \cup [pc : {"read", "withdrawing", "awaiting", "saving", "leaving",
                    "returned", "raised"},
               run : Run, watched : BOOLEAN]

TypeOK ==
  /\ demand \in [Run -> DemandState]
  /\ rows \in [Run -> {"none", "running"} \cup FINISHED_RUN_STATUSES]
  /\ starts \in [Run -> {"new", "fresh", "recorded", "joining", "announcing",
                         "leaving", "raised", "ended"}]
  /\ watch \in [Run -> {"none", "done", "raised"} \cup LiveWatch]
  /\ held \subseteq Run
  /\ calls \in [Caller -> CallState]
  /\ asked \subseteq Run
  /\ server \in {"up", "settling", "withdrawing", "down"}
  /\ left \subseteq Run
  /\ boots \in 0..MaxBoots

(* "A watcher that wrote a finish for a Run this service merely stopped    *)
(* watching would be writing a fact nobody observed": a row says cancelled *)
(* only when somebody asked for the cancel, although close withdraws every *)
(* Run too.                                                                *)
CancelledOnRequest == \A r \in Run : rows[r] = "cancelled" => r \in asked

(* A Run the database shows as running has somebody to finish it: its      *)
(* start, its watcher, or the recovery after the process ends.  Only an    *)
(* exception of the database leaves it to a later cancel.                  *)
RunningIsOwned ==
  server = "up" =>
    \A r \in Run : rows[r] = "running" =>
      \/ starts[r] \in {"fresh", "recorded", "joining", "announcing", "raised"}
      \/ watch[r] \in {"waiting", "saving", "raised"}

(* "The returned record carries the finish the watcher wrote": when cancel *)
(* returns while the service is not closing, the row is finished.          *)
CancelReturnsFinish ==
  \A c \in Caller :
    calls[c].pc = "returned" /\ ~Stopping => rows[calls[c].run] \in FINISHED_RUN_STATUSES

(* "The watcher is the only writer of a Run's finish, so a concurrent      *)
(* cancel cannot race it for the row": a finished row never changes.       *)
FinishStands ==
  [][\A r \in Run : rows[r] \in FINISHED_RUN_STATUSES => rows'[r] = rows[r]]_vars

(* Every recorded Run leaves the running status, by its own finish or by   *)
(* the recovery, unless a database call of start or of its watcher raised. *)
RunsEnd ==
  \A r \in Run : rows[r] = "running" ~>
    rows[r] # "running" \/ starts[r] = "raised" \/ watch[r] = "raised"

=============================================================================
