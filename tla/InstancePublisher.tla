------------------------- MODULE InstancePublisher -------------------------
(***************************************************************************)
(* How a Project's room learns the state of its instances: the dirty flag, *)
(* the publish lock and the drainers of runs/service.py, the tracker of    *)
(* runs/state.py, and the derivation of kernel/state.py, which reads the   *)
(* document, the store and the scheduler at different moments.             *)
(*                                                                         *)
(* The scheduler is reduced to the position of one computation for each    *)
(* fingerprint.  A fingerprint is an instance at a version of the document.*)
(***************************************************************************)
EXTENDS Naturals, Sequences

CONSTANTS Order,     \* the instances, in document order; each feeds the next
          Caller,    \* coroutines that publish themselves: routes and watchers
          MaxEdits,  \* bound: how often the document moves
          MaxJoins   \* bound: how many computations are started

ASSUME BoundsAssumption == MaxEdits \in Nat /\ MaxJoins \in Nat

VARIABLES head,      \* the version of the head document
          comp,      \* comp[v][i]: where the computation of a fingerprint stands
          result,    \* result[v][i]: what the store and the pointers say of it
          joins,     \* how many computations were started
          dirty,     \* runtime.dirty
          lock,      \* the drainer that holds publish_lock, or "free"
          drain,     \* where each drainer stands
          tracked,   \* tracker._published
          room,      \* what the participants have been told
          closing    \* close has begun

world == <<head, comp, result, joins>>
vars == <<head, comp, result, joins, dirty, lock, drain, tracked, room, closing>>

Place == 1..Len(Order)
Version == 0..MaxEdits
Drainer == Caller \cup {"task"}   \* "task" is runtime.publish_task

Idle == [pc |-> "idle"]

Nothing == <<>>   \* nothing published yet

Init ==
  /\ head = 0
  /\ comp = [v \in Version |-> [i \in Place |-> "none"]]
  /\ result = [v \in Version |-> [i \in Place |-> "none"]]
  /\ joins = 0
  /\ dirty = FALSE
  /\ lock = "free"
  /\ drain = [d \in Drainer |-> Idle]
  /\ tracked = Nothing
  /\ room = [i \in Place |-> <<0, "stale">>]   \* read when the room was joined
  /\ closing = FALSE

----------------------------------------------------------------------------
(* derive_instance_state: what it says of a result and of a computation *)

InFlight(state) ==
  CASE state \in {"pending", "ready"} -> "queued"
    [] state \in {"running", "stored", "recorded"} -> "running"
    [] OTHER -> "none"

Derived(stored, state, failed) ==
  IF stored THEN "fresh"
  ELSE IF InFlight(state) # "none" THEN InFlight(state)
  ELSE IF failed THEN "failed" ELSE "stale"

----------------------------------------------------------------------------
(* Announcements *)

Queued == [pc |-> "queued"]

(* _transition_moved, d being how the drainers stand otherwise.            *)
TransitionMoved(d) ==
  IF closing
  THEN drain' = d /\ UNCHANGED dirty
  ELSE /\ dirty' = TRUE
       /\ drain' = IF d["task"] = Idle THEN [d EXCEPT !["task"] = Queued] ELSE d

----------------------------------------------------------------------------
(* The world: computations, and the store and the document they move *)

Comp(v, i, from, to) ==
  /\ comp[v][i] = from
  /\ comp' = [comp EXCEPT ![v][i] = to]
  /\ UNCHANGED <<head, lock, tracked, room, closing>>

Silent == UNCHANGED <<dirty, drain>>

(* _join creates a record: a state of its own, but not a transition.  Its  *)
(* upstream has a result or was joined before it.                          *)
Joins(v, i) ==
  /\ joins < MaxJoins
  /\ v <= head
  /\ result[v][i] # "stored"
  /\ i > 1 => result[v][i - 1] = "stored" \/ comp[v][i - 1] # "none"
  /\ Comp(v, i, "none", "pending")
  /\ joins' = joins + 1
  /\ Silent
  /\ UNCHANGED result

(* _resolve_pending and _start_ready, once nothing is awaited upstream.    *)
Readies(v, i) ==
  /\ i > 1 => comp[v][i - 1] = "none"
  /\ Comp(v, i, "pending", "ready")
  /\ TransitionMoved(drain)
  /\ UNCHANGED <<joins, result>>

Starts(v, i) ==
  /\ Comp(v, i, "ready", "running")
  /\ TransitionMoved(drain)
  /\ UNCHANGED <<joins, result>>

(* _execute commits an outcome, and only later moves the computation.      *)
Commits(v, i) ==
  /\ \E to \in {"stored", "recorded"} :
       /\ Comp(v, i, "running", to)
       /\ result' = [result EXCEPT ![v][i] = IF to = "stored" THEN "stored" ELSE "failed"]
  /\ Silent
  /\ UNCHANGED joins

Finishes(v, i) ==
  /\ \E from \in {"stored", "recorded"} : Comp(v, i, from, "none")
  /\ TransitionMoved(drain)
  /\ UNCHANGED <<joins, result>>

(* cancel moves the computation while its task may still be in the store.  *)
Cancels(v, i) ==
  /\ \E from \in {"pending", "ready", "running", "stored", "recorded"} :
       Comp(v, i, from, "cancelled")
  /\ TransitionMoved(drain)
  /\ UNCHANGED <<joins, result>>

(* Mutant: a cancelled Run ends without a publish.                         *)
EndsUnpublished(c, v, i) ==
  /\ drain[c] = Idle
  /\ Comp(v, i, "cancelled", "none")
  /\ \E landed \in {result[v][i], "stored"} :
       result' = [result EXCEPT ![v][i] = landed]
  /\ Silent
  /\ UNCHANGED joins

(* The cancelled task ends; a commit under way may have landed.  The Run's *)
(* watcher, which finishes after it, publishes.                            *)
Ends(c, v, i) ==
  /\ drain[c] = Idle
  /\ Comp(v, i, "cancelled", "none")
  /\ \E landed \in {result[v][i], "stored"} :
       result' = [result EXCEPT ![v][i] = landed]
  /\ drain' = [drain EXCEPT ![c] = [pc |-> "owing"]]
  /\ UNCHANGED <<joins, dirty>>

(* A command batch is committed; its route owes the announcement.          *)
Edits(c) ==
  /\ drain[c] = Idle
  /\ head < MaxEdits
  /\ head' = head + 1
  /\ drain' = [drain EXCEPT ![c] = [pc |-> "owing"]]
  /\ UNCHANGED <<comp, result, joins, dirty, lock, tracked, room, closing>>

(* project_changed: waiting, as _finish does too, or not.                  *)
Announces(c) ==
  /\ drain[c].pc = "owing"
  /\ \/ dirty' = TRUE /\ drain' = [drain EXCEPT ![c] = Queued]
     \/ TransitionMoved([drain EXCEPT ![c] = Idle])
  /\ UNCHANGED <<world, lock, tracked, room, closing>>

Closes ==
  /\ ~closing
  /\ closing' = TRUE
  /\ UNCHANGED <<world, dirty, lock, drain, tracked, room>>

----------------------------------------------------------------------------
(* _drain_publishes, _publish and _snapshots *)

Goes(d, from, to) ==
  /\ drain[d].pc = from
  /\ drain' = [drain EXCEPT ![d] = to]
  /\ UNCHANGED <<world, closing>>

(* Mutant: no lock.                                                        *)
EntersFreely(d) ==
  /\ Goes(d, "queued", [pc |-> "loop"])
  /\ lock' = d
  /\ UNCHANGED <<dirty, tracked, room>>

Enters(d) ==
  /\ lock = "free"
  /\ Goes(d, "queued", [pc |-> "loop"])
  /\ lock' = d
  /\ UNCHANGED <<dirty, tracked, room>>

Leaves(d) ==
  /\ ~dirty \/ closing
  /\ Goes(d, "loop", Idle)
  /\ lock' = "free"
  /\ UNCHANGED <<dirty, tracked, room>>

(* The flag is cleared before anything is read.                            *)
Begins(d) ==
  /\ dirty /\ ~closing
  /\ Goes(d, "loop", [pc |-> "document"])
  /\ dirty' = FALSE
  /\ UNCHANGED <<lock, tracked, room>>

Reading(pc, v, taken) == [pc |-> pc, v |-> v, taken |-> taken]

ReadsDocument(d) ==
  /\ Goes(d, "document", Reading("result", head, <<>>))
  /\ UNCHANGED <<dirty, lock, tracked, room>>

Here(d) == Len(drain[d].taken) + 1

(* One more instance is known; after the last, the snapshot is complete.   *)
Takes(d, state) ==
  LET taken == Append(drain[d].taken, <<drain[d].v, state>>)
  IN Reading(IF Len(taken) < Len(Order) THEN "result" ELSE "taken", drain[d].v, taken)

ReadsResult(d) ==
  /\ drain[d].pc = "result"
  /\ Goes(d, "result",
          IF result[drain[d].v][Here(d)] = "stored"
          THEN Takes(d, "fresh") ELSE Reading("flight", drain[d].v, drain[d].taken))
  /\ UNCHANGED <<dirty, lock, tracked, room>>

ReadsFlight(d) ==
  /\ drain[d].pc = "flight"
  /\ LET flight == InFlight(comp[drain[d].v][Here(d)])
     IN Goes(d, "flight", IF flight # "none" THEN Takes(d, flight)
                          ELSE Reading("pointer", drain[d].v, drain[d].taken))
  /\ UNCHANGED <<dirty, lock, tracked, room>>

ReadsPointer(d) ==
  /\ drain[d].pc = "pointer"
  /\ Goes(d, "pointer",
          Takes(d, IF result[drain[d].v][Here(d)] = "failed" THEN "failed" ELSE "stale"))
  /\ UNCHANGED <<dirty, lock, tracked, room>>

(* diff: what is sent is remembered as published before it is sent.        *)
Diffs(d) ==
  /\ drain[d].pc = "taken"
  /\ tracked' = drain[d].taken
  /\ Goes(d, "taken", IF tracked = drain[d].taken THEN [pc |-> "loop"]
                      ELSE [pc |-> "sending", taken |-> drain[d].taken])
  /\ UNCHANGED <<dirty, lock, room>>

(* Mutant: the flag is cleared once the publish is out.                    *)
SendsAndClears(d) ==
  /\ drain[d].pc = "sending"
  /\ room' = drain[d].taken
  /\ Goes(d, "sending", [pc |-> "loop"])
  /\ dirty' = FALSE
  /\ UNCHANGED <<lock, tracked>>

(* instances_changed reaches the room, whose view then is what was taken.  *)
Sends(d) ==
  /\ drain[d].pc = "sending"
  /\ room' = drain[d].taken
  /\ Goes(d, "sending", [pc |-> "loop"])
  /\ UNCHANGED <<dirty, lock, tracked>>

----------------------------------------------------------------------------
Drain(d) ==
  \/ Enters(d) \/ Leaves(d) \/ Begins(d) \/ ReadsDocument(d)
  \/ ReadsResult(d) \/ ReadsFlight(d) \/ ReadsPointer(d)
  \/ Diffs(d) \/ Sends(d)

Moves(v, i) ==
  \/ Readies(v, i) \/ Starts(v, i) \/ Commits(v, i) \/ Finishes(v, i)
  \/ \E c \in Caller : Ends(c, v, i)

Next ==
  \/ \E d \in Drainer : Drain(d)
  \/ \E c \in Caller : Edits(c) \/ Announces(c)
  \/ \E v \in Version, i \in Place : Joins(v, i) \/ Moves(v, i) \/ Cancels(v, i)
  \/ Closes

Spec == Init /\ [][Next]_vars

(* Drainers and callers are coroutines the loop resumes; computations end. *)
FairSpec ==
  /\ Spec
  /\ \A d \in Drainer : WF_vars(Drain(d))
  /\ \A c \in Caller : WF_vars(Announces(c))
  /\ WF_vars(\E v \in Version, i \in Place : Moves(v, i))

----------------------------------------------------------------------------
(* Properties *)

State == {"fresh", "stale", "queued", "running", "failed"}

TypeOK ==
  /\ head \in Version /\ joins \in 0..MaxJoins
  /\ \A v \in Version, i \in Place :
       /\ comp[v][i] \in {"none", "pending", "ready", "running", "stored", "recorded",
                          "cancelled"}
       /\ result[v][i] \in {"none", "failed", "stored"}
  /\ {dirty, closing} \subseteq BOOLEAN
  /\ lock \in Drainer \cup {"free"}
  /\ \A d \in Drainer : drain[d].pc \in {"document", "result", "flight", "pointer", "taken",
                                         "sending", "loop"} => lock = d
  /\ {tracked, room} \subseteq {Nothing} \cup [Place -> Version \X State]

Truth(i) ==
  <<head, Derived(result[head][i] = "stored", comp[head][i], result[head][i] = "failed")>>

(* No announcement is on its way: nobody drains or owes one, no computation *)
(* is between its commit and its transition, and no submit between its     *)
(* joins and its dispatch.                                                 *)
Quiet ==
  /\ ~closing
  /\ \A d \in Drainer : drain[d] = Idle
  /\ \A i \in Place :
       /\ comp[head][i] \notin {"stored", "recorded", "cancelled"}
       /\ comp[head][i] = "pending" => i > 1 /\ comp[head][i - 1] # "none"

Told(i) == room[i] = Truth(i)

(* "State is derived from the document and the store rather than carried   *)
(* in the notification, so one bit says all": whatever the reads of a      *)
(* derivation were interleaved with, when nothing is on its way the room   *)
(* has been told the state of every instance that has begun to be          *)
(* scheduled or is not in flight.                                          *)
QuietRoomIsCurrent ==
  Quiet => ~dirty /\ \A i \in Place : comp[head][i] # "pending" => Told(i)

(* "State is shared: every participant sees the same fresh, stale, queued, *)
(* running and failed instances": the same of every instance.              *)
QuietRoomSeesQueued == Quiet => \A i \in Place : Told(i)

(* When the document and the computations come to rest, the room is told   *)
(* how they stand, unless the service closes.                              *)
RoomCatchesUp == <>[](closing \/ \A i \in Place : Told(i))

=============================================================================
