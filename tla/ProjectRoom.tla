---------------------------- MODULE ProjectRoom ----------------------------
(***************************************************************************)
(* A Project room: browser tabs, their sockets, and the hub that fans the  *)
(* Project head out to them.                                               *)
(*                                                                         *)
(* Committing a batch and publishing it are two steps of a handler, so     *)
(* frames of different handlers reach the hub in any order.  A socket is   *)
(* FIFO until it breaks.  Head reads and checkpoints travel by HTTP.       *)
(***************************************************************************)
EXTENDS ProjectHead, FiniteSets

CONSTANTS Client,     \* browser tabs
          Owner,      \* the tab that submits each batch; any other value: over HTTP
          Snapshot,   \* batches a newer queued one of the same kind replaces
          Saving,     \* batches followed by a checkpoint (persistDocument)
          Structural, \* batches a canvas cannot replay
          QueueCap,   \* ROOM_COMMAND_QUEUE_CAP
          MaxConns,   \* bound: sockets a tab opens
          MaxAsks,    \* bound: head reads of one tab that are not served yet
          MaxFails,   \* bound: head reads of one tab that fail
          Lags        \* whether a head read may return before React commits a head

ASSUME RoomAssumption ==
  /\ Snapshot \subseteq Exact /\ Saving \subseteq Batch /\ Structural \subseteq Batch
  /\ DOMAIN Owner = Batch
  /\ QueueCap \in Nat \ {0} /\ MaxConns \in Nat \ {0} /\ MaxAsks \in Nat \ {0}
  /\ MaxFails \in Nat
  /\ Lags \in BOOLEAN

VARIABLES tab,      \* tab[c]: the room session, its outbox and its socket
          sending,  \* publications of handlers that have committed
          late      \* submit frames of broken sockets the server still holds

vars == <<headVars, tab, sending, late>>

-----------------------------------------------------------------------------
(* Frames and publications.                                                *)

ReadyFrame(h) == [type |-> "ready", head |-> h]

RehydrateFrame(h) == [type |-> "rehydrate", head |-> h]

AcceptedFrame(b, at) == [type |-> "accepted", batch |-> b, at |-> at]

(* current: where the head was when the receipt was written.               *)
ReceiptFrame(b, at, current) ==
  [type |-> "receipt", batch |-> b, current |-> current,
   rehydrates |-> at.epoch # current.epoch]

RejectedFrame(b) == [type |-> "rejected", batch |-> b]

Nobody == {}

(* all goes to every session of the room, own to the submitting one.       *)
Publication(all, own, who) == [all |-> all, own |-> own, who |-> who]

-----------------------------------------------------------------------------
(* The room session and its outbox: each operator maps a tab to a tab.     *)

NewTab ==
  [link |-> "down", conn |-> 0, down |-> <<>>, up |-> <<>>,
   head |-> NoHead, shown |-> NoHead, queue |-> <<>>, flight |-> {},
   paused |-> FALSE, local |-> {}, asks |-> 0, reads |-> {},
   posts |-> {}, saves |-> {}, retry |-> FALSE, fails |-> 0,
   stamp |-> [b \in Batch |-> Nowhere], held |-> [b \in Batch |-> Nowhere],
   result |-> [b \in Batch |-> "idle"]]

(* shouldReplaceCollaborativeHead.                                         *)
ShouldReplace(current, incoming) ==
  current.epoch # incoming.epoch \/ incoming.seq >= current.seq

(* refreshCollaborativeHead: one more head read.                           *)
Ask(t) == [t EXCEPT !.asks = IF @ < MaxAsks THEN @ + 1 ELSE @]

(* A refresh that pauses and reads nothing.                                *)
RefreshForgotten(t) == [t EXCEPT !.paused = TRUE]

(* requestHeadRefresh.                                                     *)
Refresh(t) == [Ask(t) EXCEPT !.paused = TRUE]

Waiting(t) == {b \in t.flight : t.held[b] # Nowhere}

(* headCoversReceipt.                                                      *)
Covers(t, b) == t.head.epoch = t.held[b].epoch /\ t.head.seq >= t.held[b].seq

(* A drain that signs a retry with the head it sees now.                   *)
DrainRestamps(t) ==
  IF t.flight # {} \/ t.paused \/ t.link # "ready" \/ t.queue = <<>> THEN t
  ELSE LET b == Head(t.queue)
       IN [t EXCEPT !.queue = Tail(@), !.flight = {b}, !.up = Append(@, b),
                    !.stamp[b] = At(t.head)]

(* A drain that does not wait for the batch in flight.                     *)
DrainEagerly(t) ==
  IF t.paused \/ t.link # "ready" \/ t.queue = <<>> THEN t
  ELSE LET b == Head(t.queue)
       IN [t EXCEPT !.queue = Tail(@), !.flight = @ \union {b}, !.up = Append(@, b),
                    !.stamp[b] = IF @ = Nowhere THEN At(t.head) ELSE @]

(* drainQueue: a batch keeps the stamp of its first submission.            *)
Drain(t) ==
  IF t.flight # {} \/ t.paused \/ t.link # "ready" \/ t.queue = <<>> THEN t
  ELSE LET b == Head(t.queue)
       IN [t EXCEPT !.queue = Tail(@), !.flight = {b}, !.up = Append(@, b),
                    !.stamp[b] = IF @ = Nowhere THEN At(t.head) ELSE @]

(* resolveInFlightReceipt; a save posts its checkpoint when it resolves.   *)
Resolve(t, b) ==
  [t EXCEPT !.flight = {}, !.result[b] = "resolved",
            !.posts = IF b \in Saving THEN @ \union {At(t.head)} ELSE @]

(* finishHeadRehydration.                                                  *)
Finish(t) ==
  IF \E b \in Waiting(t) : ~Covers(t, b) THEN Refresh(t)
  ELSE LET settled == IF Waiting(t) = {} THEN t
                      ELSE Resolve(t, CHOOSE b \in Waiting(t) : TRUE)
       IN Drain([settled EXCEPT !.paused = FALSE])

(* replaceHead.                                                            *)
ReplaceHead(t, h) ==
  CASE ShouldReplace(t.head, h) -> Finish([t EXCEPT !.head = h])
    [] ~ShouldReplace(t.head, h) /\ \E b \in Waiting(t) : Covers(t, b) -> Finish(t)
    [] OTHER -> t

(* A newer snapshot that replaces the batch in flight as well.             *)
SupersededInFlight(t, b) ==
  IF b \in Snapshot THEN Snapshot \intersect (Contents(t.queue) \union t.flight) ELSE {}

(* supersedeQueuedSnapshotCommand: the queued batches that b replaces.     *)
Superseded(t, b) ==
  IF b \in Snapshot
    THEN {x \in Snapshot \intersect Contents(t.queue) : t.stamp[x] = Nowhere} ELSE {}

(* submitCommands.                                                         *)
Submit(t, b) ==
  LET gone == Superseded(t, b)
      kept == [t EXCEPT !.queue = SelectSeq(@, LAMBDA x : x \notin gone),
                        !.local = @ \ gone,
                        !.result = [x \in Batch |-> IF x \in gone THEN "superseded" ELSE @[x]]]
  IN IF Len(kept.queue) + Cardinality(kept.flight) >= QueueCap
       THEN [kept EXCEPT !.result[b] = "full"]
       ELSE Drain([kept EXCEPT !.queue = Append(@, b), !.local = @ \union {b},
                               !.result[b] = "queued"])

(* A tab that trusts the head it had before its socket broke.              *)
ApplyReadyKeeps(t, h) ==
  Finish([t EXCEPT !.link = "ready", !.head = IF @ = NoHead THEN h ELSE @])

(* applyReady.                                                             *)
ApplyReady(t, h) ==
  Finish([t EXCEPT !.link = "ready", !.head = IF ShouldReplace(@, h) THEN h ELSE @])

(* handleMessage, room.rehydrate.                                          *)
ApplyRehydrate(t, h) ==
  IF ShouldReplace(t.head, h) THEN Finish([t EXCEPT !.head = h]) ELSE t

(* An applyAccepted that lets a gap pass.                                  *)
ApplyAcceptedGaps(t, b, at) ==
  IF t.head.epoch = at.epoch /\ at.seq > t.head.seq
    THEN [t EXCEPT !.local = @ \ {b}, !.head.seq = at.seq, !.head.doc = Append(@, b)]
    ELSE [t EXCEPT !.local = @ \ {b}]

(* applyAccepted: only the next batch of the same epoch moves the head.    *)
ApplyAccepted(t, b, at) ==
  LET known == [t EXCEPT !.local = @ \ {b}]
      moved == [known EXCEPT !.head.seq = at.seq, !.head.doc = Append(@, b)]
      drawn == IF b \in Structural /\ b \notin t.local THEN Ask(moved) ELSE moved
  IN CASE t.head.epoch # at.epoch -> Refresh(known)
       [] t.head.epoch = at.epoch /\ at.seq <= t.head.seq -> known
       [] t.head.epoch = at.epoch /\ at.seq > t.head.seq + 1 -> Refresh(known)
       [] OTHER -> IF drawn.paused /\ \E x \in Waiting(drawn) : Covers(drawn, x)
                     THEN Finish(drawn) ELSE drawn

(* applyReceipt: it leaves a pause in place.                               *)
ApplyReceipt(t, f) ==
  LET b == f.batch
      noted == [t EXCEPT !.local = @ \ {b}, !.held[b] = f.current]
  IN CASE b \notin t.flight -> t
       [] b \in t.flight /\ (f.rehydrates \/ ~Covers(noted, b)) -> Refresh(noted)
       [] OTHER -> Drain(Resolve(noted, b))

(* A rejection that leaves the batch in flight.                            *)
ApplyRejectedKeeps(t, b) ==
  LET known == [Ask(t) EXCEPT !.local = @ \ {b}]
  IN IF b \in t.flight
       THEN [known EXCEPT !.paused = TRUE, !.result[b] = "rejected"] ELSE known

(* applyRejected, and the head read of onCommandRejected.                  *)
ApplyRejected(t, b) ==
  LET known == [Ask(t) EXCEPT !.local = @ \ {b}]
  IN IF b \in t.flight
       THEN [known EXCEPT !.paused = TRUE, !.flight = {}, !.result[b] = "rejected"]
       ELSE known

(* A reconciliation that takes every head of the epoch as saved.           *)
ReconcileMarks(t, h) ==
  IF t.head.epoch # h.epoch THEN t
  ELSE LET r == ReplaceHead(t, h) IN [r EXCEPT !.head.saved = r.head.seq]

(* reconcileCheckpointHead.                                                *)
Reconcile(t, h) ==
  IF t.head.epoch # h.epoch THEN t
  ELSE LET r == ReplaceHead(t, h)
       IN IF r.head.seq > h.seq /\ h.saved > r.head.saved
            THEN ReplaceHead(r, [r.head EXCEPT !.saved = h.saved]) ELSE r

(* A recovery that forgets the batch in flight.                            *)
InterruptForgets(t) ==
  [t EXCEPT !.link = "down", !.down = <<>>, !.up = <<>>, !.flight = {}]

(* recoverTraffic: the batch in flight goes back to the front.             *)
Interrupt(t) ==
  [t EXCEPT !.link = "down", !.down = <<>>, !.up = <<>>, !.flight = {},
            !.queue = IF t.flight = {} THEN @
                      ELSE << CHOOSE b \in t.flight : TRUE >> \o @]

(* stopTraffic: every held batch is rejected.                              *)
Halt(t) ==
  [t EXCEPT !.link = "stopped", !.down = <<>>, !.up = <<>>, !.flight = {}, !.queue = <<>>,
            !.result = [b \in Batch |-> IF @[b] = "queued" THEN "dropped" ELSE @[b]]]

(* The head read of refreshCollaborativeHead has returned h.               *)
Refreshed(t, h) ==
  LET current == IF Lags THEN t.shown ELSE t.head
  IN ReplaceHead([t EXCEPT !.retry = FALSE],
                 IF ShouldReplace(current, h) THEN h ELSE current)

-----------------------------------------------------------------------------
Init ==
  /\ HeadInit
  /\ tab = [c \in Client |-> NewTab]
  /\ sending = {}
  /\ late = {}

(* A gesture on the canvas of c.                                           *)
Edits(c, b) ==
  /\ Owner[b] = c /\ tab[c].link = "ready" /\ tab[c].result[b] = "idle"
  /\ tab' = [tab EXCEPT ![c] = Submit(@, b)]
  /\ UNCHANGED <<headVars, sending, late>>

(* connect, a reconnect timer or retry opens a socket; hub.join.           *)
Connects(c) ==
  /\ tab[c].link \in {"down", "stopped"} /\ tab[c].conn < MaxConns
  /\ tab' = [tab EXCEPT ![c].link = "joining", ![c].conn = @ + 1]
  /\ UNCHANGED <<headVars, sending, late>>

(* join_project_room reads the head: room.ready goes before the buffer.    *)
JoinReads(c) ==
  /\ tab[c].link = "joining"
  /\ tab' = [tab EXCEPT ![c].link = "open", ![c].down = << ReadyFrame(draft) >> \o @]
  /\ UNCHANGED <<headVars, sending, late>>

Registered(c) == tab[c].link \in {"joining", "open", "ready"}

(* The next frame of c's socket is of this type, and turns the tab into t. *)
Receives(c, type, t) ==
  /\ tab[c].link \in {"open", "ready"} /\ tab[c].down # <<>>
  /\ Head(tab[c].down).type = type
  /\ tab' = [tab EXCEPT ![c] = t]
  /\ UNCHANGED <<headVars, sending, late>>

Popped(c) == [tab[c] EXCEPT !.down = Tail(@)]

ReceivesReady(c) ==
  Receives(c, "ready", ApplyReady(Popped(c), Head(tab[c].down).head))

ReceivesRehydrate(c) ==
  Receives(c, "rehydrate", ApplyRehydrate(Popped(c), Head(tab[c].down).head))

ReceivesAccepted(c) ==
  Receives(c, "accepted",
           ApplyAccepted(Popped(c), Head(tab[c].down).batch, Head(tab[c].down).at))

ReceivesReceipt(c) ==
  Receives(c, "receipt", ApplyReceipt(Popped(c), Head(tab[c].down)))

ReceivesRejected(c) ==
  Receives(c, "rejected", ApplyRejected(Popped(c), Head(tab[c].down).batch))

(* The socket closes: network, slow consumer, permissions or protocol.     *)
Breaks(c) ==
  /\ Registered(c) /\ tab[c].conn < MaxConns
  /\ tab' = [tab EXCEPT ![c] = Interrupt(@)]
  /\ late' = late \union Contents(tab[c].up)
  /\ UNCHANGED <<headVars, sending>>

(* Reconnection is exhausted, or the close is terminal.                    *)
Stops(c) ==
  /\ tab[c].link # "stopped" /\ tab[c].conn \in 1..(MaxConns - 1)
  /\ tab' = [tab EXCEPT ![c] = Halt(@)]
  /\ late' = late \union Contents(tab[c].up)
  /\ UNCHANGED <<headVars, sending>>

(* The server process dies: its rooms and its handlers are gone.           *)
Crashes ==
  /\ \A c \in Client : tab[c].conn < MaxConns
  /\ \E c \in Client : Registered(c)
  /\ tab' = [c \in Client |-> IF Registered(c) THEN Interrupt(tab[c]) ELSE tab[c]]
  /\ sending' = {} /\ late' = {}
  /\ UNCHANGED headVars

(* React commits the session's head.                                       *)
Renders(c) ==
  /\ Lags /\ tab[c].shown # tab[c].head
  /\ tab' = [tab EXCEPT ![c].shown = tab[c].head]
  /\ UNCHANGED <<headVars, sending, late>>

(* A head read reaches the server.                                         *)
ServesRead(c) ==
  /\ tab[c].asks > 0
  /\ tab' = [tab EXCEPT ![c].asks = @ - 1, ![c].reads = @ \union {draft}]
  /\ UNCHANGED <<headVars, sending, late>>

ReadReturns(c, h) ==
  /\ h \in tab[c].reads
  /\ tab' = [tab EXCEPT ![c] = Refreshed([@ EXCEPT !.reads = @ \ {h}], h)]
  /\ UNCHANGED <<headVars, sending, late>>

(* A head read fails: one retry is scheduled, and any success cancels it.  *)
ReadFails(c) ==
  /\ tab[c].asks > 0 /\ tab[c].fails < MaxFails
  /\ tab' = [tab EXCEPT ![c].asks = @ - 1, ![c].retry = TRUE, ![c].fails = @ + 1]
  /\ UNCHANGED <<headVars, sending, late>>

RetryFires(c) ==
  /\ tab[c].retry
  /\ tab' = [tab EXCEPT ![c] = Ask([@ EXCEPT !.retry = FALSE])]
  /\ UNCHANGED <<headVars, sending, late>>

Sends(p) == sending' = sending \union (IF p.all = <<>> /\ p.who = Nobody THEN {} ELSE {p})

(* _handle_command_submit up to its publication.                           *)
Submits(b, seen, who) ==
  \/ /\ Accepts(b, seen)
     /\ Sends(Publication(<< AcceptedFrame(b, At(draft')) >>,
                          << ReceiptFrame(b, At(draft'), At(draft')) >>, who))
  \/ /\ Replays(b, seen)
     /\ Sends(Publication(<<>>, << ReceiptFrame(b, receipts[b].at, At(draft)) >>, who))
     /\ UNCHANGED headVars
  \/ /\ Rejects(b, seen)
     /\ Sends(Publication(<<>>, << RejectedFrame(b) >>, who))
     /\ UNCHANGED headVars

Handles(c) ==
  /\ Registered(c) /\ tab[c].up # <<>>
  /\ LET b == Head(tab[c].up)
     IN Submits(b, tab[c].stamp[b], {<<c, tab[c].conn>>})
  /\ tab' = [tab EXCEPT ![c].up = Tail(@)]
  /\ UNCHANGED late

(* The handler of a broken socket still takes the frame it had received.   *)
HandlesLate(b) ==
  /\ b \in late
  /\ Submits(b, tab[Owner[b]].stamp[b], Nobody)
  /\ late' = late \ {b}
  /\ UNCHANGED tab

(* The frame was lost with its socket.                                     *)
Loses(b) ==
  /\ b \in late
  /\ late' = late \ {b}
  /\ UNCHANGED <<headVars, tab, sending>>

(* A publication that answers the submitter alone.                         *)
PublishesOwnOnly(p) ==
  /\ p \in sending
  /\ sending' = sending \ {p}
  /\ tab' = [c \in Client |->
               IF Registered(c) /\ <<c, tab[c].conn>> \in p.who
                 THEN [tab[c] EXCEPT !.down = @ \o p.all \o p.own] ELSE tab[c]]
  /\ UNCHANGED <<headVars, late>>

(* publish_accepted, deliver_private, publish_rehydrate.                   *)
Publishes(p) ==
  /\ p \in sending
  /\ sending' = sending \ {p}
  /\ tab' = [c \in Client |->
               IF Registered(c)
                 THEN [tab[c] EXCEPT !.down = @ \o p.all \o
                         (IF <<c, tab[c].conn>> \in p.who THEN p.own ELSE <<>>)]
                 ELSE tab[c]]
  /\ UNCHANGED <<headVars, late>>

(* submit_project_commands: a batch that comes over HTTP.                  *)
PeerSubmits(b) ==
  /\ Owner[b] \notin Client
  /\ Accepts(b, At(draft))
  /\ Sends(Publication(<< AcceptedFrame(b, At(draft')) >>, <<>>, Nobody))
  /\ UNCHANGED <<tab, late>>

(* checkpoint_project for a save of c: answered, or refused with a 409.    *)
Checkpoints(c, at) ==
  /\ at \in tab[c].posts
  /\ \/ /\ At(draft) = at
        /\ Saves
        /\ tab' = [tab EXCEPT ![c].posts = @ \ {at}, ![c].saves = @ \union {draft'}]
     \/ /\ At(draft) # at
        /\ tab' = [tab EXCEPT ![c].posts = @ \ {at}]
        /\ UNCHANGED headVars
  /\ UNCHANGED <<sending, late>>

(* persistDocument goes on with the checkpoint's head.                     *)
CheckpointReturns(c, h) ==
  /\ h \in tab[c].saves
  /\ tab' = [tab EXCEPT ![c] = Reconcile([@ EXCEPT !.saves = @ \ {h}], h)]
  /\ UNCHANGED <<headVars, sending, late>>

PeerSaves ==
  /\ draft.saved # draft.seq
  /\ Saves
  /\ UNCHANGED <<tab, sending, late>>

(* restore_project_checkpoint.                                             *)
PeerRestores(r) ==
  /\ Restores(r)
  /\ Sends(Publication(<< RehydrateFrame(draft') >>, <<>>, Nobody))
  /\ UNCHANGED <<tab, late>>

Next ==
  \/ \E c \in Client :
       \/ Connects(c) \/ JoinReads(c) \/ Breaks(c) \/ Stops(c) \/ Renders(c)
       \/ ReceivesReady(c) \/ ReceivesRehydrate(c) \/ ReceivesAccepted(c)
       \/ ReceivesReceipt(c) \/ ReceivesRejected(c)
       \/ ServesRead(c) \/ ReadFails(c) \/ RetryFires(c) \/ Handles(c)
       \/ \E b \in Batch : Edits(c, b)
       \/ \E h \in tab[c].reads : ReadReturns(c, h)
       \/ \E at \in tab[c].posts : Checkpoints(c, at)
       \/ \E h \in tab[c].saves : CheckpointReturns(c, h)
  \/ \E b \in Batch : HandlesLate(b) \/ Loses(b) \/ PeerSubmits(b)
  \/ \E p \in sending : Publishes(p)
  \/ \E r \in 1..Len(checkpoints) : PeerRestores(r)
  \/ Crashes \/ PeerSaves

Spec == Init /\ [][Next]_vars

(* Everybody but the people, the network and the crashes keeps going.      *)
Fairness ==
  /\ \A c \in Client :
       /\ WF_vars(Connects(c)) /\ WF_vars(JoinReads(c))
       /\ WF_vars(ReceivesReady(c)) /\ WF_vars(ReceivesRehydrate(c))
       /\ WF_vars(ReceivesAccepted(c)) /\ WF_vars(ReceivesReceipt(c))
       /\ WF_vars(ReceivesRejected(c)) /\ WF_vars(Renders(c))
       /\ WF_vars(ServesRead(c)) /\ WF_vars(RetryFires(c)) /\ WF_vars(Handles(c))
       /\ WF_vars(\E h \in tab[c].reads : ReadReturns(c, h))
  /\ WF_vars(\E p \in sending : Publishes(p))

FairSpec == Spec /\ Fairness

-----------------------------------------------------------------------------
Point == [epoch : 0..MaxEpoch, seq : Nat]

HeadType == [epoch : 0..MaxEpoch, seq : Nat, doc : Seq(Batch), saved : Nat]

(* The type of the room's state.                                           *)
TypeOK ==
  /\ draft \in HeadType /\ checkpoints \in Seq(Seq(Batch))
  /\ receipts \in [Batch -> [seen : Point, at : Point]]
  /\ history \in Seq(Seq(Seq(Batch)))
  /\ DOMAIN tab = Client /\ late \subseteq Batch
  /\ \A c \in Client :
       /\ tab[c].link \in {"down", "joining", "open", "ready", "stopped"}
       /\ tab[c].conn \in 0..MaxConns /\ tab[c].asks \in 0..MaxAsks
       /\ {tab[c].head, tab[c].shown} \union tab[c].reads \union tab[c].saves \subseteq HeadType
       /\ tab[c].queue \in Seq(Batch) /\ tab[c].up \in Seq(Batch)
       /\ tab[c].flight \subseteq Batch /\ Cardinality(tab[c].flight) <= 1
       /\ tab[c].local \subseteq Batch /\ tab[c].posts \subseteq Point
       /\ tab[c].stamp \in [Batch -> Point] /\ tab[c].held \in [Batch -> Point]

(* The document a session holds is the one the server had at that epoch    *)
(* and sequence, however it was put together from snapshots and batches.   *)
HeadIsTrue ==
  \A c \in Client :
    LET h == tab[c].head
    IN h.epoch > 0 => /\ h.epoch <= Len(history) /\ h.seq < Len(history[h.epoch])
                      /\ h.doc = history[h.epoch][h.seq + 1]

(* A batch is folded into the document at most once, whatever is resent.   *)
AppliedOnce ==
  \A i, j \in DOMAIN draft.doc : draft.doc[i] = draft.doc[j] => i = j

(* A submission that resolves was committed; one the user is told was      *)
(* replaced or not queued never is.                                        *)
AnswersAreFinal ==
  \A c \in Client, b \in Batch :
    /\ tab[c].result[b] = "resolved" => Accepted(b)
    /\ tab[c].result[b] \in {"superseded", "full"} => ~Accepted(b)

(* A batch that was rejected can only be committed later by a handler that *)
(* still holds a copy from a broken socket: the tab itself never resends.  *)
RejectionStands ==
  [][\A c \in Client, b \in Batch :
       tab[c].result[b] = "rejected" /\ Accepted(b)' => Accepted(b) \/ b \in late]_vars

(* A retry is signed like the submission the server may have accepted, so  *)
(* no retry is refused as idempotency_mismatch.                            *)
RetriesMatch ==
  \A b \in Batch : Accepted(b) /\ Owner[b] \in Client =>
    receipts[b].seen = tab[Owner[b]].stamp[b]

(* A head that a session shows as saved is a checkpoint.                   *)
SavedIsSaved ==
  \A c \in Client : tab[c].head.epoch > 0 /\ tab[c].head.saved = tab[c].head.seq =>
    tab[c].head.doc \in Contents(checkpoints)

(* A paused drain has a head read under way that will end the pause.       *)
PauseIsBacked ==
  \A c \in Client : tab[c].link = "ready" /\ tab[c].paused =>
    tab[c].asks > 0 \/ tab[c].reads # {} \/ tab[c].retry

(* No frame, head read or publication is on its way to c.                  *)
Quiet(c) ==
  /\ tab[c].link = "ready" /\ tab[c].down = <<>> /\ sending = {}
  /\ tab[c].asks = 0 /\ tab[c].reads = {} /\ ~tab[c].retry

(* When nothing is on its way to a session, its head is the server's.      *)
QuietRoomConverges ==
  \A c \in Client : Quiet(c) => At(tab[c].head) = At(draft)

(* A restore discards no document that is not kept as a checkpoint, and no *)
(* checkpoint is ever rewritten.                                           *)
NoDraftLost ==
  [][/\ draft'.epoch # draft.epoch => draft.doc \in Contents(checkpoints)
     /\ \A i \in DOMAIN checkpoints : checkpoints'[i] = checkpoints[i]]_vars

(* A session's head never goes back to an older document of the Project.   *)
HeadMonotone ==
  [][\A c \in Client : tab'[c].head.epoch >= tab[c].head.epoch]_vars

(* A queued batch is answered in the end.                                  *)
Settles ==
  \A c \in Client, b \in Batch : tab[c].result[b] = "queued" ~> tab[c].result[b] # "queued"
=============================================================================
