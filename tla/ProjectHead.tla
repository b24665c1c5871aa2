---------------------------- MODULE ProjectHead ----------------------------
(***************************************************************************)
(* The collaborative head of one Project (application/collaboration.py):   *)
(* command batches accepted once each, checkpoints and their restore.      *)
(*                                                                         *)
(* Each operation is one step: authorize_workspace opens the transaction   *)
(* with the Workspace row locked (BEGIN IMMEDIATE on SQLite), so           *)
(* operations on one Project never overlap.  A document is the sequence of *)
(* the batches folded into it.                                             *)
(***************************************************************************)
EXTENDS Naturals, Sequences

CONSTANTS Batch,    \* command ids, each with its commands
          Exact,    \* batches that replace a whole document or presentation
          Clash,    \* <<b, x>>: x in the document makes b break a document rule
          Undo,     \* <<x, y>>: y in the document takes x back
          MaxEpoch  \* bound: how often the room is reopened, plus one

ASSUME BatchAssumption ==
  Exact \subseteq Batch /\ Clash \subseteq Batch \X Batch /\ Undo \subseteq Batch \X Batch
ASSUME MaxEpochAssumption == MaxEpoch \in Nat \ {0}

VARIABLES draft,        \* project_heads: epoch, sequence, document, checkpoint sequence
          receipts,     \* project_command_receipts: what was signed, and where it landed
          checkpoints,  \* project_checkpoints: the document of each revision
          history       \* history: the documents of each epoch, from sequence 0

headVars == <<draft, receipts, checkpoints, history>>

Contents(doc) == {doc[i] : i \in DOMAIN doc}

(* The room epoch and the collaboration sequence; epoch 0 is no head.      *)
At(h) == [epoch |-> h.epoch, seq |-> h.seq]

Nowhere == [epoch |-> 0, seq |-> 0]

NoHead == [epoch |-> 0, seq |-> 0, doc |-> <<>>, saved |-> 0]

NoReceipt == [seen |-> Nowhere, at |-> Nowhere]

Accepted(b) == receipts[b].at # Nowhere

HeadInit ==
  /\ draft = [epoch |-> 1, seq |-> 0, doc |-> <<>>, saved |-> 0]
  /\ receipts = [b \in Batch |-> NoReceipt]
  /\ checkpoints = << <<>> >>
  /\ history = << << <<>> >> >>

(* apply_project_commands breaks a rule of the document.                   *)
Refused(b, doc) ==
  \E x \in Contents(doc) : /\ <<b, x>> \in Clash
                           /\ \A y \in Contents(doc) : <<x, y>> \notin Undo

(* The head conflict of submit_commands.                                   *)
Moved(b, seen) ==
  \/ draft.epoch # seen.epoch
  \/ draft.seq < seen.seq
  \/ draft.seq > seen.seq /\ b \in Exact

(* submit_commands: the same promise was accepted before, and is replayed. *)
Replays(b, seen) == Accepted(b) /\ receipts[b].seen = seen

(* submit_commands: another promise under an accepted id, a head that has  *)
(* moved, or commands the document refuses.                                *)
Rejects(b, seen) ==
  IF Accepted(b) THEN receipts[b].seen # seen
                 ELSE Moved(b, seen) \/ Refused(b, draft.doc)

(* An acceptance that does not read the receipt again.                     *)
AcceptsAgain(b, seen) ==
  /\ ~Moved(b, seen) /\ ~Refused(b, draft.doc)
  /\ draft' = [draft EXCEPT !.seq = @ + 1, !.doc = Append(@, b)]
  /\ receipts' = [receipts EXCEPT ![b] = [seen |-> seen, at |-> At(draft')]]
  /\ history' = [history EXCEPT ![draft.epoch] = Append(@, draft'.doc)]
  /\ UNCHANGED checkpoints

(* submit_commands: the batch is folded and its receipt stored.            *)
Accepts(b, seen) ==
  /\ ~Accepted(b) /\ ~Moved(b, seen) /\ ~Refused(b, draft.doc)
  /\ draft' = [draft EXCEPT !.seq = @ + 1, !.doc = Append(@, b)]
  /\ receipts' = [receipts EXCEPT ![b] = [seen |-> seen, at |-> At(draft')]]
  /\ history' = [history EXCEPT ![draft.epoch] = Append(@, draft'.doc)]
  /\ UNCHANGED checkpoints

(* checkpoint: a head already level with its revision appends no copy.     *)
Saves ==
  /\ draft' = [draft EXCEPT !.saved = draft.seq]
  /\ checkpoints' = IF draft.saved = draft.seq
                      THEN checkpoints ELSE Append(checkpoints, draft.doc)
  /\ UNCHANGED <<receipts, history>>

(* A restore that does not ask whether the draft is saved.                 *)
RestoresOver(r) ==
  /\ draft.epoch < MaxEpoch
  /\ r \in 1..Len(checkpoints)
  /\ draft' = [epoch |-> draft.epoch + 1, seq |-> 0, doc |-> checkpoints[r], saved |-> 0]
  /\ checkpoints' = Append(checkpoints, checkpoints[r])
  /\ history' = Append(history, << checkpoints[r] >>)
  /\ UNCHANGED receipts

(* restore_checkpoint: the revision is written forward in a new epoch.     *)
Restores(r) ==
  /\ draft.epoch < MaxEpoch
  /\ draft.saved = draft.seq
  /\ r \in 1..Len(checkpoints)
  /\ draft' = [epoch |-> draft.epoch + 1, seq |-> 0, doc |-> checkpoints[r], saved |-> 0]
  /\ checkpoints' = Append(checkpoints, checkpoints[r])
  /\ history' = Append(history, << checkpoints[r] >>)
  /\ UNCHANGED receipts
=============================================================================
