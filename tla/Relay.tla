-------------------------------- MODULE Relay --------------------------------
(***************************************************************************)
(* The sync relay as the client sees it through core/api: one append-only  *)
(* log of envelopes for a workspace, ordered by a server-assigned seq, a   *)
(* restore epoch that a restore from backup advances, and one WebSocket    *)
(* subscription that announces the log's position (hello) and broadcasts   *)
(* committed envelopes (ops).  The relay's own code is not part of the     *)
(* repository: everything here is what the client's requests, responses    *)
(* and docstrings say of it.                                               *)
(*                                                                         *)
(* An envelope is a model value.  A set of envelopes that the client works *)
(* through in an order (a page, a chunk, a frame) is a function giving     *)
(* each envelope its rank in that order, 0 when it is not a member.        *)
(***************************************************************************)
EXTENDS Naturals, Sequences, FiniteSets

CONSTANTS
  Own,         \* envelopes this device may produce
  Foreign,     \* envelopes other devices may produce
  Bad,         \* own envelopes the relay rejects (a 4xx that is not auth)
  Dep,         \* the envelopes whose rows an envelope's applier requires
  MaxRestores  \* bound: how often the server is restored from backup

Env == Own \cup Foreign

ASSUME EnvAssumption ==
  /\ IsFiniteSet(Own) /\ IsFiniteSet(Foreign) /\ Own \cap Foreign = {}
  /\ Bad \subseteq Own
  /\ Dep \in [Env -> SUBSET Env]
  /\ MaxRestores \in Nat

Ranks == [Env -> Nat]
NoRanks == [e \in Env |-> 0]
Ranked(f) == {e \in Env : f[e] > 0}

\* The member a loop over f reaches next.
IsFirst(f, e) == e \in Ranked(f) /\ \A d \in Ranked(f) : f[e] <= f[d]

VARIABLES
  seq,      \* seq[e]: the position of e in the log, 0 when the relay lacks it
  latest,   \* the highest seq assigned
  epoch,    \* restore_epoch
  wsUp,     \* is the WebSocket subscription open
  frames    \* frames sent on it that the client has not received yet

relayVars == <<seq, latest, epoch, wsUp, frames>>

Frame == [type : {"hello"}, latest : Nat, epoch : Nat]
           \cup [type : {"ops"}, ranks : Ranks]

RelayTypeOK ==
  /\ seq \in Ranks
  /\ latest \in Nat
  /\ epoch \in Nat
  /\ wsUp \in BOOLEAN
  /\ frames \in Seq(Frame)

RelayInit ==
  /\ seq = NoRanks
  /\ latest = 0
  /\ epoch = 0
  /\ wsUp = FALSE
  /\ frames = << >>

Committed == Ranked(seq)

(***************************************************************************)
(* POST /catch-up: the envelopes with seq in after+1 .. after+limit.       *)
(***************************************************************************)
Page(after, limit) ==
  [e \in Env |-> IF after < seq[e] /\ seq[e] <= after + limit THEN seq[e] ELSE 0]

\* next_after_seq; 0 stands for None, the relay's answer to an empty page.
NextAfterSeq(after, limit) ==
  IF latest <= after THEN 0
  ELSE IF after + limit < latest THEN after + limit ELSE latest

HasMore(after, limit) == after + limit < latest

(***************************************************************************)
(* POST /batch with status 200: the envelopes of the batch the relay does  *)
(* not hold get the next seqs in batch order, duplicates are ignored, and  *)
(* subscribers receive what was committed.  A batch holding an envelope    *)
(* the relay rejects commits nothing.                                      *)
(***************************************************************************)
Accepts(batch) == Ranked(batch) \cap Bad = {}

CommitBatch(batch) ==
  LET new == Ranked(batch) \ Committed
      place(e) == Cardinality({d \in new : batch[d] <= batch[e]})
  IN /\ seq' = [e \in Env |-> IF e \in new THEN latest + place(e) ELSE seq[e]]
     /\ latest' = latest + Cardinality(new)
     /\ frames' = IF wsUp /\ new # {}
                    THEN Append(frames, [type |-> "ops",
                           ranks |-> [e \in Env |-> IF e \in new THEN seq'[e] ELSE 0]])
                    ELSE frames
     /\ UNCHANGED <<epoch, wsUp>>

\* Another device commits an envelope; it has seen what the envelope needs.
ForeignCommit(e) ==
  /\ e \in Foreign \ Committed
  /\ Dep[e] \subseteq Committed
  /\ seq' = [seq EXCEPT ![e] = latest + 1]
  /\ latest' = latest + 1
  /\ frames' = IF wsUp THEN Append(frames, [type |-> "ops",
                              ranks |-> [NoRanks EXCEPT ![e] = latest + 1]])
                       ELSE frames
  /\ UNCHANGED <<epoch, wsUp>>

(***************************************************************************)
(* The server is restored from a backup that holds the first n envelopes:  *)
(* the rest of the log is gone, its seqs will be assigned again, and open  *)
(* connections are closed.                                                 *)
(***************************************************************************)
RestoreBackup(n) ==
  /\ epoch < MaxRestores
  /\ n <= latest
  /\ seq' = [e \in Env |-> IF seq[e] <= n THEN seq[e] ELSE 0]
  /\ latest' = n
  /\ epoch' = epoch + 1
  /\ wsUp' = FALSE
  /\ frames' = << >>

\* A handshake succeeds: hello announces where the log stands.
OpenSocket ==
  /\ ~wsUp
  /\ wsUp' = TRUE
  /\ frames' = <<[type |-> "hello", latest |-> latest, epoch |-> epoch]>>
  /\ UNCHANGED <<seq, latest, epoch>>

\* The connection breaks: what was under way on it is lost.
DropSocket ==
  /\ wsUp' = FALSE
  /\ frames' = << >>
  /\ UNCHANGED <<seq, latest, epoch>>
=============================================================================
