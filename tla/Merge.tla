------------------------------- MODULE Merge -------------------------------
(***************************************************************************)
(* The three-way merge of src/core/merge.js, one record at a time.         *)
(*                                                                         *)
(* merge() is a pure function of the local envelope, the remote envelope   *)
(* and the revision both sides last agreed on (the "ancestor").  It never  *)
(* looks inside an envelope, and records do not influence one another, so  *)
(* the map-wide function is MergeOne applied at every id.                  *)
(*                                                                         *)
(* An envelope is [rev, deleted, body, seal].  `seal` stands for the pair  *)
(* <<n, ct>>: every call of sealRecord draws a fresh nonce, so two         *)
(* envelopes have equal bytes exactly when their seals are equal.  `body`  *)
(* is the plaintext under the seal; merge never reads it.                  *)
(***************************************************************************)
EXTENDS Integers

CONSTANT None   \* "no envelope" in a map, "no ancestor" in syncedRev

Envelope(Body, Seal) ==
  [rev : Nat \ {0}, deleted : BOOLEAN, body : Body, seal : Seal]

(* A record is live where its envelope exists and is not a tombstone.      *)
Live(e) == e # None /\ ~e.deleted
Tombstone(e) == e # None /\ e.deleted

(* Equal revisions do not imply equal content: the bytes decide.           *)
SameBytes(l, r) == l.seal = r.seal /\ l.deleted = r.deleted

-----------------------------------------------------------------------------
(***************************************************************************)
(* The six outcomes, each with the condition under which merge.js reaches  *)
(* it.  l and r are the two envelopes (both present in the last four), b   *)
(* is the ancestor revision or None.                                       *)
(***************************************************************************)
AgreedAsRemembered(l, r, b) ==   \* mutant: the same bytes are a conflict unless
  /\ b = l.rev                    \* the ancestor says so
  /\ r = None \/ (l.rev = r.rev /\ SameBytes(l, r))

Agreed(l, r, b) ==
  \/ r = None /\ b = l.rev
  \/ r # None /\ l.rev = r.rev /\ SameBytes(l, r)

OnlyLocal(l, r, b) == r = None /\ b # l.rev

(* A served revision below the ancestor is the server going backwards.     *)
RolledBack(l, r, b) == l.rev # r.rev /\ b # None /\ r.rev < b

(* Only the remote moved; never over a tombstone of ours.                  *)
RemoteAhead(l, r, b) ==
  /\ b # None /\ l.rev = b /\ r.rev > l.rev
  /\ ~l.deleted \/ r.deleted

(* Only we moved; a tombstone at the ancestor revision is not our ancestor.*)
LocalAhead(l, r, b) ==
  /\ l.rev # r.rev /\ b # None /\ r.rev = b
  /\ ~r.deleted \/ l.deleted

(* No ancestor and the remote strictly ahead: our own unconfirmed push,    *)
(* already built upon by somebody.                                         *)
Descendant(l, r, b) ==
  b = None /\ ~l.deleted /\ ~r.deleted /\ r.rev > l.rev

-----------------------------------------------------------------------------
(***************************************************************************)
(* What one record's merge yields: the envelope to keep, the ancestor to   *)
(* remember, the losing envelope to park (None when nothing lost), whether *)
(* the kept envelope goes up with the push, and whether this record was    *)
(* rolled back.                                                            *)
(***************************************************************************)
Outcome(env, synced, parked, push, rolledBack) ==
  [env |-> env, synced |-> synced, parked |-> parked,
   push |-> push, rolledBack |-> rolledBack]

DivergedSurvivorWins(l, r, b) ==     \* mutant: an edit beats a deletion
  CASE l.deleted /\ ~r.deleted      -> Outcome(r, r.rev, l, FALSE, FALSE)
    [] ~l.deleted \/ r.deleted      -> Outcome(l, b, r, TRUE, FALSE)

Diverged(l, r, b) ==
  CASE Descendant(l, r, b)        -> Outcome(r, r.rev, l, FALSE, FALSE)
    [] ~Descendant(l, r, b) /\ l.deleted
                                  -> Outcome(l, r.rev, r, TRUE, FALSE)
    [] ~l.deleted /\ r.deleted    -> Outcome(r, r.rev, l, FALSE, FALSE)
    [] OTHER                      -> Outcome(l, b, r, TRUE, FALSE)

AncestorLeftBehind(l, r, b) ==       \* mutant: adopts, and still remembers b
  CASE Agreed(l, r, b)            -> Outcome(l, r.rev, None, FALSE, FALSE)
    [] RolledBack(l, r, b)        -> Outcome(l, b, None, TRUE, TRUE)
    [] RemoteAhead(l, r, b)       -> Outcome(r, b, None, FALSE, FALSE)
    [] LocalAhead(l, r, b)        -> Outcome(l, b, None, TRUE, FALSE)
    [] OTHER                      -> Diverged(l, r, b)

BothPresent(l, r, b) ==
  CASE Agreed(l, r, b)            -> Outcome(l, r.rev, None, FALSE, FALSE)
    [] RolledBack(l, r, b)        -> Outcome(l, b, None, TRUE, TRUE)
    [] RemoteAhead(l, r, b)       -> Outcome(r, r.rev, None, FALSE, FALSE)
    [] LocalAhead(l, r, b)        -> Outcome(l, b, None, TRUE, FALSE)
    [] OTHER                      -> Diverged(l, r, b)

MergeOneRepushes(l, r, b) ==         \* mutant: "not in the delta" reads as new
  IF l # None /\ r = None THEN Outcome(l, b, None, TRUE, FALSE)
  ELSE IF l = None THEN Outcome(r, IF r = None THEN b ELSE r.rev, None, FALSE, FALSE)
  ELSE BothPresent(l, r, b)

MergeOneTrusting(l, r, b) ==         \* mutant: agreed as soon as it is sent
  IF l # None /\ r = None THEN Outcome(l, l.rev, None, b # l.rev, FALSE)
  ELSE IF l = None THEN Outcome(r, IF r = None THEN b ELSE r.rev, None, FALSE, FALSE)
  ELSE BothPresent(l, r, b)

MergeOne(l, r, b) ==
  CASE l = None /\ r = None       -> Outcome(None, b, None, FALSE, FALSE)
    [] l = None /\ r # None       -> Outcome(r, r.rev, None, FALSE, FALSE)
    [] l # None /\ r = None /\ Agreed(l, r, b)
                                  -> Outcome(l, l.rev, None, FALSE, FALSE)
    [] l # None /\ r = None /\ OnlyLocal(l, r, b)
                                  -> Outcome(l, b, None, TRUE, FALSE)
    [] OTHER                      -> BothPresent(l, r, b)

(* merge() over two maps, and confirmPushed(): the ancestor advances for   *)
(* exactly the records the server acknowledged.                            *)
MergeMaps(L, R, B) == [id \in DOMAIN L |-> MergeOne(L[id], R[id], B[id])]

ConfirmPushed(synced, pushed) ==
  [id \in DOMAIN synced |-> IF pushed[id] # None THEN pushed[id].rev
                                                 ELSE synced[id]]
=============================================================================
