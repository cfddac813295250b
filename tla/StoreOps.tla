------------------------------ MODULE StoreOps ------------------------------
(***************************************************************************)
(* The record operations of server/store.go as functions of the stored     *)
(* state, shared by Store (the server on its own) and Sync (the server as  *)
(* the clients meet it).                                                   *)
(*                                                                         *)
(* A store value is [seq, recs, stamp]: the global sequence, the envelope  *)
(* held at each id (None where there is none) and the sequence each was    *)
(* written at.  A batch maps each id to the envelope pushed, or None.      *)
(***************************************************************************)
EXTENDS Merge

CONSTANT Ids

EmptyMap == [id \in Ids |-> None]

SinceOffByOne(st, n) ==   \* mutant: the first write after n is left out
  [id \in Ids |-> IF st.recs[id] # None /\ st.stamp[id] > n + 1
                  THEN st.recs[id] ELSE None]

(* GET /records?since=n: everything written after n.                       *)
Since(st, n) == [id \in Ids |-> IF st.recs[id] # None /\ st.stamp[id] > n
                                THEN st.recs[id] ELSE None]

NeverRefuses(st, batch) == FALSE   \* mutant of either refusal

(* ErrBackward: equal revisions pass, so that a timed-out push is retried. *)
Backward(st, batch) ==
  \E id \in Ids : /\ batch[id] # None /\ st.recs[id] # None
                  /\ batch[id].rev < st.recs[id].rev

(* ErrResurrect: deletion is terminal per id.                              *)
Resurrects(st, batch) ==
  \E id \in Ids : Live(batch[id]) /\ Tombstone(st.recs[id])

(* An accepted batch takes one sequence number, however many records.      *)
Applied(st, batch) ==
  [seq   |-> st.seq + 1,
   recs  |-> [id \in Ids |-> IF batch[id] # None THEN batch[id]
                                                 ELSE st.recs[id]],
   stamp |-> [id \in Ids |-> IF batch[id] # None THEN st.seq + 1
                                                 ELSE st.stamp[id]]]

UncheckedStatus(st, batch, ifMatch) ==   \* mutant: no compare-and-swap
  IF Backward(st, batch) \/ Resurrects(st, batch) THEN 422 ELSE 200

(* The status code PUT /records answers with; ifMatch None is "unchecked". *)
PutStatus(st, batch, ifMatch) ==
  CASE ifMatch # None /\ ifMatch # st.seq                   -> 409
    [] (ifMatch = None \/ ifMatch = st.seq)
       /\ (Backward(st, batch) \/ Resurrects(st, batch))    -> 422
    [] OTHER                                                -> 200
=============================================================================
