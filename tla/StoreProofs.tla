---------------------------- MODULE StoreProofs -----------------------------
(***************************************************************************)
(* Store.tla, for every set of devices, records and headers, every bound   *)
(* and every mixture of faults.                                            *)
(*                                                                         *)
(* The argument: memory always follows the file (Ahead), a write that      *)
(* passes Put's checks follows memory, and "follows" is transitive; so     *)
(* each save moves the file forward, whatever was lost in between.         *)
(***************************************************************************)
EXTENDS Store, TLAPS

(* Memory is the file, or has moved forward from it.                       *)
Ahead ==
  /\ mem.seq >= disk.seq
  /\ \A id \in Ids : File!Follows(disk.recs[id], mem.recs[id])

Durability == TypeOK /\ Ahead /\ AckedDurable

-----------------------------------------------------------------------------
(* The order of the ledger: anything follows itself.                       *)
LEMMA FollowsReflexive ==
  ASSUME NEW e \in Envelopes \cup {None}
  PROVE  File!Follows(e, e)
BY DEF File!Follows, Envelopes, Envelope

(* The order of the ledger: what follows a follower follows.               *)
LEMMA FollowsTransitive ==
  ASSUME NEW d \in Envelopes \cup {None},
         NEW e \in Envelopes \cup {None},
         NEW f \in Envelopes \cup {None},
         File!Follows(d, e), File!Follows(e, f)
  PROVE  File!Follows(d, f)
BY DEF File!Follows, Envelopes, Envelope

(* What a device pushes is a batch of well-formed envelopes.               *)
LEMMA BatchType ==
  ASSUME NEW c \in Clients, NEW batch \in Batches(c)
  PROVE  batch \in Maps
<1>1. Pushable(c) \subseteq Envelopes
  BY MaxAssumption DEF Pushable, Envelopes, Envelope
<1> QED BY <1>1 DEF Batches, Maps

(* Overlaying two maps gives a map.                                        *)
LEMMA OverlayType ==
  ASSUME NEW map \in Maps, NEW batch \in Maps
  PROVE  Overlay(map, batch) \in Maps
BY DEF Overlay, Maps

(* A delta is a map of envelopes the store holds.                          *)
LEMMA SinceType ==
  ASSUME NEW d \in Data, NEW n \in Nat
  PROVE  Since(d, n) \in Maps
BY DEF Since, Data, Maps

(* A batch laid over the store: what each field of the result is.          *)
LEMMA WithBatchFields ==
  ASSUME NEW d \in Data, NEW batch \in Maps
  PROVE  /\ WithBatch(d, batch) \in Data
         /\ WithBatch(d, batch).seq = d.seq + 1
         /\ WithBatch(d, batch).meta = d.meta
         /\ WithBatch(d, batch).recs = Overlay(d.recs, batch)
         /\ \A id \in Ids : WithBatch(d, batch).stamp[id] =
              IF batch[id] # None THEN d.seq + 1 ELSE d.stamp[id]
<1> DEFINE st == Applied(d, batch)
<1>1. d = [seq |-> d.seq, recs |-> d.recs, stamp |-> d.stamp, meta |-> d.meta]
      /\ d.seq \in Nat /\ d.recs \in Maps /\ d.stamp \in [Ids -> Nat]
      /\ d.meta \in Headers \cup {None}
  BY DEF Data
<1>2. WithBatch(d, batch) = [seq |-> st.seq, recs |-> st.recs,
                             stamp |-> st.stamp, meta |-> d.meta]
  BY DEF WithBatch
<1>3. st.seq = d.seq + 1 /\ st.recs = Overlay(d.recs, batch)
  BY DEF Applied, Overlay
<1>4. \A id \in Ids :
        st.stamp[id] = IF batch[id] # None THEN d.seq + 1 ELSE d.stamp[id]
  BY DEF Applied
<1>5. st.stamp \in [Ids -> Nat]
  BY <1>1 DEF Applied
<1>6. st.recs \in Maps
  BY <1>1, <1>3, OverlayType
<1> HIDE DEF st
<1> QED BY <1>1, <1>2, <1>3, <1>4, <1>5, <1>6 DEF Data

(* A header laid over the store changes the header and the sequence.       *)
LEMMA WithMetaFields ==
  ASSUME NEW d \in Data, NEW meta \in Headers
  PROVE  /\ WithMeta(d, meta) \in Data
         /\ WithMeta(d, meta).seq = d.seq + 1
         /\ WithMeta(d, meta).meta = meta
         /\ WithMeta(d, meta).recs = d.recs
         /\ WithMeta(d, meta).stamp = d.stamp
BY DEF WithMeta, Data

(* A batch Put accepts follows, record by record, what the store held:     *)
(* the two refusals of store.go 243-258 are what this takes.               *)
LEMMA AcceptedFollows ==
  ASSUME NEW d \in Data, NEW batch \in Maps, NEW ifMatch,
         PutStatus(d, batch, ifMatch) = 200
  PROVE  \A id \in Ids : File!Follows(d.recs[id], Overlay(d.recs, batch)[id])
<1>1. ~Backward(d, batch) /\ ~Resurrects(d, batch)
  BY DEF PutStatus
<1>2. SUFFICES ASSUME NEW id \in Ids
               PROVE  File!Follows(d.recs[id], Overlay(d.recs, batch)[id])
  OBVIOUS
<1>3. d.recs[id] \in Envelopes \cup {None} /\ batch[id] \in Envelopes \cup {None}
  BY DEF Data, Maps
<1>4. CASE batch[id] = None
  BY <1>3, <1>4, FollowsReflexive DEF Overlay
<1>5. CASE batch[id] # None
  <2>1. d.recs[id] # None => batch[id].rev >= d.recs[id].rev
    BY <1>1, <1>3, <1>5 DEF Backward, Envelopes, Envelope
  <2>2. d.recs[id] # None /\ d.recs[id].deleted => batch[id].deleted
    BY <1>1, <1>3, <1>5 DEF Resurrects, Live, Tombstone, Envelopes, Envelope
  <2> QED BY <1>5, <2>1, <2>2 DEF Overlay, File!Follows
<1> QED BY <1>4, <1>5

-----------------------------------------------------------------------------
(* Every write, accepted: memory becomes a well-formed successor of itself.*)
Successor(d, e) ==
  /\ e \in Data /\ e.seq = d.seq + 1
  /\ \A id \in Ids : File!Follows(d.recs[id], e.recs[id])

(* A batch Put accepted makes a successor of what the store held.          *)
LEMMA BatchSucceeds ==
  ASSUME NEW d \in Data, NEW batch \in Maps, NEW ifMatch,
         PutStatus(d, batch, ifMatch) = 200
  PROVE  Successor(d, WithBatch(d, batch))
BY WithBatchFields, AcceptedFollows DEF Successor

(* So does a header.                                                       *)
LEMMA MetaSucceeds ==
  ASSUME NEW d \in Data, NEW meta \in Headers
  PROVE  Successor(d, WithMeta(d, meta))
<1>1. \A id \in Ids : d.recs[id] \in Envelopes \cup {None}
  BY DEF Data, Maps
<1> QED BY <1>1, WithMetaFields, FollowsReflexive DEF Successor

(* The three ways a write ends: saved and acknowledged, saved and refused  *)
(* by the snapshot, or not saved.                                          *)
Ends(d) ==
  /\ Successor(mem, d) /\ mem' = d
  /\ \/ disk' = d
     \/ UNCHANGED disk /\ UNCHANGED acked
  /\ \/ UNCHANGED acked
     \/ /\ disk' = d /\ acked'.seq = d.seq
        /\ \A id \in Ids : \/ acked'.recs[id] = acked.recs[id]
                           \/ acked'.recs[id] = d.recs[id]

(* A record write ends in one of them.                                     *)
LEMMA PutRecordsEnds ==
  ASSUME TypeOK, NEW c \in Clients, NEW batch \in Batches(c), NEW ifMatch,
         PutRecords(c, batch, ifMatch)
  PROVE  \E d \in Data : Ends(d)
<1> DEFINE d == WithBatch(mem, batch)
<1>1. batch \in Maps /\ mem \in Data
  BY BatchType DEF TypeOK
<1>2. Successor(mem, d)
  BY <1>1, BatchSucceeds DEF PutRecords
<1>3. CASE Saved(d) /\ acked' = [seq |-> d.seq, recs |-> Overlay(acked.recs, batch)]
  <2>1. d.recs = Overlay(mem.recs, batch) /\ acked'.recs = Overlay(acked.recs, batch)
    BY <1>1, <1>3, WithBatchFields
  <2>2. \A id \in Ids : \/ acked'.recs[id] = acked.recs[id]
                        \/ acked'.recs[id] = d.recs[id]
    BY <2>1 DEF Overlay
  <2>3. acked'.seq = d.seq
    BY <1>3
  <2> HIDE DEF d
  <2> QED BY <1>2, <1>3, <2>2, <2>3 DEF Ends, Saved, Successor
<1>4. CASE (SaveFailed(d) \/ SnapFailed(d)) /\ UNCHANGED acked
  BY <1>2, <1>4 DEF Ends, SaveFailed, SnapFailed, Successor
<1> QED BY <1>3, <1>4 DEF PutRecords

(* So does a header write.                                                 *)
LEMMA PutMetaEnds ==
  ASSUME TypeOK, NEW c \in Clients, NEW meta \in Headers, NEW ifMatch,
         PutMeta(c, meta, ifMatch)
  PROVE  \E d \in Data : Ends(d)
<1> DEFINE d == WithMeta(mem, meta)
<1>1. Successor(mem, d)
  BY MetaSucceeds DEF TypeOK
<1>2. CASE Saved(d) /\ acked' = [acked EXCEPT !.seq = d.seq]
  BY <1>1, <1>2 DEF Ends, Saved, Successor, TypeOK
<1>3. CASE (SaveFailed(d) \/ SnapFailed(d)) /\ UNCHANGED acked
  BY <1>1, <1>3 DEF Ends, SaveFailed, SnapFailed, Successor
<1> QED BY <1>2, <1>3 DEF PutMeta

-----------------------------------------------------------------------------
(* The variables keep their types.                                         *)
THEOREM TypeCorrect == Spec => []TypeOK
<1>1. Init => TypeOK
  <2> SUFFICES ASSUME Init PROVE TypeOK
    OBVIOUS
  <2> QED BY DEF Init, TypeOK, Empty, EmptyMap, Data, Maps
<1>2. TypeOK /\ [Next]_vars => TypeOK'
  <2> SUFFICES ASSUME TypeOK, [Next]_vars PROVE TypeOK'
    OBVIOUS
  <2>1. ASSUME NEW c \in Clients, GetRecords(c) PROVE TypeOK'
    <3>1. view[c].seq \in Nat /\ view[c].recs \in Maps /\ mem \in Data
      BY DEF TypeOK
    <3>2. Overlay(view[c].recs, Since(mem, view[c].seq)) \in Maps
      BY <3>1, SinceType, OverlayType
    <3>3. mem.seq \in Nat
      BY <3>1 DEF Data
    <3> QED BY <2>1, <3>2, <3>3 DEF TypeOK, GetRecords
  <2>2. ASSUME NEW c \in Clients, GetMeta(c) PROVE TypeOK'
    BY <2>2 DEF TypeOK, GetMeta, Data
  <2>3. ASSUME NEW c \in Clients, NEW kind \in {"records", "meta"}, Gate(c, kind)
        PROVE  TypeOK'
    BY <2>3 DEF TypeOK, Gate
  <2>4. ASSUME NEW c \in Clients, NEW batch \in Batches(c), NEW ifMatch,
               PutRecords(c, batch, ifMatch)
        PROVE  /\ mem' \in Data /\ disk' \in Data /\ head' = head
               /\ view' \in [Clients -> [seq : Nat, recs : Maps]]
               /\ acked' \in [seq : Nat, recs : Maps]
    <3> DEFINE d == WithBatch(mem, batch)
    <3>1. batch \in Maps /\ mem \in Data /\ disk \in Data
      BY BatchType DEF TypeOK
    <3>2. d \in Data /\ d.seq \in Nat
      BY <3>1, WithBatchFields DEF Data
    <3>3. view[c].recs \in Maps /\ acked.recs \in Maps
      BY DEF TypeOK
    <3>4. /\ Overlay(view[c].recs, batch) \in Maps
          /\ Overlay(acked.recs, batch) \in Maps
      BY <3>1, <3>3, OverlayType
    <3>5. /\ mem' = d /\ disk' \in {disk, d} /\ head' = head
          /\ \/ view' = [view EXCEPT ![c] =
                    [seq |-> d.seq, recs |-> Overlay(@.recs, batch)]]
             \/ view' = view
          /\ \/ acked' = [seq |-> d.seq, recs |-> Overlay(acked.recs, batch)]
             \/ acked' = acked
      BY <2>4 DEF PutRecords, Saved, SaveFailed, SnapFailed
    <3> HIDE DEF d
    <3>6. view' \in [Clients -> [seq : Nat, recs : Maps]]
      <4>1. view \in [Clients -> [seq : Nat, recs : Maps]]
        BY DEF TypeOK
      <4>2. [seq |-> d.seq, recs |-> Overlay(view[c].recs, batch)]
              \in [seq : Nat, recs : Maps]
        BY <3>2, <3>4
      <4> QED BY <3>5, <4>1, <4>2
    <3>7. acked' \in [seq : Nat, recs : Maps]
      BY <3>2, <3>4, <3>5 DEF TypeOK
    <3> QED BY <3>1, <3>2, <3>5, <3>6, <3>7
  <2>5. ASSUME NEW c \in Clients, NEW meta \in Headers, NEW ifMatch,
               PutMeta(c, meta, ifMatch)
        PROVE  /\ mem' \in Data /\ disk' \in Data /\ UNCHANGED <<view, head>>
               /\ acked' \in [seq : Nat, recs : Maps]
    <3> DEFINE d == WithMeta(mem, meta)
    <3>1. d \in Data /\ d.seq \in Nat
      BY WithMetaFields DEF TypeOK, Data
    <3>2. /\ mem' = d /\ disk' \in {disk, d} /\ UNCHANGED <<view, head>>
          /\ acked' = [acked EXCEPT !.seq = d.seq] \/ acked' = acked
      BY <2>5 DEF PutMeta, Saved, SaveFailed, SnapFailed
    <3> HIDE DEF d
    <3> QED BY <3>1, <3>2 DEF TypeOK
  <2>6. ASSUME NEW c \in Clients, PutChecked(c) PROVE TypeOK'
    BY <2>4, <2>6 DEF PutChecked, TypeOK
  <2>7. ASSUME NEW c \in Clients, PutUnchecked(c) PROVE TypeOK'
    BY <2>4, <2>7 DEF PutUnchecked, TypeOK
  <2>8. ASSUME NEW c \in Clients, PutMetaChecked(c) PROVE TypeOK'
    BY <2>5, <2>8 DEF PutMetaChecked, TypeOK
  <2>9. ASSUME NEW c \in Clients, PutMetaUnchecked(c) PROVE TypeOK'
    BY <2>5, <2>9 DEF PutMetaUnchecked, TypeOK
  <2>10. CASE Restart
    BY <2>10 DEF TypeOK, Restart
  <2>11. CASE UNCHANGED vars
    BY <2>11 DEF TypeOK, vars
  <2> QED BY <2>1, <2>2, <2>3, <2>6, <2>7, <2>8, <2>9, <2>10, <2>11 DEF Next
<1> QED BY <1>1, <1>2, PTL DEF Spec

-----------------------------------------------------------------------------
(* A step of the store, as far as memory, file and acknowledgements go.    *)
LEMMA StepKinds ==
  ASSUME TypeOK, [Next]_vars
  PROVE  \/ UNCHANGED <<mem, disk, acked>>
         \/ mem' = disk /\ UNCHANGED <<disk, acked>>
         \/ \E d \in Data : Ends(d)
<1>1. ASSUME NEW c \in Clients,
             GetRecords(c) \/ GetMeta(c) \/ \E k \in {"records", "meta"} : Gate(c, k)
      PROVE  UNCHANGED <<mem, disk, acked>>
  BY <1>1 DEF GetRecords, GetMeta, Gate
<1>2. ASSUME NEW c \in Clients, PutChecked(c) \/ PutUnchecked(c)
      PROVE  \E d \in Data : Ends(d)
  BY <1>2, PutRecordsEnds DEF PutChecked, PutUnchecked
<1>3. ASSUME NEW c \in Clients, PutMetaChecked(c) \/ PutMetaUnchecked(c)
      PROVE  \E d \in Data : Ends(d)
  BY <1>3, PutMetaEnds DEF PutMetaChecked, PutMetaUnchecked
<1>4. CASE Restart
  BY <1>4 DEF Restart
<1>5. CASE UNCHANGED vars
  BY <1>5 DEF vars
<1> QED BY <1>1, <1>2, <1>3, <1>4, <1>5 DEF Next

(* What memory, file and acknowledgements look like at one id.             *)
LEMMA Values ==
  ASSUME TypeOK, NEW id \in Ids
  PROVE  /\ mem.recs[id] \in Envelopes \cup {None}
         /\ disk.recs[id] \in Envelopes \cup {None}
         /\ acked.recs[id] \in Envelopes \cup {None}
         /\ mem.seq \in Nat /\ disk.seq \in Nat /\ acked.seq \in Nat
BY DEF TypeOK, Data, Maps

(* A write, however it ends, keeps memory ahead of the file and the file   *)
(* ahead of what was acknowledged.                                         *)
LEMMA EndsDurably ==
  ASSUME Durability, NEW d \in Data, Ends(d), TypeOK'
  PROVE  (Ahead /\ AckedDurable)'
<1>1. TypeOK /\ Ahead /\ AckedDurable
  BY DEF Durability
<1>2. mem' = d /\ d.seq = mem.seq + 1 /\ d.seq \in Nat
  BY DEF Ends, Successor, Data
<1>3. d.seq > disk.seq /\ d.seq > acked.seq /\ disk.seq \in Nat
  BY <1>1, <1>2 DEF Ahead, AckedDurable, TypeOK, Data
<1>4. ASSUME NEW id \in Ids
      PROVE  /\ File!Follows(disk.recs[id], d.recs[id])
             /\ File!Follows(acked.recs[id], d.recs[id])
             /\ File!Follows(d.recs[id], d.recs[id])
  <2>1. d.recs[id] \in Envelopes \cup {None}
    BY DEF Data, Maps
  <2>2. File!Follows(mem.recs[id], d.recs[id])
    BY DEF Ends, Successor
  <2>3. File!Follows(disk.recs[id], mem.recs[id])
    BY <1>1 DEF Ahead
  <2>4. File!Follows(acked.recs[id], disk.recs[id])
    BY <1>1 DEF AckedDurable
  <2> QED BY <1>1, <2>1, <2>2, <2>3, <2>4, Values, FollowsTransitive, FollowsReflexive
<1>5. Ahead'
  BY <1>1, <1>2, <1>3, <1>4 DEF Ahead, Ends
<1>6. AckedDurable'
  <2>1. CASE disk' = d /\ UNCHANGED acked
    <3>1. acked'.seq \in Nat /\ disk'.seq > acked'.seq
      BY <1>1, <1>3, <2>1 DEF TypeOK
    <3>2. disk'.seq >= acked'.seq
      BY <1>2, <2>1, <3>1
    <3> QED BY <1>4, <2>1, <3>2 DEF AckedDurable
  <2>2. CASE UNCHANGED <<disk, acked>>
    BY <1>1, <2>2 DEF AckedDurable
  <2>3. CASE /\ disk' = d /\ acked'.seq = d.seq
             /\ \A id \in Ids : \/ acked'.recs[id] = acked.recs[id]
                                \/ acked'.recs[id] = d.recs[id]
    BY <1>2, <1>4, <2>3 DEF AckedDurable
  <2> QED BY <2>1, <2>2, <2>3 DEF Ends
<1> QED BY <1>5, <1>6

(* The inductive invariant: types, memory ahead of the file, and the file  *)
(* ahead of every acknowledgement.                                         *)
THEOREM DurabilityInvariant == Spec => []Durability
<1>1. Init => Durability
  <2> SUFFICES ASSUME Init PROVE Durability
    OBVIOUS
  <2>1. TypeOK
    BY DEF Init, TypeOK, Empty, EmptyMap, Data, Maps
  <2> QED BY <2>1 DEF Init, Durability, Ahead, AckedDurable, Empty, EmptyMap,
                      File!Follows
<1>2. Durability /\ TypeOK' /\ [Next]_vars => Durability'
  <2> SUFFICES ASSUME Durability, TypeOK', [Next]_vars
               PROVE  (Ahead /\ AckedDurable)'
    BY DEF Durability
  <2>1. CASE UNCHANGED <<mem, disk, acked>>
    BY <2>1 DEF Durability, Ahead, AckedDurable
  <2>2. CASE mem' = disk /\ UNCHANGED <<disk, acked>>
    <3>1. \A id \in Ids : File!Follows(disk.recs[id], disk.recs[id])
      BY Values, FollowsReflexive DEF Durability
    <3> QED BY <2>2, <3>1 DEF Durability, Ahead, AckedDurable, TypeOK, Data
  <2>3. CASE \E d \in Data : Ends(d)
    BY <2>3, EndsDurably
  <2> QED BY <2>1, <2>2, <2>3, StepKinds DEF Durability
<1> QED BY <1>1, <1>2, TypeCorrect, PTL DEF Spec

(* A 200 is a promise kept through failed saves, failed snapshots and      *)
(* restarts.                                                               *)
THEOREM AcknowledgedIsDurable == Spec => []AckedDurable
BY DurabilityInvariant, PTL DEF Durability

(* The file implements the abstract ledger: it only ever moves forward.    *)
THEOREM FileImplementsLedger == Spec => FileIsLedger
<1>1. Init => disk = File!Blank
  BY DEF Init, Empty, EmptyMap, File!Blank
<1>2. Durability /\ [Next]_vars => [File!Advance]_disk
  <2> SUFFICES ASSUME Durability, [Next]_vars, disk' # disk PROVE File!Advance
    OBVIOUS
  <2>1. PICK d \in Data : Ends(d) /\ disk' = d
    BY StepKinds DEF Durability, Ends
  <2>2. d.seq > disk.seq
    BY <2>1 DEF Durability, TypeOK, Ahead, Ends, Successor, Data
  <2>3. ASSUME NEW id \in Ids PROVE File!Follows(disk.recs[id], d.recs[id])
    <3>1. d.recs[id] \in Envelopes \cup {None}
      BY DEF Data, Maps
    <3>2. /\ File!Follows(disk.recs[id], mem.recs[id])
          /\ File!Follows(mem.recs[id], d.recs[id])
      BY <2>1 DEF Durability, Ahead, Ends, Successor
    <3> QED BY <3>1, <3>2, Values, FollowsTransitive DEF Durability
  <2> QED BY <2>1, <2>2, <2>3 DEF File!Advance
<1> QED BY <1>1, <1>2, DurabilityInvariant, PTL DEF Spec, FileIsLedger, File!LedgerSpec

-----------------------------------------------------------------------------
(***************************************************************************)
(* Deltas and compare-and-swap.  Until a restart forgets a write whose     *)
(* save had failed, or a write without If-Match lands on a store that is   *)
(* no longer empty, a sequence number names one content only; that is what *)
(* a delta and a compare-and-swap rely on.                                 *)
(***************************************************************************)
(* The stamps a delta is cut by: none is ahead of the sequence, and only   *)
(* an id that was written has one.                                         *)
Stamped ==
  \A id \in Ids : /\ mem.stamp[id] <= mem.seq
                  /\ mem.recs[id] = None => mem.stamp[id] = 0

(* A header read at the current sequence is the current header.            *)
HeadCurrent ==
  \A c \in Clients : /\ head[c].seq <= mem.seq
                     /\ head[c].seq = mem.seq => head[c].meta = mem.meta

InStep  == TypeOK /\ ~lapsed /\ Stamped /\ HeadCurrent /\ CaughtUp
Unlapsed == TypeOK /\ (~lapsed => InStep)

(* "Unchecked" is no sequence number.                                      *)
LEMMA NoneIsNoNumber == \A n \in Nat : n # None
BY NoneAssumption

(* A delta brings a device level with the store.                           *)
LEMMA DeltaSuffices ==
  ASSUME InStep, NEW c \in Clients
  PROVE  Overlay(view[c].recs, Since(mem, view[c].seq)) = mem.recs
<1>1. view[c].recs \in Maps /\ mem.recs \in Maps /\ view[c].seq \in Nat
  BY DEF InStep, TypeOK, Data
<1>2. ASSUME NEW id \in Ids
      PROVE  Overlay(view[c].recs, Since(mem, view[c].seq))[id] = mem.recs[id]
  <2>1. \/ view[c].recs[id] = mem.recs[id]
        \/ mem.stamp[id] > view[c].seq /\ mem.recs[id] # None
    BY <1>1 DEF InStep, CaughtUp, Stamped
  <2>2. Overlay(view[c].recs, Since(mem, view[c].seq))[id] =
          IF mem.recs[id] # None /\ mem.stamp[id] > view[c].seq
          THEN mem.recs[id] ELSE view[c].recs[id]
    BY DEF Overlay, Since
  <2> QED BY <2>1, <2>2
<1> QED BY <1>1, <1>2 DEF Overlay, Maps

(* An accepted write that carried its author's sequence, or met the empty  *)
(* store: the author's records were the store's.                           *)
LEMMA WriteSighted ==
  ASSUME InStep, NEW c \in Clients, NEW batch \in Batches(c), NEW ifMatch,
         ifMatch = view[c].seq \/ mem.seq = 0, PutRecords(c, batch, ifMatch)
  PROVE  view[c].recs = mem.recs
<1>1. view[c].seq = mem.seq
  <2>1. CASE ifMatch = view[c].seq
    <3>1. view[c].seq # None
      BY NoneIsNoNumber DEF InStep, TypeOK
    <3> QED BY <2>1, <3>1 DEF PutRecords, PutStatus
  <2>2. CASE mem.seq = 0
    BY <2>2 DEF InStep, CaughtUp, TypeOK
  <2> QED BY <2>1, <2>2
<1>2. ASSUME NEW id \in Ids PROVE view[c].recs[id] = mem.recs[id]
  <2>1. mem.stamp[id] \in Nat /\ mem.seq \in Nat /\ mem.stamp[id] <= mem.seq
    BY DEF InStep, TypeOK, Data, Stamped
  <2> QED BY <1>1, <2>1 DEF InStep, CaughtUp
<1> QED BY <1>2 DEF InStep, TypeOK, Data, Maps

(* ... and every device's next delta stays sufficient.                     *)
LEMMA WriteInStep ==
  ASSUME InStep, TypeOK', ~lapsed', NEW c \in Clients, NEW batch \in Batches(c),
         NEW ifMatch, ifMatch = view[c].seq \/ mem.seq = 0,
         PutRecords(c, batch, ifMatch)
  PROVE  InStep'
<1> DEFINE d == WithBatch(mem, batch)
<1>1. view[c].recs = mem.recs /\ batch \in Maps
  BY WriteSighted, BatchType
<1>2. /\ mem' = d /\ head' = head
      /\ \/ view' = [view EXCEPT ![c] =
                [seq |-> d.seq, recs |-> Overlay(@.recs, batch)]]
         \/ view' = view
  BY DEF PutRecords, Saved, SaveFailed, SnapFailed
<1>3. /\ mem.seq \in Nat /\ d.seq = mem.seq + 1
      /\ d.recs = Overlay(mem.recs, batch) /\ d.meta = mem.meta
      /\ \A id \in Ids : d.stamp[id] = IF batch[id] # None THEN d.seq ELSE mem.stamp[id]
  BY <1>1, WithBatchFields DEF InStep, TypeOK, Data
<1>4. \A id \in Ids : d.recs[id] = IF batch[id] # None THEN batch[id] ELSE mem.recs[id]
  BY <1>3 DEF Overlay
<1>5. \A id \in Ids : mem.stamp[id] \in Nat
  BY DEF InStep, TypeOK, Data
<1> HIDE DEF d
<1>6. Stamped'
  BY <1>2, <1>3, <1>4, <1>5 DEF InStep, Stamped
<1>7. HeadCurrent'
  <2>1. \A k \in Clients : head[k].seq \in Nat /\ head[k].seq <= mem.seq
    BY DEF InStep, TypeOK, HeadCurrent
  <2> QED BY <1>2, <1>3, <2>1 DEF HeadCurrent
<1>8. CaughtUp'
  <2> SUFFICES ASSUME NEW k \in Clients
               PROVE  /\ view'[k].seq <= mem'.seq
                      /\ \A id \in Ids : \/ view'[k].recs[id] = mem'.recs[id]
                                         \/ mem'.stamp[id] > view'[k].seq
    BY DEF CaughtUp
  <2>1. view[k].seq \in Nat /\ view[k].seq <= mem.seq
    BY DEF InStep, TypeOK, CaughtUp
  <2>2. CASE view'[k] = view[k]
    BY <1>2, <1>3, <1>4, <1>5, <2>1, <2>2 DEF InStep, CaughtUp
  <2>3. CASE view'[k] = [seq |-> d.seq, recs |-> Overlay(view[c].recs, batch)]
    BY <1>1, <1>2, <1>3, <2>3
  <2>4. view \in [Clients -> [seq : Nat, recs : Maps]]
    BY DEF InStep, TypeOK
  <2> QED BY <1>2, <2>2, <2>3, <2>4
<1> QED BY <1>6, <1>7, <1>8 DEF InStep

(* The same of a header write.                                             *)
LEMMA MetaWriteInStep ==
  ASSUME InStep, TypeOK', ~lapsed', NEW c \in Clients, NEW meta \in Headers,
         NEW ifMatch, ifMatch = head[c].seq \/ mem.seq = 0,
         PutMeta(c, meta, ifMatch)
  PROVE  InStep' /\ head[c].meta = mem.meta
<1> DEFINE d == WithMeta(mem, meta)
<1>2. mem' = d /\ UNCHANGED <<view, head>>
  BY DEF PutMeta, Saved, SaveFailed, SnapFailed
<1>3. /\ mem.seq \in Nat /\ d.seq = mem.seq + 1
      /\ d.recs = mem.recs /\ d.stamp = mem.stamp
  BY WithMetaFields DEF InStep, TypeOK, Data
<1>4. head[c].seq = mem.seq
  <2>1. CASE ifMatch = head[c].seq
    <3>1. head[c].seq # None
      BY NoneIsNoNumber DEF InStep, TypeOK
    <3> QED BY <2>1, <3>1 DEF PutMeta
  <2>2. CASE mem.seq = 0
    BY <2>2 DEF InStep, HeadCurrent, TypeOK
  <2> QED BY <2>1, <2>2
<1>5. \A k \in Clients : /\ head[k].seq \in Nat /\ head[k].seq <= mem.seq
                         /\ view[k].seq \in Nat /\ view[k].seq <= mem.seq
  BY DEF InStep, TypeOK, HeadCurrent, CaughtUp
<1>6. \A id \in Ids : mem.stamp[id] \in Nat
  BY DEF InStep, TypeOK, Data
<1> HIDE DEF d
<1>7. Stamped' /\ HeadCurrent'
  BY <1>2, <1>3, <1>5, <1>6 DEF InStep, Stamped, HeadCurrent
<1>8. CaughtUp'
  BY <1>2, <1>3, <1>5 DEF InStep, CaughtUp
<1> QED BY <1>4, <1>7, <1>8 DEF InStep, HeadCurrent

(* What a record write that leaves lapsed false was sent with.             *)
LEMMA RecordWrites ==
  ASSUME TypeOK, ~lapsed', NEW c \in Clients, PutChecked(c) \/ PutUnchecked(c)
  PROVE  \E batch \in Batches(c), ifMatch \in {None, view[c].seq} :
           /\ ifMatch = view[c].seq \/ mem.seq = 0
           /\ PutRecords(c, batch, ifMatch)
BY DEF PutChecked, PutUnchecked

(* ... and a header write.                                                 *)
LEMMA MetaWrites ==
  ASSUME TypeOK, ~lapsed', NEW c \in Clients, PutMetaChecked(c) \/ PutMetaUnchecked(c)
  PROVE  \E meta \in Headers, ifMatch \in {None, head[c].seq} :
           /\ ifMatch = head[c].seq \/ mem.seq = 0
           /\ PutMeta(c, meta, ifMatch)
BY DEF PutMetaChecked, PutMetaUnchecked

(* Every step, as long as it lets nothing lapse.                           *)
LEMMA InStepStep ==
  ASSUME InStep, TypeOK', ~lapsed', [Next]_vars
  PROVE  InStep'
<1>1. ASSUME NEW c \in Clients, GetRecords(c) PROVE InStep'
  <2>1. view' = [view EXCEPT ![c] = [seq |-> mem.seq, recs |-> mem.recs]]
    BY <1>1, DeltaSuffices DEF GetRecords
  <2>2. CaughtUp'
    BY <1>1, <2>1 DEF GetRecords, InStep, CaughtUp, TypeOK, Data
  <2> QED BY <1>1, <2>2 DEF GetRecords, InStep, Stamped, HeadCurrent
<1>2. ASSUME NEW c \in Clients, GetMeta(c) PROVE InStep'
  <2>1. HeadCurrent'
    BY <1>2 DEF GetMeta, InStep, HeadCurrent, TypeOK, Data
  <2> QED BY <1>2, <2>1 DEF GetMeta, InStep, Stamped, CaughtUp
<1>3. ASSUME NEW c \in Clients, NEW kind \in {"records", "meta"}, Gate(c, kind)
      PROVE  InStep'
  BY <1>3 DEF Gate, InStep, Stamped, HeadCurrent, CaughtUp
<1>4. ASSUME NEW c \in Clients, PutChecked(c) \/ PutUnchecked(c) PROVE InStep'
  BY <1>4, RecordWrites, WriteInStep DEF InStep
<1>5. ASSUME NEW c \in Clients, PutMetaChecked(c) \/ PutMetaUnchecked(c)
      PROVE  InStep'
  BY <1>5, MetaWrites, MetaWriteInStep DEF InStep
<1>6. CASE Restart
  BY <1>6 DEF Restart, InStep, Stamped, HeadCurrent, CaughtUp
<1>7. CASE UNCHANGED vars
  BY <1>7 DEF vars, InStep, Stamped, HeadCurrent, CaughtUp
<1> QED BY <1>1, <1>2, <1>3, <1>4, <1>5, <1>6, <1>7 DEF Next

(* Nothing unlapses.                                                       *)
LEMMA LapsedForGood ==
  ASSUME TypeOK, [Next]_vars, lapsed
  PROVE  lapsed'
<1>1. ASSUME NEW c \in Clients,
             GetRecords(c) \/ GetMeta(c) \/ PutChecked(c) \/ PutMetaChecked(c)
               \/ \E k \in {"records", "meta"} : Gate(c, k)
      PROVE  lapsed'
  BY <1>1 DEF GetRecords, GetMeta, Gate, PutChecked, PutMetaChecked
<1>2. ASSUME NEW c \in Clients, PutUnchecked(c) \/ PutMetaUnchecked(c)
      PROVE  lapsed'
  BY <1>2 DEF PutUnchecked, PutMetaUnchecked
<1>3. CASE Restart
  BY <1>3 DEF Restart
<1> QED BY <1>1, <1>2, <1>3 DEF Next, vars

(* The inductive invariant behind deltas and compare-and-swap.             *)
THEOREM UnlapsedInvariant == Spec => []Unlapsed
<1>1. Init => Unlapsed
  <2> SUFFICES ASSUME Init PROVE Unlapsed
    OBVIOUS
  <2>1. TypeOK
    BY DEF Init, TypeOK, Empty, EmptyMap, Data, Maps
  <2> QED BY <2>1 DEF Init, Unlapsed, InStep, Stamped, HeadCurrent, CaughtUp,
                      Empty, EmptyMap
<1>2. Unlapsed /\ TypeOK' /\ [Next]_vars => Unlapsed'
  BY InStepStep, LapsedForGood DEF Unlapsed
<1> QED BY <1>1, <1>2, TypeCorrect, PTL DEF Spec

(* Reading deltas is enough, through failed snapshots, restarts and writes *)
(* to the empty store, for as long as no sequence number is used twice.    *)
THEOREM DeltasCatchUp == Spec => []CaughtUp
<1>1. Unlapsed => CaughtUp
  BY DEF Unlapsed, InStep, CaughtUp
<1> QED BY <1>1, UnlapsedInvariant, PTL

(* No write replaces what its author had not been served.                  *)
THEOREM NothingOverwrittenBlind == Spec => CompareAndSwapHolds
<1>1. Unlapsed /\ TypeOK' /\ [Next]_vars
        => [~lapsed' => \A c \in Clients : Sighted(c)]_vars
  <2> SUFFICES ASSUME Unlapsed, TypeOK', [Next]_vars, ~lapsed', NEW c \in Clients
               PROVE  Sighted(c)
    OBVIOUS
  <2>1. InStep
    BY LapsedForGood DEF Unlapsed
  <2>2. PutChecked(c) \/ PutUnchecked(c) => view[c].recs = mem.recs
    BY <2>1, RecordWrites, WriteSighted DEF InStep
  <2>3. PutMetaChecked(c) \/ PutMetaUnchecked(c) => head[c].meta = mem.meta
    BY <2>1, MetaWrites, MetaWriteInStep DEF InStep
  <2> QED BY <2>2, <2>3 DEF Sighted
<1> QED BY <1>1, UnlapsedInvariant, TypeCorrect, PTL DEF Spec, CompareAndSwapHolds
=============================================================================
