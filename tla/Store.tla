------------------------------- MODULE Store --------------------------------
(***************************************************************************)
(* The sync server on its own (server/store.go and the record and header   *)
(* handlers of server/main.go): memory, the file it is saved to, and       *)
(* devices that read deltas and write under compare-and-swap.              *)
(*                                                                         *)
(* Every store method runs under one mutex and is one step.  Two things    *)
(* happen outside it: the handlers' test that a request without If-Match   *)
(* meets an empty store (main.go 239 and 346), and the death of the        *)
(* process.  A write changes memory first and saves afterwards; a save     *)
(* that fails answers 500 and leaves memory as it is.                      *)
(***************************************************************************)
EXTENDS StoreOps

CONSTANTS
  Clients,     \* the enrolled devices
  HeaderLess,  \* those that may send a write without If-Match
  Headers,     \* vault headers, opaque
  MaxSeq,      \* bound: sequence numbers handed out
  MaxRev,      \* bound: revisions devices push
  Faults       \* which of "save", "snapshot", "restart" happen

ASSUME MaxAssumption    == MaxSeq \in Nat /\ MaxRev \in Nat
ASSUME DeviceAssumption == HeaderLess \subseteq Clients
ASSUME NoneAssumption   ==
  /\ None \notin Nat
  /\ None \notin Headers
  /\ None \notin Envelope({0}, Clients)

VARIABLES
  mem,    \* Store.d: [seq, recs, stamp, meta]
  disk,   \* store.json
  view,   \* per device: the sequence it last synced to, and its records
  head,   \* per device: what its last GET /meta answered, [seq, meta]
  gate,   \* per device: has passed the "empty store" test, "no" if not
  acked,  \* ghost: the last sequence and envelopes answered with a 200
  lapsed  \* ghost: a sequence number may by now have named two contents

vars == <<mem, disk, view, head, gate, acked, lapsed>>

-----------------------------------------------------------------------------
(* Envelopes as a device seals them: the seal tells its author.            *)
Pushable(c) == [rev : 1 .. MaxRev, deleted : BOOLEAN, body : {0}, seal : {c}]
Batches(c)  == [Ids -> Pushable(c) \cup {None}] \ {EmptyMap}
Overlay(map, batch) ==
  [id \in Ids |-> IF batch[id] # None THEN batch[id] ELSE map[id]]

NilMaps ==   \* mutant: a file read back with a map missing
  [seq |-> 0, recs |-> None, stamp |-> [id \in Ids |-> 0], meta |-> None]

Empty == [seq |-> 0, recs |-> EmptyMap, stamp |-> [id \in Ids |-> 0],
          meta |-> None]

WithBatch(d, batch) ==
  LET st == Applied(d, batch)
  IN  [seq |-> st.seq, recs |-> st.recs, stamp |-> st.stamp, meta |-> d.meta]
WithMeta(d, meta) ==
  [seq |-> d.seq + 1, recs |-> d.recs, stamp |-> d.stamp, meta |-> meta]

(***************************************************************************)
(* A write that passed its checks: memory becomes d; the file follows      *)
(* unless the write to it fails, and a failure to take the snapshot comes  *)
(* too late to undo the rename.  Answered with 200 only if both succeed.   *)
(***************************************************************************)
Saved(d)        == mem' = d /\ disk' = d
SaveFailed(d)   == "save" \in Faults /\ mem' = d /\ UNCHANGED disk
SnapFailed(d)   == "snapshot" \in Faults /\ mem' = d /\ disk' = d

Bounded == mem.seq < MaxSeq

-----------------------------------------------------------------------------
(* GET /records?since=: the delta, laid over what the device had.          *)
GetRecords(c) ==
  /\ view' = [view EXCEPT ![c] =
       [seq |-> mem.seq, recs |-> Overlay(@.recs, Since(mem, @.seq))]]
  /\ UNCHANGED <<mem, disk, head, gate, acked, lapsed>>

GetMeta(c) ==
  /\ head' = [head EXCEPT ![c] = [seq |-> mem.seq, meta |-> mem.meta]]
  /\ UNCHANGED <<mem, disk, view, gate, acked, lapsed>>

(* A request without If-Match finds the store empty; the write follows     *)
(* under the mutex, any time later.                                        *)
Gate(c, kind) ==
  /\ c \in HeaderLess /\ gate[c] = "no"
  /\ mem.seq = 0
  /\ gate' = [gate EXCEPT ![c] = kind]
  /\ UNCHANGED <<mem, disk, view, head, acked, lapsed>>

(* Put(), with the sequence last seen or unchecked.  A 200 tells the device*)
(* its records' sequence.                                                  *)
PutRecords(c, batch, ifMatch) ==
  /\ Bounded
  /\ PutStatus(mem, batch, ifMatch) = 200
  /\ LET d == WithBatch(mem, batch)
     IN  \/ /\ Saved(d)
            /\ view'  = [view EXCEPT ![c] =
                 [seq |-> d.seq, recs |-> Overlay(@.recs, batch)]]
            /\ acked' = [seq |-> d.seq, recs |-> Overlay(acked.recs, batch)]
         \/ (SaveFailed(d) \/ SnapFailed(d)) /\ UNCHANGED <<view, acked>>
  /\ UNCHANGED head

PutChecked(c) ==
  /\ \E batch \in Batches(c) : PutRecords(c, batch, view[c].seq)
  /\ UNCHANGED <<gate, lapsed>>

PutUnchecked(c) ==
  /\ gate[c] = "records"
  /\ \E batch \in Batches(c) : PutRecords(c, batch, None)
  /\ gate' = [gate EXCEPT ![c] = "no"]
  /\ lapsed' = (lapsed \/ mem.seq # 0)

PutMeta(c, meta, ifMatch) ==
  /\ Bounded
  /\ ifMatch = None \/ ifMatch = mem.seq
  /\ LET d == WithMeta(mem, meta)
     IN  \/ /\ Saved(d)
            /\ acked' = [acked EXCEPT !.seq = d.seq]
         \/ (SaveFailed(d) \/ SnapFailed(d)) /\ UNCHANGED acked
  /\ UNCHANGED <<view, head>>

PutMetaChecked(c) ==
  /\ \E meta \in Headers : PutMeta(c, meta, head[c].seq)
  /\ UNCHANGED <<gate, lapsed>>

PutMetaUnchecked(c) ==
  /\ gate[c] = "meta"
  /\ \E meta \in Headers : PutMeta(c, meta, None)
  /\ gate' = [gate EXCEPT ![c] = "no"]
  /\ lapsed' = (lapsed \/ mem.seq # 0)

(* The process dies, with whatever requests it had let through the gate,   *)
(* and OpenStore reads the file back.  A write whose save failed is gone,  *)
(* and its sequence number will be given out again.                        *)
Restart ==
  /\ "restart" \in Faults
  /\ mem'  = disk
  /\ gate' = [c \in Clients |-> "no"]
  /\ lapsed' = (lapsed \/ mem # disk)
  /\ UNCHANGED <<disk, view, head, acked>>

-----------------------------------------------------------------------------
Init ==
  /\ mem  = Empty /\ disk = Empty
  /\ view = [c \in Clients |-> [seq |-> 0, recs |-> EmptyMap]]
  /\ head = [c \in Clients |-> [seq |-> 0, meta |-> None]]
  /\ gate = [c \in Clients |-> "no"]
  /\ acked = [seq |-> 0, recs |-> EmptyMap]
  /\ lapsed = FALSE

Next ==
  \/ \E c \in Clients :
       \/ GetRecords(c) \/ GetMeta(c)
       \/ \E kind \in {"records", "meta"} : Gate(c, kind)
       \/ PutChecked(c) \/ PutUnchecked(c)
       \/ PutMetaChecked(c) \/ PutMetaUnchecked(c)
  \/ Restart

Spec == Init /\ [][Next]_vars

-----------------------------------------------------------------------------
Envelopes == Envelope({0}, Clients)
Maps      == [Ids -> Envelopes \cup {None}]
Data      == [seq : Nat, recs : Maps, stamp : [Ids -> Nat],
              meta : Headers \cup {None}]

(* Types of every variable.                                                *)
TypeOK ==
  /\ mem \in Data /\ disk \in Data
  /\ view \in [Clients -> [seq : Nat, recs : Maps]]
  /\ head \in [Clients -> [seq : Nat, meta : Headers \cup {None}]]
  /\ gate \in [Clients -> {"no", "records", "meta"}]
  /\ acked \in [seq : Nat, recs : Maps]
  /\ lapsed \in BOOLEAN

(* The file, seen as the ledger of Ledger.tla.                             *)
File == INSTANCE Ledger WITH book <- disk

(* The file moves forward only, through any mixture of failed saves,       *)
(* failed snapshots and restarts (store.go 212-272, 132-149, 88-125).      *)
FileIsLedger == File!LedgerSpec

(* What a 200 acknowledged is in the file, or something that may follow it *)
(* is: a restart loses nothing a device was told is stored.                *)
AckedDurable ==
  /\ disk.seq >= acked.seq
  /\ \A id \in Ids : File!Follows(acked.recs[id], disk.recs[id])

(* Reading deltas is enough: where a device's copy of a record differs     *)
(* from the store's, the next delta carries it (store.go 188-205) -- as    *)
(* long as no sequence number has named two contents.                      *)
CaughtUp ==
  ~lapsed =>
    \A c \in Clients :
      /\ view[c].seq <= mem.seq
      /\ \A id \in Ids : \/ view[c].recs[id] = mem.recs[id]
                         \/ mem.stamp[id] > view[c].seq

(* c's write replaces only what c had been served.                         *)
Sighted(c) ==
  /\ PutChecked(c) \/ PutUnchecked(c) =>
       \A id \in Ids : mem'.recs[id] # mem.recs[id] =>
                         view[c].recs[id] = mem.recs[id]
  /\ PutMetaChecked(c) \/ PutMetaUnchecked(c) => head[c].meta = mem.meta

(* "Everything else must pass the sequence it last saw, or two machines    *)
(* that both edited offline would silently overwrite one another"          *)
(* (store.go 210-213; 294-300 for the header): a write only ever replaces  *)
(* what its author had been served, until a restart forgets a write whose  *)
(* save had failed, and gives its number to another, or a write without    *)
(* If-Match lands on a store that is no longer empty.                      *)
CompareAndSwapHolds == [][~lapsed' => \A c \in Clients : Sighted(c)]_vars
=============================================================================
