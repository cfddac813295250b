------------------------------- MODULE Ledger -------------------------------
(***************************************************************************)
(* What the sync server promises of the file it keeps, whatever happens to *)
(* the process: a ledger of records that only ever moves forward.          *)
(*                                                                         *)
(* A record never returns to an earlier revision, a deletion is final for  *)
(* its id, nothing vanishes, and everything that changes takes a sequence  *)
(* number never used for another content of the file.                      *)
(***************************************************************************)
EXTENDS Merge

CONSTANT Ids

VARIABLE book   \* [seq, recs, stamp, meta]

(* e may stand where d stood.                                              *)
Follows(d, e) ==
  d # None => e # None /\ e.rev >= d.rev /\ (d.deleted => e.deleted)

Blank == [seq |-> 0, recs |-> [id \in Ids |-> None],
          stamp |-> [id \in Ids |-> 0], meta |-> None]

Advance ==
  /\ book'.seq > book.seq
  /\ \A id \in Ids : Follows(book.recs[id], book'.recs[id])

LedgerSpec == book = Blank /\ [][Advance]_book
=============================================================================
