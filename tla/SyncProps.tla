------------------------------ MODULE SyncProps ------------------------------
(***************************************************************************)
(* What the sync owes the people using it: invariants A to E of            *)
(* test/model.test.js, stated of every interleaving of requests rather     *)
(* than of whole syncs run one at a time, and the invariant they rest on.  *)
(***************************************************************************)
EXTENDS Sync

(* Types of every variable.                                                *)
TypeOK ==
  /\ srv    \in Store
  /\ vault  \in [Machines -> Vault]
  /\ state  \in [Machines -> State]
  /\ disk   \in [Machines -> [vault : Vault, state : State]]
  /\ pc     \in [Machines -> PCs]
  /\ job    \in [Machines -> Job]
  /\ minted \in 0 .. MaxIds
  /\ fresh \in Nat /\ owed \in SUBSET Nat /\ ops \in Tally(UserOps)
  /\ faults \in Tally(Disturbances)

(* What has happened so far.                                               *)
Met(d)  == d \in faults.of
Did(op) == op \in ops.of
(* A settings save mid-sync, then a crash: the disk may hold the state of  *)
(* a sync whose vault never reached it.                                    *)
HalfSaved == Met("settings") /\ Met("crash")

(* A. No silent loss: a plaintext somebody wrote and nobody replaced or    *)
(* deleted can still be reached -- live or parked on some machine, or live *)
(* on the server.  Every merge outcome, retry and give-up of syncOnce      *)
(* bears on it (test/model.test.js 15-16).                                 *)
NoSilentLoss ==
  \A b \in owed :
    \/ \E m \in Machines : b \in Reachable(vault[m])
    \/ \E i \in Ids : Live(srv.recs[i]) /\ srv.recs[i].body = b

(* A, as far as the code keeps it: nothing is lost to interleavings, lost  *)
(* requests and replies or settings saves, as long as no vault has been    *)
(* locked (a restarted browser starts locked) and the server not put back. *)
NothingLostUnlocked ==
  \/ Met("lock") \/ Met("crash") \/ Met("restore")
  \/ NoSilentLoss

(* B. No live regression: a record never shows, on a machine, a plaintext  *)
(* that machine had already moved past (merge.js 104-121 and 168-190).     *)
NoRevert ==
  \A m \in Machines, i \in Ids :
    Live(vault[m].env[i]) => <<i, vault[m].env[i].body>> \notin vault[m].past

(* B, as far as the code keeps it: through any interleaving of edits and   *)
(* deletions, locking and settings saves.  A fill, which re-seals an old   *)
(* body, a sync cut short before its state is adopted and a server put     *)
(* back are what it does not cover.                                        *)
NoRevertUndisturbed ==
  \/ Did("touch")
  \/ Met("request") \/ Met("ack") \/ Met("crash") \/ Met("restore")
  \/ NoRevert

(* C. Convergence: once people stop and every vault is open, every machine *)
(* and the server come to hold the same envelopes, for good (settling of   *)
(* ties by supersede, sync.js 678-685).                                    *)
Converged == \A m \in Machines : vault[m].env = srv.recs /\ vault[m].parked = {}
Convergence == <>[]Converged

(* C, the part that is safety: once every machine and the server hold the  *)
(* same and nothing is parked, no sync, old or new, finds anything to fork,*)
(* supersede or push, whatever is locked, unlocked or lost on the way: only*)
(* a person, or a crash or a server put back, ends it (sync.js 678-685).   *)
AgreementLasts ==
  [][Converged =>
       \/ Converged'
       \/ ops' # ops \/ Restore \/ \E m \in Machines : Crash(m)]_vars

(* A quiet vault writes nothing: no push carries an envelope the server    *)
(* already holds -- not after a lost reply, not on the retries, not because*)
(* a delta leaves an acknowledged record out (merge.js 61-85).  A server   *)
(* put back may leave out what it holds, and a machine half saved has      *)
(* forgotten what it was told.                                             *)
NothingPushedTwice ==
  \/ Met("restore") \/ HalfSaved
  \/ \A m \in Machines, i \in Ids :
       pc[m] \in Pushes /\ job[m].push[i] # None => job[m].push[i] # srv.recs[i]

(* D. Deletions stick: while a machine runs, a tombstone it holds is never *)
(* replaced by a live envelope, whatever the server serves (merge.js       *)
(* 127-143, 192-201).                                                      *)
DeletionsStick ==
  [][\A m \in Machines, i \in Ids :
       Tombstone(vault[m].env[i]) => Crash(m) \/ Tombstone(vault'[m].env[i])]_vars

(* E. A parked envelope leaves the queue only into a record of the same    *)
(* machine, or because that machine already shows its content, or because  *)
(* it is a tombstone (resolveParked, vault.js 937-995).                    *)
ParkedKept ==
  [][\A m \in Machines : \A e \in vault[m].parked \ vault'[m].parked :
       \/ Crash(m)
       \/ e.env.deleted
       \/ e.env.body \in LiveBodies(vault'[m])]_vars

(* F. An honest server is never refused: no pull reads as a rollback, no   *)
(* accepted push as dropped, and the full pull after a 422 is enough, until*)
(* the server is put back to an old copy or a machine wakes up half saved  *)
(* (test/model.test.js, "F:spurious-refusal").                             *)
NoSpuriousRefusal ==
  \/ Met("restore") \/ HalfSaved
  \/ \A m \in Machines :
       /\ pc[m] \in Pulls => ~GoneBackwards(m, Merged(m))
       /\ pc[m] = "verify" => srv.seq >= state[m].highest /\ ServedBack(m)
       /\ pc[m] = "push422" => Answer(m) # 422

(* The ancestor map never claims an agreement that does not exist: where   *)
(* it names exactly the local revision -- so that a pull that omits the    *)
(* record reads as "in sync" (merge.js 70-79) -- the server holds those    *)
(* very bytes, or has since written others that the next pull will carry.  *)
(* A restored server and a machine half saved are what it does not cover.  *)
NoFalseAgreement ==
  \/ Met("restore") \/ HalfSaved
  \/ \A m \in Machines, i \in Ids :
       LET e == vault[m].env[i]
       IN  e # None /\ state[m].synced[i] = e.rev =>
             srv.recs[i] = e \/ srv.stamp[i] > state[m].seq
==============================================================================
