-------------------------------- MODULE Sync --------------------------------
(***************************************************************************)
(* Several machines holding one vault, and the sync server between them.   *)
(*                                                                         *)
(* The grain is one server request: everything a client does between the   *)
(* reply to one request and the sending of the next (src/core/sync.js,     *)
(* syncOnce) is one step, and between two steps of a sync the same         *)
(* machine's user may add, edit, fill, delete, lock or unlock              *)
(* (src/core/vault.js), another machine may run, a reply may be lost, the  *)
(* browser may die, or another handler may write the settings              *)
(* (src/ext/background.js).                                                *)
(*                                                                         *)
(* The vault header has already been published: every machine's getMeta    *)
(* finds its own header generation, which changes nothing (syncHeader's    *)
(* "equal" branch), and the sequence is therefore at least 1, so If-Match  *)
(* is always sent.                                                         *)
(***************************************************************************)
EXTENDS StoreOps, FiniteSets, Functions

CONSTANTS
  Machines,     \* the machines enrolled with the server
  MaxIds,       \* bound: record ids that can be minted (adds and forks)
  MaxOps,       \* bound: user operations
  MaxFaults,    \* bound: disturbances
  UserOps,      \* which of "add", "edit", "touch", "delete" users do
  Disturbances  \* which of "lock", "request", "ack", "crash", "settings",
                \* "restore" happen

ASSUME IdsAssumption    == MaxIds \in Nat \ {0} /\ Ids = 1 .. MaxIds
ASSUME BoundAssumption  == MaxOps \in Nat /\ MaxFaults \in Nat
ASSUME NoneAssumption   == /\ None \notin Nat
                           /\ None \notin Envelope(Nat, Nat)

VARIABLES
  srv,     \* the server's store
  vault,   \* per machine: envelopes, parked queue, fork marks, lock
  state,   \* per machine: syncState {seq, highestSeq, syncedRev}
  disk,    \* per machine: what storage.local holds of those two
  pc,      \* per machine: where its sync is
  job,     \* per machine: the batch being pushed and the sequence it got
  minted,  \* ids handed out so far; crypto.randomUUID never repeats one
  fresh,   \* the next nonce, and the next new plaintext
  owed,    \* ghost: bodies written and neither replaced nor deleted by a user
  ops, faults  \* how many user operations and disturbances so far, and which

vars == <<srv, vault, state, disk, pc, job, minted, fresh, owed, ops, faults>>

-----------------------------------------------------------------------------
(***************************************************************************)
(* Data                                                                    *)
(***************************************************************************)
Envelopes == Envelope(Nat, Nat)
EnvMap    == [Ids -> Envelopes \cup {None}]
Parked    == [id : Ids, env : Envelopes]
Vault     == [env : EnvMap, parked : SUBSET Parked, marks : SUBSET Parked,
              locked : BOOLEAN, past : SUBSET (Ids \X Nat)]
State     == [seq : Nat, highest : Nat, synced : [Ids -> Nat \cup {None}]]
Job       == [push : EnvMap, seq : Nat]
Store     == [seq : Nat, recs : EnvMap, stamp : [Ids -> Nat]]
Tally(S)  == [n : Nat, of : SUBSET S]
NoneYet   == [n |-> 0, of |-> {}]
Counting(t, x) == [n |-> t.n + 1, of |-> t.of \cup {x}]

(* The places a sync waits for a reply, and the two awaited writes.   *)
Pulls  == {"pull", "pull409", "pull422"}
Pushes == {"push", "push409", "push422"}
PCs    == {"idle"} \cup Pulls \cup Pushes \cup {"verify", "saveVault", "saveState"}

NoJob == [push |-> EmptyMap, seq |-> 0]

Sealed(rev, body, deleted) ==
  [rev |-> rev, deleted |-> deleted, body |-> body, seal |-> fresh]

FirstRecord == [rev |-> 1, deleted |-> FALSE, body |-> 1, seal |-> 1]

(* Plaintexts a person can reach on a machine: live records and, at the    *)
(* next unlock, whatever is parked.                                        *)
LiveBodies(v) == {v.env[id].body : id \in {i \in Ids : Live(v.env[i])}}
Reachable(v)  == LiveBodies(v) \cup {e.env.body : e \in v.parked}

(* Ghost: what a machine's list has moved past when its map changes.       *)
MovedPast(old, new) ==
  {<<i, old[i].body>> : i \in {j \in Ids : /\ Live(old[j]) /\ Live(new[j])
                                           /\ old[j].body # new[j].body}}
WithEnv(v, new) ==
  [v EXCEPT !.env = new, !.past = @ \cup MovedPast(v.env, new)]

-----------------------------------------------------------------------------
(***************************************************************************)
(* The machine between two requests                                        *)
(***************************************************************************)
ParkNothing(v, losers) == v   \* mutant: the losing side is dropped

(* park(): keep losing envelopes, once each, forked ones never again.      *)
Park(v, losers) == [v EXCEPT !.parked = @ \cup (losers \ v.marks)]

ForkableWhereGone(v) ==   \* mutant: a live record at the id is taken for the same
  {e \in v.parked : ~e.env.deleted /\ ~Live(v.env[e.id])}

(* resolveParked(): which parked envelopes become "(conflict)" records.    *)
Forkable(v) ==
  {e \in v.parked : /\ ~e.env.deleted
                    /\ ~(Live(v.env[e.id]) /\ v.env[e.id].body = e.env.body)}

FreshIds(n) == minted + 1 .. minted + n

(* name gives each fork its fresh id; the parked queue empties into marks. *)
Resolved(v, name) ==
  [v EXCEPT
     !.env    = [id \in Ids |-> IF id \in DOMAIN name
                                THEN Sealed(1, name[id].env.body, FALSE)
                                ELSE v.env[id]],
     !.parked = {},
     !.marks  = @ \cup v.parked]

(* A merge's conflicts, and the envelopes that lost them.                  *)
Contested(out) == {i \in Ids : out[i].parked # None}
Losers(out) == {[id |-> i, env |-> out[i].parked] : i \in Contested(out)}

(* applyEnvelopes: a live envelope never replaces a higher revision.       *)
Adopt(cur, e) ==
  IF cur # None /\ Live(e) /\ e.rev < cur.rev THEN cur ELSE e

Applying(v, out) ==
  WithEnv(v, [i \in Ids |-> Adopt(v.env[i], out[i].env)])

(* supersede(): the kept side of each pushed conflict is re-sealed above   *)
(* both revisions, so that the other machine fast-forwards to it.          *)
Higher(a, b) == IF a >= b THEN a ELSE b
Superseding(v, remote, out) ==
  [v EXCEPT !.env = [i \in Ids |->
     IF i \in Contested(out) /\ out[i].push
     THEN Sealed(Higher(v.env[i].rev, remote[i].rev) + 1,
                 v.env[i].body, v.env[i].deleted)
     ELSE v.env[i]]]

-----------------------------------------------------------------------------
(***************************************************************************)
(* The sync, request by request                                            *)
(***************************************************************************)
Start(m) ==
  /\ pc[m] = "idle"
  /\ pc' = [pc EXCEPT ![m] = "pull"]
  /\ UNCHANGED <<srv, vault, state, disk, job, minted, fresh, owed, ops, faults>>

(* handleSync's catch: the vault is saved, the sync state is not.          *)
GiveUp(m, v) ==
  /\ vault' = [vault EXCEPT ![m] = v]
  /\ disk'  = [disk EXCEPT ![m].vault = v]
  /\ pc'    = [pc EXCEPT ![m] = "idle"]
  /\ job'   = [job EXCEPT ![m] = NoJob]
  /\ UNCHANGED <<state, minted, fresh, owed, ops>>

Asked(m)  == Since(srv, IF pc[m] = "pull422" THEN 0 ELSE state[m].seq)

(* What the reply makes of every record; the branches of a pull read it.   *)
Merged(m) == MergeMaps(vault[m].env, Asked(m), state[m].synced)

GoneBackwards(m, out) ==
  \/ srv.seq < state[m].highest
  \/ \E i \in Ids : out[i].rolledBack

PullRefused(m, out) ==
  /\ GoneBackwards(m, out)
  /\ GiveUp(m, vault[m])
  /\ UNCHANGED <<srv, faults>>

(* refuseLockedConflict: parked, and nothing else advanced.                *)
PullLockedConflict(m, out) ==
  /\ ~GoneBackwards(m, out)
  /\ vault[m].locked /\ Contested(out) # {}
  /\ GiveUp(m, Park(vault[m], Losers(out)))
  /\ UNCHANGED <<srv, faults>>

(* The state a merge leaves behind, and what it sends up: the envelopes    *)
(* merge kept against the server's, and the forks.                         *)
AfterPull(m, v, out, forks) ==
  /\ vault' = [vault EXCEPT ![m] = v]
  /\ state' = [state EXCEPT
       ![m] = [seq     |-> srv.seq,
               highest |-> Higher(@.highest, srv.seq),
               synced  |-> [i \in Ids |-> out[i].synced]]]
  /\ LET up == {i \in Ids : out[i].push} \cup forks
     IN  /\ job' = [job EXCEPT ![m] =
              [push |-> [i \in Ids |-> IF i \in up THEN v.env[i] ELSE None],
               seq  |-> 0]]
         /\ pc' = [pc EXCEPT ![m] =
              CASE @ = "pull" /\ up = {} -> "saveVault"
                [] @ = "pull" /\ up # {} -> "push"
                [] @ = "pull409"         -> "push409"
                [] @ = "pull422"         -> "push422"]
  /\ UNCHANGED <<srv, disk, owed, ops, faults>>

PullLocked(m, out) ==
  /\ ~GoneBackwards(m, out)
  /\ vault[m].locked /\ Contested(out) = {}
  /\ \E v \in {Applying(vault[m], out)} : AfterPull(m, v, out, {})
  /\ UNCHANGED <<minted, fresh>>

(* What an unlocked pull keeps, before the parked queue is forked.         *)
Kept(m, out) ==
  Superseding(Park(Applying(vault[m], out), Losers(out)), Asked(m), out)

PullUnlocked(m, out) ==
  /\ ~GoneBackwards(m, out)
  /\ ~vault[m].locked
  /\ \E kept \in {Kept(m, out)}, n \in 0 .. MaxIds - minted :
       \E name \in Bijection(FreshIds(n), Forkable(kept)) :
         \E v \in {Resolved(kept, name)} :
           /\ AfterPull(m, v, out, FreshIds(n))
           /\ minted' = minted + n
  /\ fresh' = IF \/ minted' # minted
                 \/ \E i \in Contested(out) : out[i].push
              THEN fresh + 1 ELSE fresh

(* (\E over a singleton, here and above: TLC then evaluates it once.)      *)
Pull(m) ==
  /\ pc[m] \in Pulls
  /\ \E out \in {Merged(m)} :
       \/ PullRefused(m, out) \/ PullLockedConflict(m, out)
       \/ PullLocked(m, out)  \/ PullUnlocked(m, out)

AnswerLagging(m) ==   \* mutant: If-Match names the sequence before the pull's
  PutStatus(srv, job[m].push, state[m].seq - 1)

Answer(m) == PutStatus(srv, job[m].push, state[m].seq)

PushAccepted(m) ==
  /\ pc[m] \in Pushes
  /\ Answer(m) = 200
  /\ srv' = Applied(srv, job[m].push)
  /\ job' = [job EXCEPT ![m].seq = srv.seq + 1]
  /\ pc'  = [pc EXCEPT ![m] = "verify"]
  /\ UNCHANGED <<vault, state, disk, minted, fresh, owed, ops, faults>>

(* One retry after a 409, one full pull after a 422.                       *)
PushRetried(m) ==
  /\ \/ /\ pc[m] = "push" /\ Answer(m) = 409 /\ srv.seq >= state[m].highest
        /\ pc' = [pc EXCEPT ![m] = "pull409"]
     \/ /\ pc[m] \in {"push", "push409"} /\ Answer(m) = 422
        /\ pc' = [pc EXCEPT ![m] = "pull422"]
  /\ UNCHANGED <<srv, vault, state, disk, job, minted, fresh, owed, ops, faults>>

PushGivenUp(m) ==
  /\ \/ pc[m] = "push" /\ Answer(m) = 409 /\ srv.seq < state[m].highest
     \/ pc[m] \in {"push409", "push422"} /\ Answer(m) = 409
     \/ pc[m] = "push422" /\ Answer(m) = 422
  /\ GiveUp(m, vault[m])
  /\ UNCHANGED <<srv, faults>>

ServedBackExactly(m) ==   \* mutant: somebody's newer revision reads as a loss
  LET back == Since(srv, job[m].seq - 1)
  IN  \A i \in Ids : job[m].push[i] # None =>
        back[i] # None /\ SameBytes(back[i], job[m].push[i])

(* verifyPush: every pushed envelope is served back byte-identical, or     *)
(* already superseded by a higher revision.                                *)
ServedBack(m) ==
  LET back == Since(srv, job[m].seq - 1)
  IN  \A i \in Ids : job[m].push[i] # None =>
        /\ back[i] # None
        /\ \/ back[i].rev > job[m].push[i].rev
           \/ /\ back[i].rev = job[m].push[i].rev
              /\ SameBytes(back[i], job[m].push[i])

VerifyRefused(m) ==
  /\ pc[m] = "verify"
  /\ srv.seq < state[m].highest \/ ~ServedBack(m)
  /\ GiveUp(m, vault[m])
  /\ UNCHANGED <<srv, faults>>

VerifyConfirmed(m) ==
  /\ pc[m] = "verify"
  /\ srv.seq >= state[m].highest /\ ServedBack(m)
  /\ state' = [state EXCEPT
       ![m] = [seq     |-> job[m].seq,
               highest |-> Higher(@.highest, job[m].seq),
               synced  |-> ConfirmPushed(@.synced, job[m].push)]]
  /\ job' = [job EXCEPT ![m] = NoJob]
  /\ pc'  = [pc EXCEPT ![m] = "saveVault"]
  /\ UNCHANGED <<srv, vault, disk, minted, fresh, owed, ops, faults>>

(* Two storage writes, one after the other.                                *)
SaveVault(m) ==
  /\ pc[m] = "saveVault"
  /\ disk' = [disk EXCEPT ![m].vault = vault[m]]
  /\ pc'   = [pc EXCEPT ![m] = "saveState"]
  /\ UNCHANGED <<srv, vault, state, job, minted, fresh, owed, ops, faults>>

SaveState(m) ==
  /\ pc[m] = "saveState"
  /\ disk' = [disk EXCEPT ![m].state = state[m]]
  /\ pc'   = [pc EXCEPT ![m] = "idle"]
  /\ job'  = [job EXCEPT ![m] = NoJob]
  /\ UNCHANGED <<srv, vault, state, minted, fresh, owed, ops, faults>>

-----------------------------------------------------------------------------
(***************************************************************************)
(* The person: each operation needs the key and is on disk when it returns.*)
(***************************************************************************)
Operate(m, op, v) ==
  /\ op \in UserOps /\ ops.n < MaxOps
  /\ ops'   = Counting(ops, op)
  /\ vault' = [vault EXCEPT ![m] = v]
  /\ disk'  = [disk EXCEPT ![m].vault = v]
  /\ fresh' = fresh + 1
  /\ UNCHANGED <<srv, state, pc, job, faults>>

Add(m) ==
  /\ ~vault[m].locked
  /\ minted < MaxIds /\ minted' = minted + 1
  /\ Operate(m, "add", [vault[m] EXCEPT !.env[minted + 1] = Sealed(1, fresh, FALSE)])
  /\ owed' = owed \cup {fresh}

Rewrite(m, i, body) ==
  WithEnv(vault[m], [vault[m].env EXCEPT
                       ![i] = Sealed(vault[m].env[i].rev + 1, body, FALSE)])

(* update(): a new body replaces the one this machine shows.               *)
Edit(m, i) ==
  /\ ~vault[m].locked /\ Live(vault[m].env[i])
  /\ Operate(m, "edit", Rewrite(m, i, fresh))
  /\ owed' = (owed \ {vault[m].env[i].body}) \cup {fresh}
  /\ UNCHANGED minted

(* touchUsed(): a fill re-seals the same body at the next revision.        *)
Touch(m, i) ==
  /\ ~vault[m].locked /\ Live(vault[m].env[i])
  /\ Operate(m, "touch", Rewrite(m, i, vault[m].env[i].body))
  /\ UNCHANGED <<owed, minted>>

(* remove(): a sealed tombstone at the next revision.                      *)
Delete(m, i) ==
  /\ ~vault[m].locked /\ Live(vault[m].env[i])
  /\ Operate(m, "delete", [vault[m] EXCEPT
       !.env[i] = Sealed(vault[m].env[i].rev + 1, 0, TRUE)])
  /\ owed' = owed \ {vault[m].env[i].body}
  /\ UNCHANGED minted

(* Unlocking forks what locked syncs parked, and saves if it forked any.   *)
Unlock(m) ==
  /\ vault[m].locked
  /\ \E n \in 0 .. MaxIds - minted :
       \E name \in Bijection(FreshIds(n), Forkable(vault[m])) :
         LET v == [Resolved(vault[m], name) EXCEPT !.locked = FALSE]
         IN  /\ vault'  = [vault EXCEPT ![m] = v]
             /\ disk'   = IF n = 0 THEN disk ELSE [disk EXCEPT ![m].vault = v]
             /\ minted' = minted + n
             /\ fresh'  = IF n = 0 THEN fresh ELSE fresh + 1
  /\ UNCHANGED <<srv, state, pc, job, owed, ops, faults>>

-----------------------------------------------------------------------------
(***************************************************************************)
(* Disturbances                                                            *)
(***************************************************************************)
Disturb(d) ==
  /\ d \in Disturbances /\ faults.n < MaxFaults
  /\ faults' = Counting(faults, d)

(* Autolock, or the person walking away.                                   *)
Lock(m) ==
  /\ Disturb("lock") /\ ~vault[m].locked
  /\ vault' = [vault EXCEPT ![m].locked = TRUE]
  /\ UNCHANGED <<srv, state, disk, pc, job, minted, fresh, owed, ops>>

(* A request that never arrives, or a GET whose reply never does.          *)
LoseRequest(m) ==
  /\ Disturb("request") /\ pc[m] \in Pulls \cup Pushes \cup {"verify"}
  /\ GiveUp(m, vault[m])
  /\ UNCHANGED srv

(* A push that is applied and whose 200 never arrives.                     *)
LoseAck(m) ==
  /\ Disturb("ack") /\ pc[m] \in Pushes /\ Answer(m) = 200
  /\ srv' = Applied(srv, job[m].push)
  /\ GiveUp(m, vault[m])

(* The browser dies and is started again: boot() reads both back, locked.  *)
Crash(m) ==
  /\ Disturb("crash")
  /\ vault' = [vault EXCEPT ![m] = [disk[m].vault EXCEPT !.locked = TRUE]]
  /\ state' = [state EXCEPT ![m] = disk[m].state]
  /\ pc'    = [pc EXCEPT ![m] = "idle"]
  /\ job'   = [job EXCEPT ![m] = NoJob]
  /\ UNCHANGED <<srv, disk, minted, fresh, owed, ops>>

(* Any handler that saves the settings saves the sync state beside them,   *)
(* whatever a sync in flight has made of it so far.                        *)
SettingsWrite(m) ==
  /\ Disturb("settings") /\ pc[m] # "idle"
  /\ disk' = [disk EXCEPT ![m].state = state[m]]
  /\ UNCHANGED <<srv, vault, state, pc, job, minted, fresh, owed, ops>>

-----------------------------------------------------------------------------
(***************************************************************************)
(* The beginning: record 1 was added on one machine and synced by those    *)
(* that have joined; the others are blank.  The header took sequence 1 and *)
(* the record sequence 2.                                                  *)
(***************************************************************************)
FirstMap == [i \in Ids |-> IF i = 1 THEN FirstRecord ELSE None]
FirstStore ==
  [seq |-> 2, recs |-> FirstMap, stamp |-> [i \in Ids |-> IF i = 1 THEN 2 ELSE 0]]

NewVault(env) ==
  [env |-> env, parked |-> {}, marks |-> {}, locked |-> FALSE, past |-> {}]

Synced == [vault |-> NewVault(FirstMap),
           state |-> [seq |-> 2, highest |-> 2,
                      synced |-> [i \in Ids |-> IF i = 1 THEN 1 ELSE None]]]
Blank  == [vault |-> NewVault(EmptyMap),
           state |-> [seq |-> 0, highest |-> 0, synced |-> EmptyMap]]

Init ==
  /\ srv = FirstStore
  /\ \E joined \in SUBSET Machines \ {{}} :
       disk = [m \in Machines |-> IF m \in joined THEN Synced ELSE Blank]
  /\ vault = [m \in Machines |-> disk[m].vault]
  /\ state = [m \in Machines |-> disk[m].state]
  /\ pc    = [m \in Machines |-> "idle"]
  /\ job   = [m \in Machines |-> NoJob]
  /\ minted = 1 /\ fresh = 2 /\ owed = {1}
  /\ ops = NoneYet /\ faults = NoneYet

(* The server put back to the copy taken at the beginning.                 *)
Restore ==
  /\ Disturb("restore")
  /\ srv' = FirstStore
  /\ UNCHANGED <<vault, state, disk, pc, job, minted, fresh, owed, ops>>

SyncStep(m) ==
  \/ Pull(m)
  \/ PushAccepted(m) \/ PushRetried(m) \/ PushGivenUp(m)
  \/ VerifyRefused(m) \/ VerifyConfirmed(m)
  \/ SaveVault(m) \/ SaveState(m)

UserStep(m) ==
  \/ Add(m)
  \/ \E i \in Ids : Edit(m, i) \/ Touch(m, i) \/ Delete(m, i)

Disturbance(m) ==
  \/ Lock(m) \/ LoseRequest(m) \/ LoseAck(m) \/ Crash(m) \/ SettingsWrite(m)

Next ==
  \/ \E m \in Machines :
       Start(m) \/ SyncStep(m) \/ UserStep(m) \/ Unlock(m) \/ Disturbance(m)
  \/ Restore

Spec == Init /\ [][Next]_vars

(* The five-minute timer and the person who comes back: a started sync     *)
(* goes on, another is started, a locked vault is eventually unlocked.     *)
Fairness ==
  \A m \in Machines :
    WF_vars(Start(m) \/ SyncStep(m)) /\ WF_vars(Unlock(m))

FairSpec == Spec /\ Fairness
=============================================================================
