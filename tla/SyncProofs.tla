----------------------------- MODULE SyncProofs -----------------------------
(***************************************************************************)
(* Sync.tla, for every number of machines, ids, operations and faults:     *)
(* types, that a deletion sticks on the machine that holds it, what a      *)
(* machine remembers of the server, and that agreement, once reached,      *)
(* lasts.                                                                  *)
(*                                                                         *)
(* The deletion argument has one invariant under it: an id not yet handed  *)
(* out stands nowhere (Unminted), so a fork never lands on a tombstone.    *)
(* Everything else that writes a machine's map goes through MergeOne and   *)
(* Adopt, or through an operation that asks for a live record.             *)
(***************************************************************************)
EXTENDS SyncProps, TLAPS

Maybe == Envelopes \cup {None}
Base  == Nat \cup {None}
Outcomes ==
  [env : Maybe, synced : Base, parked : Maybe, push : BOOLEAN,
   rolledBack : BOOLEAN]

(* Two envelopes that differ when one is absent; the fields of one present.*)
LEMMA EnvelopeFacts ==
  /\ None \notin Envelopes
  /\ \A e \in Envelopes : /\ e # None /\ e.rev \in Nat /\ e.rev > 0 /\ e.body \in Nat
                          /\ e.deleted \in BOOLEAN /\ e.seal \in Nat
BY NoneAssumption DEF Envelopes, Envelope

(* Every merge outcome is well formed.                                     *)
LEMMA MergeOneType ==
  ASSUME NEW l \in Maybe, NEW r \in Maybe, NEW b \in Base
  PROVE  MergeOne(l, r, b) \in Outcomes
<1>1. \A e \in Maybe, s \in Base, p \in Maybe, x \in BOOLEAN, y \in BOOLEAN :
        Outcome(e, s, p, x, y) \in Outcomes
  BY DEF Outcome, Outcomes
<1>2. (l # None => l.rev \in Base) /\ (r # None => r.rev \in Base) /\ None \in Maybe
  BY EnvelopeFacts DEF Maybe, Base
<1>3. ASSUME l # None, r # None PROVE Diverged(l, r, b) \in Outcomes
  BY <1>1, <1>2, <1>3 DEF Diverged
<1>4. ASSUME l # None, r # None PROVE BothPresent(l, r, b) \in Outcomes
  BY <1>1, <1>2, <1>3, <1>4 DEF BothPresent
<1>5. l = None \/ (r = None => Agreed(l, r, b) \/ OnlyLocal(l, r, b))
  BY DEF Agreed, OnlyLocal
<1>6. CASE l = None
  BY <1>1, <1>2, <1>6 DEF MergeOne
<1>7. CASE l # None /\ r = None
  BY <1>1, <1>2, <1>5, <1>7 DEF MergeOne
<1>8. CASE l # None /\ r # None
  BY <1>4, <1>8 DEF MergeOne
<1> QED BY <1>6, <1>7, <1>8

(* Merge never undoes a local deletion: whatever the server shows, a       *)
(* tombstone stays or is replaced by another (merge.js 127-143, 192-201).  *)
LEMMA MergeKeepsTombstone ==
  ASSUME NEW l \in Maybe, NEW r \in Maybe, NEW b \in Base, Tombstone(l)
  PROVE  Tombstone(MergeOne(l, r, b).env)
<1>1. l # None /\ l.deleted
  BY DEF Tombstone
<1>2. CASE r = None
  BY <1>1, <1>2 DEF MergeOne, Outcome, Agreed, OnlyLocal, Tombstone
<1>3. CASE r # None
  <2>1. MergeOne(l, r, b) = BothPresent(l, r, b)
    BY <1>1, <1>3 DEF MergeOne
  <2>2. Tombstone(Diverged(l, r, b).env)
    BY <1>1, <1>3 DEF Diverged, Descendant, Outcome, Tombstone
  <2>3. Tombstone(BothPresent(l, r, b).env)
    BY <1>1, <1>3, <2>2 DEF BothPresent, RemoteAhead, Outcome, Tombstone
  <2> QED BY <2>1, <2>3
<1> QED BY <1>2, <1>3

(* Nothing comes of nothing: an id neither side holds stays empty.         *)
LEMMA MergeNothing ==
  ASSUME NEW b PROVE MergeOne(None, None, b).env = None
                     /\ ~MergeOne(None, None, b).push
BY DEF MergeOne, Outcome

-----------------------------------------------------------------------------
(* The maps and vaults the operations of a sync build are well formed.     *)
LEMMA SealedType ==
  ASSUME TypeOK, NEW rev \in Nat \ {0}, NEW body \in Nat, NEW deleted \in BOOLEAN
  PROVE  Sealed(rev, body, deleted) \in Envelopes
BY DEF TypeOK, Sealed, Envelopes, Envelope

(* A vault's parts.                                                        *)
LEMMA VaultParts ==
  ASSUME NEW v \in Vault
  PROVE  /\ v.env \in EnvMap /\ v.parked \in SUBSET Parked
         /\ v.marks \in SUBSET Parked /\ v.locked \in BOOLEAN
         /\ v.past \in SUBSET (Ids \X Nat)
         /\ \A i \in Ids : v.env[i] \in Maybe
BY DEF Vault, EnvMap, Maybe

(* A new map in a vault: the ghost of what it moved past keeps its type.   *)
LEMMA WithEnvType ==
  ASSUME NEW v \in Vault, NEW map \in EnvMap
  PROVE  WithEnv(v, map) \in Vault /\ WithEnv(v, map).env = map
                                 /\ WithEnv(v, map).locked = v.locked
<1>1. MovedPast(v.env, map) \subseteq Ids \X Nat
  <2>1. \A j \in Ids : Live(v.env[j]) => v.env[j].body \in Nat
    BY VaultParts, EnvelopeFacts DEF Live, Maybe
  <2> QED BY <2>1 DEF MovedPast
<1>2. v.past \cup MovedPast(v.env, map) \in SUBSET (Ids \X Nat)
  BY <1>1, VaultParts
<1> HIDE DEF MovedPast
<1> QED BY <1>2 DEF WithEnv, Vault

(* Parking, adopting, superseding and forking keep a vault a vault.        *)
LEMMA ParkType ==
  ASSUME NEW v \in Vault, NEW losers \in SUBSET Parked
  PROVE  Park(v, losers) \in Vault /\ Park(v, losers).env = v.env
                                 /\ Park(v, losers).locked = v.locked
BY DEF Park, Vault

(* A merge of whole maps, as a function of ids.                            *)
AllOutcomes(out) == \A i \in Ids : out[i] \in Outcomes

(* The losers of a merge are envelopes at ids.                             *)
LEMMA LosersType ==
  ASSUME NEW out, AllOutcomes(out)
  PROVE  Losers(out) \in SUBSET Parked
BY DEF AllOutcomes, Losers, Contested, Outcomes, Parked, Maybe

(* applyEnvelopes.                                                         *)
LEMMA ApplyingType ==
  ASSUME NEW v \in Vault, NEW out, AllOutcomes(out)
  PROVE  /\ Applying(v, out) \in Vault
         /\ Applying(v, out).locked = v.locked
         /\ \A i \in Ids : Applying(v, out).env[i] = Adopt(v.env[i], out[i].env)
<1> DEFINE map == [i \in Ids |-> Adopt(v.env[i], out[i].env)]
<1>1. \A i \in Ids : v.env[i] \in Maybe /\ out[i].env \in Maybe
  BY VaultParts DEF AllOutcomes, Outcomes
<1>2. map \in EnvMap
  BY <1>1 DEF EnvMap, Maybe, Adopt
<1> QED BY <1>2, WithEnvType DEF Applying

(* supersede.                                                              *)
LEMMA SupersedingType ==
  ASSUME TypeOK, NEW v \in Vault, NEW remote \in EnvMap, NEW out,
         \A i \in Contested(out) : v.env[i] # None /\ remote[i] # None
  PROVE  /\ Superseding(v, remote, out) \in Vault
         /\ Superseding(v, remote, out).locked = v.locked
         /\ \A i \in Ids : \/ Superseding(v, remote, out).env[i] = v.env[i]
                           \/ /\ v.env[i] # None
                              /\ Superseding(v, remote, out).env[i].deleted
                                    = v.env[i].deleted
                              /\ Superseding(v, remote, out).env[i] \in Envelopes
<1> DEFINE seal(i) == Sealed(Higher(v.env[i].rev, remote[i].rev) + 1,
                             v.env[i].body, v.env[i].deleted)
           map == [i \in Ids |-> IF i \in Contested(out) /\ out[i].push
                                 THEN seal(i) ELSE v.env[i]]
<1>1. ASSUME NEW i \in Contested(out)
      PROVE  seal(i) \in Envelopes /\ seal(i).deleted = v.env[i].deleted
  <2>1. v.env[i] \in Envelopes /\ remote[i] \in Envelopes
    BY VaultParts DEF Contested, EnvMap, Maybe
  <2>2. Higher(v.env[i].rev, remote[i].rev) + 1 \in Nat \ {0}
    BY <2>1, EnvelopeFacts DEF Higher
  <2>3. seal(i) \in Envelopes
    BY <2>1, <2>2, SealedType, EnvelopeFacts
  <2>4. seal(i).deleted = v.env[i].deleted
    BY DEF Sealed
  <2> QED BY <2>3, <2>4
<1> HIDE DEF seal
<1>2. map \in EnvMap
  BY <1>1, VaultParts DEF EnvMap, Maybe
<1>3. Superseding(v, remote, out) = [v EXCEPT !.env = map]
  BY DEF Superseding, seal
<1>4. Superseding(v, remote, out) \in Vault
      /\ Superseding(v, remote, out).env = map
      /\ Superseding(v, remote, out).locked = v.locked
  BY <1>2, <1>3 DEF Vault
<1> QED BY <1>1, <1>4

(* resolveParked: n forks at n fresh ids, nothing else touched.            *)
LEMMA ResolvedType ==
  ASSUME TypeOK, NEW v \in Vault, NEW n \in 0 .. MaxIds - minted,
         NEW name \in Bijection(FreshIds(n), Forkable(v))
  PROVE  /\ Resolved(v, name) \in Vault
         /\ Resolved(v, name).locked = v.locked
         /\ minted + n \in 0 .. MaxIds /\ FreshIds(n) \subseteq Ids
         /\ \A i \in Ids \ FreshIds(n) : Resolved(v, name).env[i] = v.env[i]
<1>1. /\ minted \in Nat /\ MaxIds \in Nat /\ Ids = 1 .. MaxIds
      /\ minted + n \in 0 .. MaxIds
  BY IdsAssumption DEF TypeOK
<1>2. FreshIds(n) \subseteq Ids
  BY <1>1 DEF FreshIds
<1>3. DOMAIN name = FreshIds(n) /\ \A i \in FreshIds(n) : name[i] \in v.parked
  BY DEF Bijection, Injection, Forkable
<1>4. \A i \in FreshIds(n) : name[i].env.body \in Nat
  BY <1>3, VaultParts, EnvelopeFacts DEF Parked
<1>5. \A i \in FreshIds(n) : Sealed(1, name[i].env.body, FALSE) \in Envelopes
  BY <1>4 DEF Sealed, Envelopes, Envelope, TypeOK
<1> DEFINE map == [id \in Ids |-> IF id \in DOMAIN name
                                  THEN Sealed(1, name[id].env.body, FALSE)
                                  ELSE v.env[id]]
<1>6. map \in EnvMap
  BY <1>3, <1>5, VaultParts DEF EnvMap, Maybe
<1>7. {} \in SUBSET Parked /\ v.marks \cup v.parked \in SUBSET Parked
  BY VaultParts
<1>8. Resolved(v, name) = [v EXCEPT !.env = map, !.parked = {},
                                    !.marks = v.marks \cup v.parked]
  BY DEF Resolved
<1>9. \A i \in Ids \ FreshIds(n) : map[i] = v.env[i]
  BY <1>3
<1> HIDE DEF map
<1>10. /\ Resolved(v, name) \in Vault
       /\ Resolved(v, name).env = map
       /\ Resolved(v, name).locked = v.locked
  BY <1>6, <1>7, <1>8 DEF Vault
<1> QED BY <1>1, <1>2, <1>9, <1>10

-----------------------------------------------------------------------------
(* Only a record both sides hold is contested.                             *)
LEMMA ContestedPresent ==
  ASSUME NEW l \in Maybe, NEW r \in Maybe, NEW b \in Base,
         MergeOne(l, r, b).parked # None
  PROVE  l # None /\ r # None
BY DEF MergeOne, Outcome, Agreed, OnlyLocal

(* A machine's variables, and what it is served.                           *)
LEMMA MachineParts ==
  ASSUME TypeOK, NEW m \in Machines
  PROVE  /\ vault[m] \in Vault /\ state[m] \in State /\ job[m] \in Job
         /\ disk[m] \in [vault : Vault, state : State]
         /\ pc[m] \in PCs
BY DEF TypeOK

(* A delta is a map.                                                       *)
LEMMA AskedType ==
  ASSUME TypeOK, NEW m \in Machines
  PROVE  Asked(m) \in EnvMap /\ \A i \in Ids : Asked(m)[i] \in {None, srv.recs[i]}
BY DEF TypeOK, Store, EnvMap, Asked, Since

(* A pull's merge, id by id.                                               *)
LEMMA MergedType ==
  ASSUME TypeOK, NEW m \in Machines
  PROVE  /\ AllOutcomes(Merged(m))
         /\ \A i \in Ids : Merged(m)[i] =
              MergeOne(vault[m].env[i], Asked(m)[i], state[m].synced[i])
         /\ \A i \in Contested(Merged(m)) :
              vault[m].env[i] # None /\ Asked(m)[i] # None
<1>1. /\ vault[m].env \in EnvMap /\ Asked(m) \in EnvMap
      /\ state[m].synced \in [Ids -> Nat \cup {None}]
  BY MachineParts, AskedType DEF Vault, State
<1>2. \A i \in Ids : /\ vault[m].env[i] \in Maybe /\ Asked(m)[i] \in Maybe
                     /\ state[m].synced[i] \in Base
  BY <1>1 DEF EnvMap, Maybe, Base
<1>3. \A i \in Ids : Merged(m)[i] =
         MergeOne(vault[m].env[i], Asked(m)[i], state[m].synced[i])
  BY <1>1 DEF Merged, MergeMaps, EnvMap
<1>4. \A i \in Ids : Merged(m)[i] \in Outcomes
  BY <1>2, <1>3, MergeOneType
<1>5. \A i \in Contested(Merged(m)) :
        vault[m].env[i] # None /\ Asked(m)[i] # None
  BY <1>2, <1>3, ContestedPresent DEF Contested
<1> QED BY <1>3, <1>4, <1>5 DEF AllOutcomes

(* It is a vault, and at each id stands what merge and applyEnvelopes left,*)
(* up to a fresh seal on the same tombstone or live record.                *)
LEMMA KeptType ==
  ASSUME TypeOK, NEW m \in Machines
  PROVE  /\ Kept(m, Merged(m)) \in Vault /\ Kept(m, Merged(m)).locked = vault[m].locked
         /\ \A i \in Ids :
              LET e == Adopt(vault[m].env[i], Merged(m)[i].env)
              IN  \/ Kept(m, Merged(m)).env[i] = e
                  \/ /\ e # None /\ Kept(m, Merged(m)).env[i] \in Envelopes
                     /\ Kept(m, Merged(m)).env[i].deleted = e.deleted
<1> DEFINE out == Merged(m)
           ap == Applying(vault[m], out)
           pk == Park(ap, Losers(out))
<1>1. vault[m] \in Vault /\ AllOutcomes(out)
  BY MachineParts, MergedType
<1>2. /\ ap \in Vault /\ ap.locked = vault[m].locked
      /\ \A i \in Ids : ap.env[i] = Adopt(vault[m].env[i], out[i].env)
  BY <1>1, ApplyingType
<1>3. pk \in Vault /\ pk.env = ap.env /\ pk.locked = ap.locked
  BY <1>1, <1>2, LosersType, ParkType
<1>4. \A i \in Contested(out) : vault[m].env[i] # None /\ Asked(m)[i] # None
  BY MergedType
<1>5. \A i \in Ids : pk.env[i] = Adopt(vault[m].env[i], out[i].env)
  BY <1>2, <1>3
<1>6. ASSUME NEW i \in Contested(out) PROVE pk.env[i] # None
  <2>1. i \in Ids
    BY DEF Contested
  <2>2. MergeOne(vault[m].env[i], Asked(m)[i], state[m].synced[i]).env # None
    <3>1. vault[m].env[i] # None /\ Asked(m)[i] # None
      BY <1>4
    <3> QED BY <3>1 DEF MergeOne, BothPresent, Diverged, Outcome
  <2>3. out[i].env # None
    BY <2>1, <2>2, MergedType
  <2> QED BY <1>4, <1>5, <2>1, <2>3 DEF Adopt
<1>7. Asked(m) \in EnvMap
  BY AskedType
<1> HIDE DEF out, ap, pk
<1>8. Kept(m, Merged(m)) = Superseding(pk, Asked(m), out)
  BY DEF Kept, out, ap, pk
<1>9. /\ Kept(m, Merged(m)) \in Vault /\ Kept(m, Merged(m)).locked = pk.locked
      /\ \A i \in Ids : \/ Kept(m, Merged(m)).env[i] = pk.env[i]
                        \/ /\ pk.env[i] # None
                           /\ Kept(m, Merged(m)).env[i].deleted = pk.env[i].deleted
                           /\ Kept(m, Merged(m)).env[i] \in Envelopes
  BY <1>3, <1>4, <1>6, <1>7, <1>8, SupersedingType
<1> QED BY <1>2, <1>3, <1>5, <1>9 DEF out

-----------------------------------------------------------------------------
(***************************************************************************)
(* Types, action by action.                                                *)
(***************************************************************************)
(* The empty map, the empty batch.                                         *)
LEMMA EmptyTypes == EmptyMap \in EnvMap /\ NoJob \in Job
BY DEF EmptyMap, EnvMap, NoJob, Job

(* The histories stay sequences of names.                                  *)
LEMMA HistoryType ==
  ASSUME NEW S, NEW h \in Tally(S), NEW name \in S
  PROVE  Counting(h, name) \in Tally(S)
BY DEF Tally, Counting

LEMMA DisturbType ==
  ASSUME TypeOK, NEW d, Disturb(d)
  PROVE  faults' \in Tally(Disturbances)
BY HistoryType DEF Disturb, TypeOK

(* Giving a sync up.                                                       *)
LEMMA GiveUpType ==
  ASSUME TypeOK, NEW m \in Machines, NEW v \in Vault, GiveUp(m, v),
         srv' \in Store, faults' \in Tally(Disturbances)
  PROVE  TypeOK'
<1>1. NoJob \in Job /\ "idle" \in PCs
  BY EmptyTypes DEF PCs
<1>2. vault' \in [Machines -> Vault]
  BY DEF GiveUp, TypeOK
<1>3. disk' \in [Machines -> [vault : Vault, state : State]]
  BY DEF GiveUp, TypeOK
<1>4. pc' \in [Machines -> PCs] /\ job' \in [Machines -> Job]
  BY <1>1 DEF GiveUp, TypeOK
<1> QED BY <1>2, <1>3, <1>4 DEF GiveUp, TypeOK

(* The parts of what a pull leaves behind.                                 *)
LEMMA AfterPullType ==
  ASSUME TypeOK, NEW m \in Machines, NEW v \in Vault,
         NEW forks \in SUBSET Ids, pc[m] \in Pulls,
         AfterPull(m, v, Merged(m), forks),
         minted' \in 0 .. MaxIds, fresh' \in Nat
  PROVE  TypeOK'
<1> DEFINE up == {i \in Ids : Merged(m)[i].push} \cup forks
           push == [i \in Ids |-> IF i \in up THEN v.env[i] ELSE None]
           st == [seq |-> srv.seq, highest |-> Higher(state[m].highest, srv.seq),
                  synced |-> [i \in Ids |-> Merged(m)[i].synced]]
<1>1. srv.seq \in Nat /\ state[m].highest \in Nat
  BY DEF TypeOK, Store, State
<1>2. \A i \in Ids : Merged(m)[i].synced \in Nat \cup {None}
  BY MergedType DEF AllOutcomes, Outcomes, Base
<1>3. st \in State
  BY <1>1, <1>2 DEF State, Higher
<1>4. push \in EnvMap
  BY VaultParts DEF EnvMap, Maybe
<1>5. [push |-> push, seq |-> 0] \in Job
  BY <1>4 DEF Job
<1>6. state' = [state EXCEPT ![m] = st]
  BY DEF AfterPull
<1>7. job' = [job EXCEPT ![m] = [push |-> push, seq |-> 0]]
  BY DEF AfterPull
<1>8. /\ vault' = [vault EXCEPT ![m] = v]
      /\ UNCHANGED <<srv, disk, owed, ops, faults>>
  BY DEF AfterPull
<1>9. \E w \in PCs : pc' = [pc EXCEPT ![m] = w]
  <2>1. pc' = [pc EXCEPT ![m] =
              CASE pc[m] = "pull" /\ up = {} -> "saveVault"
                [] pc[m] = "pull" /\ up # {} -> "push"
                [] pc[m] = "pull409"         -> "push409"
                [] pc[m] = "pull422"         -> "push422"]
    BY DEF AfterPull
  <2> HIDE DEF up
  <2> QED BY <2>1 DEF Pulls, PCs, Pushes
<1> HIDE DEF st, push, up
<1>10. state' \in [Machines -> State]
  BY <1>3, <1>6 DEF TypeOK
<1>11. job' \in [Machines -> Job]
  BY <1>5, <1>7 DEF TypeOK
<1>12. vault' \in [Machines -> Vault] /\ pc' \in [Machines -> PCs]
  BY <1>8, <1>9 DEF TypeOK
<1> QED BY <1>8, <1>10, <1>11, <1>12 DEF TypeOK

(* A push applied.                                                         *)
LEMMA AppliedType ==
  ASSUME TypeOK, NEW m \in Machines
  PROVE  /\ Applied(srv, job[m].push) \in Store
         /\ \A i \in Ids : Applied(srv, job[m].push).recs[i] \in
                            {job[m].push[i], srv.recs[i]}
<1>1. /\ srv.seq \in Nat /\ srv.recs \in EnvMap /\ srv.stamp \in [Ids -> Nat]
      /\ job[m].push \in EnvMap
  BY DEF TypeOK, Store, Job
<1> QED BY <1>1 DEF Applied, Store, EnvMap

(* The user's operation on one machine.                                    *)
LEMMA OperateType ==
  ASSUME TypeOK, NEW m \in Machines, NEW op, NEW v \in Vault, Operate(m, op, v),
         owed' \in SUBSET Nat, minted' \in 0 .. MaxIds
  PROVE  TypeOK'
<1>1. ops' \in Tally(UserOps) /\ fresh' \in Nat
  BY HistoryType DEF Operate, TypeOK
<1>2. vault' \in [Machines -> Vault]
  BY DEF Operate, TypeOK
<1>3. disk' \in [Machines -> [vault : Vault, state : State]]
  BY DEF Operate, TypeOK
<1> QED BY <1>1, <1>2, <1>3 DEF Operate, TypeOK

(* A live record re-sealed at its next revision.                           *)
LEMMA ResealType ==
  ASSUME TypeOK, NEW m \in Machines, NEW i \in Ids, Live(vault[m].env[i]),
         NEW body \in Nat, NEW deleted \in BOOLEAN
  PROVE  /\ vault[m].env[i].body \in Nat
         /\ [vault[m].env EXCEPT ![i] =
               Sealed(vault[m].env[i].rev + 1, body, deleted)] \in EnvMap
<1>1. vault[m].env \in EnvMap /\ vault[m].env[i] \in Envelopes
  BY VaultParts, MachineParts DEF Live, Maybe
<1>2. vault[m].env[i].rev + 1 \in Nat \ {0} /\ vault[m].env[i].body \in Nat
  BY <1>1, EnvelopeFacts
<1>3. Sealed(vault[m].env[i].rev + 1, body, deleted) \in Envelopes
  BY <1>2, SealedType
<1> QED BY <1>1, <1>2, <1>3 DEF EnvMap

(* A pull, however it ends, keeps the types.                               *)
LEMMA PullTypes ==
  ASSUME TypeOK, NEW m \in Machines, Pull(m)
  PROVE  TypeOK'
<1>0. /\ pc[m] \in Pulls
      /\ \/ PullRefused(m, Merged(m)) \/ PullLockedConflict(m, Merged(m))
         \/ PullLocked(m, Merged(m)) \/ PullUnlocked(m, Merged(m))
  BY DEF Pull
<1>1. vault[m] \in Vault /\ AllOutcomes(Merged(m)) /\ srv \in Store /\ faults \in Tally(Disturbances)
  BY MachineParts, MergedType DEF TypeOK
<1>2. CASE PullRefused(m, Merged(m))
  BY <1>1, <1>2, GiveUpType DEF PullRefused
<1>3. CASE PullLockedConflict(m, Merged(m))
  <2>1. Park(vault[m], Losers(Merged(m))) \in Vault
    BY <1>1, LosersType, ParkType
  <2> QED BY <1>1, <1>3, <2>1, GiveUpType DEF PullLockedConflict
<1>4. CASE PullLocked(m, Merged(m))
  <2>1. Applying(vault[m], Merged(m)) \in Vault
    BY <1>1, ApplyingType
  <2>2. minted' \in 0 .. MaxIds /\ fresh' \in Nat /\ pc[m] \in Pulls
    BY <1>0, <1>4 DEF PullLocked, TypeOK
  <2>3. {} \in SUBSET Ids
    OBVIOUS
  <2> QED BY <1>4, <2>1, <2>2, <2>3, AfterPullType DEF PullLocked
<1>5. CASE PullUnlocked(m, Merged(m))
  <2> DEFINE Pulled(n, name) ==
          /\ AfterPull(m, Resolved(Kept(m, Merged(m)), name), Merged(m), FreshIds(n))
          /\ minted' = minted + n
  <2>0. \E n \in 0 .. MaxIds - minted :
          \E name \in Bijection(FreshIds(n), Forkable(Kept(m, Merged(m)))) : Pulled(n, name)
    BY <1>5 DEF PullUnlocked
  <2>1. PICK n \in 0 .. MaxIds - minted :
          \E name \in Bijection(FreshIds(n), Forkable(Kept(m, Merged(m)))) : Pulled(n, name)
    BY <2>0
  <2>2. PICK name \in Bijection(FreshIds(n), Forkable(Kept(m, Merged(m)))) : Pulled(n, name)
    BY <2>1
  <2>3. Kept(m, Merged(m)) \in Vault
    BY KeptType
  <2>4. /\ Resolved(Kept(m, Merged(m)), name) \in Vault
        /\ minted + n \in 0 .. MaxIds /\ FreshIds(n) \in SUBSET Ids
    BY <2>3, ResolvedType
  <2>5. fresh' \in Nat /\ minted' \in 0 .. MaxIds /\ pc[m] \in Pulls
    <3>1. fresh' \in {fresh, fresh + 1} /\ pc[m] \in Pulls
      BY <1>0, <1>5 DEF PullUnlocked
    <3>2. fresh \in Nat
      BY DEF TypeOK
    <3> QED BY <2>2, <2>4, <3>1, <3>2
  <2> QED BY <2>2, <2>4, <2>5, AfterPullType
<1> QED BY <1>0, <1>2, <1>3, <1>4, <1>5

(* The rest of a sync keeps the types.                                     *)
LEMMA SyncTypes ==
  ASSUME TypeOK, NEW m \in Machines, Start(m) \/ SyncStep(m)
  PROVE  TypeOK'
<1>1. vault[m] \in Vault /\ srv \in Store /\ faults \in Tally(Disturbances)
  BY MachineParts DEF TypeOK
<1>2. CASE Start(m)
  BY <1>2 DEF Start, TypeOK, PCs, Pulls
<1>3. CASE Pull(m)
  BY <1>3, PullTypes
<1>4. CASE PushAccepted(m)
  <2>1. srv' \in Store
    BY <1>4, AppliedType DEF PushAccepted
  <2>2. job' \in [Machines -> Job]
    <3>1. srv.seq + 1 \in Nat /\ job[m] \in Job
      BY DEF TypeOK, Store
    <3>2. [job[m] EXCEPT !.seq = srv.seq + 1] \in Job
      BY <3>1 DEF Job
    <3>3. job' = [job EXCEPT ![m] = [job[m] EXCEPT !.seq = srv.seq + 1]]
      BY <1>4 DEF PushAccepted
    <3> QED BY <3>2, <3>3 DEF TypeOK
  <2>3. pc' \in [Machines -> PCs]
    BY <1>4 DEF PushAccepted, TypeOK, PCs
  <2> QED BY <1>4, <2>1, <2>2, <2>3 DEF PushAccepted, TypeOK
<1>5. CASE PushRetried(m)
  <2>1. pc' \in [Machines -> PCs]
    BY <1>5 DEF PushRetried, TypeOK, PCs, Pulls
  <2> QED BY <1>5, <2>1 DEF PushRetried, TypeOK
<1>6. CASE PushGivenUp(m)
  BY <1>1, <1>6, GiveUpType DEF PushGivenUp
<1>7. CASE VerifyRefused(m)
  BY <1>1, <1>7, GiveUpType DEF VerifyRefused
<1>8. CASE VerifyConfirmed(m)
  <2> DEFINE st == [seq |-> job[m].seq, highest |-> Higher(state[m].highest, job[m].seq),
                    synced |-> ConfirmPushed(state[m].synced, job[m].push)]
  <2>1. /\ job[m].seq \in Nat /\ job[m].push \in EnvMap
        /\ state[m].highest \in Nat /\ state[m].synced \in [Ids -> Nat \cup {None}]
    BY DEF TypeOK, Job, State
  <2>2. \A i \in Ids : job[m].push[i] # None => job[m].push[i].rev \in Nat
    BY <2>1, EnvelopeFacts DEF EnvMap
  <2>3. ConfirmPushed(state[m].synced, job[m].push) \in [Ids -> Nat \cup {None}]
    BY <2>1, <2>2 DEF ConfirmPushed
  <2>4. st \in State
    BY <2>1, <2>3 DEF State, Higher
  <2>5. state' = [state EXCEPT ![m] = st]
    BY <1>8 DEF VerifyConfirmed
  <2> HIDE DEF st
  <2>6. state' \in [Machines -> State]
    BY <2>4, <2>5 DEF TypeOK
  <2>7. job' \in [Machines -> Job] /\ pc' \in [Machines -> PCs]
    BY <1>8, EmptyTypes DEF VerifyConfirmed, TypeOK, PCs
  <2> QED BY <1>8, <2>6, <2>7 DEF VerifyConfirmed, TypeOK
<1>9. CASE SaveVault(m)
  <2>1. disk' \in [Machines -> [vault : Vault, state : State]]
    BY <1>1, <1>9 DEF SaveVault, TypeOK
  <2> QED BY <1>9, <2>1 DEF SaveVault, TypeOK, PCs
<1>10. CASE SaveState(m)
  <2>1. disk' \in [Machines -> [vault : Vault, state : State]]
    BY <1>10 DEF SaveState, TypeOK
  <2> QED BY <1>10, <2>1, EmptyTypes DEF SaveState, TypeOK, PCs
<1> QED BY <1>2, <1>3, <1>4, <1>5, <1>6, <1>7, <1>8, <1>9, <1>10 DEF SyncStep

(* What people do keeps the types.                                         *)
LEMMA UserTypes ==
  ASSUME TypeOK, NEW m \in Machines, UserStep(m) \/ Unlock(m)
  PROVE  TypeOK'
<1>1. vault[m] \in Vault /\ fresh \in Nat /\ owed \in SUBSET Nat
      /\ minted \in 0 .. MaxIds
  BY MachineParts DEF TypeOK
<1>2. CASE Add(m)
  <2>1. minted + 1 \in Ids /\ minted' \in 0 .. MaxIds
    BY <1>1, <1>2, IdsAssumption DEF Add
  <2>2. Sealed(1, fresh, FALSE) \in Envelopes
    BY <1>1 DEF Sealed, Envelopes, Envelope
  <2>3. [vault[m].env EXCEPT ![minted + 1] = Sealed(1, fresh, FALSE)] \in EnvMap
    BY <1>1, <2>1, <2>2, VaultParts DEF EnvMap
  <2>4. [vault[m] EXCEPT !.env[minted + 1] = Sealed(1, fresh, FALSE)] \in Vault
    BY <1>1, <2>3 DEF Vault
  <2>5. owed' \in SUBSET Nat
    BY <1>1, <1>2 DEF Add
  <2> QED BY <1>2, <2>1, <2>4, <2>5, OperateType DEF Add
<1>3. ASSUME NEW i \in Ids, Edit(m, i) PROVE TypeOK'
  <2>1. Rewrite(m, i, fresh) \in Vault
    BY <1>1, <1>3, ResealType, WithEnvType DEF Edit, Rewrite
  <2>2. owed' \in SUBSET Nat /\ minted' \in 0 .. MaxIds
    BY <1>1, <1>3 DEF Edit
  <2> QED BY <1>3, <2>1, <2>2, OperateType DEF Edit
<1>4. ASSUME NEW i \in Ids, Touch(m, i) PROVE TypeOK'
  <2>1. vault[m].env[i].body \in Nat
    BY <1>1, <1>4, ResealType DEF Touch
  <2>2. Rewrite(m, i, vault[m].env[i].body) \in Vault
    BY <1>1, <1>4, <2>1, ResealType, WithEnvType DEF Touch, Rewrite
  <2> QED BY <1>1, <1>4, <2>2, OperateType DEF Touch
<1>5. ASSUME NEW i \in Ids, Delete(m, i) PROVE TypeOK'
  <2>1. [vault[m].env EXCEPT ![i] = Sealed(vault[m].env[i].rev + 1, 0, TRUE)] \in EnvMap
    BY <1>5, ResealType DEF Delete
  <2>2. [vault[m] EXCEPT !.env[i] = Sealed(vault[m].env[i].rev + 1, 0, TRUE)] \in Vault
    BY <1>1, <2>1 DEF Vault
  <2>3. owed' \in SUBSET Nat /\ minted' \in 0 .. MaxIds
    BY <1>1, <1>5 DEF Delete
  <2> QED BY <1>5, <2>2, <2>3, OperateType DEF Delete
<1>6. CASE Unlock(m)
  <2> DEFINE Opened(n, name) ==
          /\ vault' = [vault EXCEPT ![m] = [Resolved(vault[m], name) EXCEPT !.locked = FALSE]]
          /\ \/ disk' = disk
             \/ disk' = [disk EXCEPT ![m].vault =
                            [Resolved(vault[m], name) EXCEPT !.locked = FALSE]]
          /\ minted' = minted + n
          /\ fresh' \in {fresh, fresh + 1}
  <2>0. PICK n \in 0 .. MaxIds - minted :
          \E name \in Bijection(FreshIds(n), Forkable(vault[m])) : Opened(n, name)
    BY <1>6 DEF Unlock
  <2>1. PICK name \in Bijection(FreshIds(n), Forkable(vault[m])) : Opened(n, name)
    BY <2>0
  <2> DEFINE v == [Resolved(vault[m], name) EXCEPT !.locked = FALSE]
  <2>2. Resolved(vault[m], name) \in Vault /\ minted + n \in 0 .. MaxIds
    BY <1>1, ResolvedType
  <2>3. v \in Vault
    BY <2>2 DEF Vault
  <2> HIDE DEF v
  <2>4. vault' \in [Machines -> Vault]
    BY <2>1, <2>3 DEF TypeOK, v
  <2>5. disk' \in [Machines -> [vault : Vault, state : State]]
    <3>1. disk' = disk \/ disk' = [disk EXCEPT ![m].vault = v]
      BY <2>1 DEF v
    <3> QED BY <2>3, <3>1 DEF TypeOK
  <2>6. fresh' \in Nat
    BY <1>1, <2>1
  <2> QED BY <1>6, <2>1, <2>2, <2>4, <2>5, <2>6 DEF TypeOK, Unlock
<1> QED BY <1>2, <1>3, <1>4, <1>5, <1>6 DEF UserStep

(* Disturbances keep the types.                                            *)
LEMMA DisturbanceTypes ==
  ASSUME TypeOK, NEW m \in Machines, Disturbance(m)
  PROVE  TypeOK'
<1>1. /\ vault[m] \in Vault /\ srv \in Store /\ faults' \in Tally(Disturbances)
      /\ disk[m].vault \in Vault /\ disk[m].state \in State /\ state[m] \in State
  BY MachineParts, DisturbType
     DEF TypeOK, Disturbance, Lock, LoseRequest, LoseAck, Crash, SettingsWrite
<1>2. CASE Lock(m)
  <2>1. [vault[m] EXCEPT !.locked = TRUE] \in Vault
    BY <1>1 DEF Vault
  <2>2. vault' = [vault EXCEPT ![m] = [vault[m] EXCEPT !.locked = TRUE]]
    BY <1>2 DEF Lock
  <2>3. vault' \in [Machines -> Vault]
    BY <2>1, <2>2 DEF TypeOK
  <2> QED BY <1>1, <1>2, <2>3 DEF Lock, TypeOK
<1>3. CASE LoseRequest(m)
  BY <1>1, <1>3, GiveUpType DEF LoseRequest
<1>4. CASE LoseAck(m)
  BY <1>1, <1>4, GiveUpType, AppliedType DEF LoseAck
<1>5. CASE Crash(m)
  <2>1. [disk[m].vault EXCEPT !.locked = TRUE] \in Vault
    BY <1>1 DEF Vault
  <2>2. vault' \in [Machines -> Vault] /\ state' \in [Machines -> State]
    BY <1>1, <1>5, <2>1 DEF Crash, TypeOK
  <2>3. pc' \in [Machines -> PCs] /\ job' \in [Machines -> Job]
    BY <1>5, EmptyTypes DEF Crash, TypeOK, PCs
  <2> QED BY <1>1, <1>5, <2>2, <2>3 DEF Crash, TypeOK
<1>6. CASE SettingsWrite(m)
  <2>1. disk' \in [Machines -> [vault : Vault, state : State]]
    BY <1>1, <1>6 DEF SettingsWrite, TypeOK
  <2> QED BY <1>1, <1>6, <2>1 DEF SettingsWrite, TypeOK
<1> QED BY <1>2, <1>3, <1>4, <1>5, <1>6 DEF Disturbance

(* The first store is well formed.                                         *)
LEMMA FirstStoreType == FirstMap \in EnvMap /\ FirstStore \in Store
<1>1. FirstRecord \in Envelopes
  BY DEF FirstRecord, Envelopes, Envelope
<1>2. FirstMap \in EnvMap
  BY <1>1 DEF FirstMap, EnvMap
<1> QED BY <1>2 DEF FirstStore, Store

(* So are the first vaults and states.                                     *)
LEMMA InitTypes == Init => TypeOK
<1>2. FirstMap \in EnvMap
  BY FirstStoreType
<1>3. FirstStore \in Store
  BY FirstStoreType
<1>4. /\ Synced.vault \in Vault /\ Synced.state \in State
      /\ Blank.vault \in Vault /\ Blank.state \in State
  BY <1>2, EmptyTypes DEF Synced, Blank, NewVault, Vault, State, EmptyMap
<1>5. {Synced, Blank} \subseteq [vault : Vault, state : State]
  BY <1>4 DEF Synced, Blank
<1>6. minted = 1 => minted \in 0 .. MaxIds
  BY IdsAssumption
<1>7. NoneYet \in Tally(UserOps) /\ NoneYet \in Tally(Disturbances)
  BY DEF NoneYet, Tally
<1> SUFFICES ASSUME Init PROVE TypeOK
  OBVIOUS
<1>8. disk \in [Machines -> [vault : Vault, state : State]]
  BY <1>5 DEF Init
<1>9. vault \in [Machines -> Vault] /\ state \in [Machines -> State]
  BY <1>8 DEF Init
<1> QED BY <1>3, <1>6, <1>7, <1>8, <1>9, EmptyTypes DEF Init, TypeOK, PCs

(* The variables keep their types, for every number of machines, ids,      *)
(* operations and faults.                                                  *)
THEOREM TypeCorrect == Spec => []TypeOK
<1>1. TypeOK /\ [Next]_vars => TypeOK'
  <2> SUFFICES ASSUME TypeOK, [Next]_vars PROVE TypeOK'
    OBVIOUS
  <2>1. CASE Restore
    <3>1. srv' \in Store
      BY <2>1, FirstStoreType DEF Restore
    <3>2. faults' \in Tally(Disturbances)
      BY <2>1, DisturbType DEF Restore
    <3> QED BY <2>1, <3>1, <3>2 DEF Restore, TypeOK
  <2>2. CASE UNCHANGED vars
    BY <2>2 DEF vars, TypeOK
  <2> QED BY <2>1, <2>2, SyncTypes, UserTypes, DisturbanceTypes DEF Next
<1> QED BY <1>1, InitTypes, PTL DEF Spec

-----------------------------------------------------------------------------
(***************************************************************************)
(* Deletions stick.                                                        *)
(***************************************************************************)
(* An id not yet handed out stands nowhere.                                *)
Unwritten(map) == \A i \in Ids : i > minted => map[i] = None
Unminted ==
  /\ minted >= 1
  /\ Unwritten(srv.recs)
  /\ \A m \in Machines : /\ Unwritten(vault[m].env)
                          /\ Unwritten(disk[m].vault.env)
                          /\ Unwritten(job[m].push)

(* A step of one machine that leaves it with vault v, seen from the ids:   *)
(* what it may write, and where.                                           *)
Tidy(m, v) ==
  /\ minted' \in Nat /\ minted' >= minted
  /\ vault' = [vault EXCEPT ![m] = v]
  /\ \A i \in Ids : i > minted' => v.env[i] = None
  /\ srv' = srv \/ srv' = Applied(srv, job[m].push)
  /\ \/ disk' = disk
     \/ disk' = [disk EXCEPT ![m].vault = v]
     \/ disk' = [disk EXCEPT ![m].state = state[m]]
  /\ \/ job' = job
     \/ job' = [job EXCEPT ![m] = NoJob]
     \/ job' = [job EXCEPT ![m].seq = srv.seq + 1]
     \/ \E up \in SUBSET Ids :
          job' = [job EXCEPT ![m] =
            [push |-> [i \in Ids |-> IF i \in up THEN v.env[i] ELSE None], seq |-> 0]]

KeepsTombstones(m, v) ==
  \A i \in Ids : Tombstone(vault[m].env[i]) => Tombstone(v.env[i])

(* Tidy steps keep unminted ids unwritten.                                 *)
LEMMA TidyStep ==
  ASSUME TypeOK, Unminted, NEW m \in Machines, NEW v \in Vault, Tidy(m, v)
  PROVE  Unminted'
<1>1. minted \in Nat /\ minted' \in Nat /\ minted' >= minted /\ Ids \subseteq Nat
  BY IdsAssumption DEF TypeOK, Tidy
<1>2. \A i \in Ids : i > minted' => i > minted
  BY <1>1
<1>3. Unwritten(srv.recs)'
  BY <1>2, AppliedType DEF Tidy, Unminted, Unwritten
<1>4. ASSUME NEW k \in Machines PROVE Unwritten(vault[k].env)'
  <2>1. vault'[k] = vault[k] \/ (k = m /\ vault'[k] = v)
    BY DEF Tidy, TypeOK
  <2> QED BY <1>2, <2>1 DEF Tidy, Unminted, Unwritten
<1>5. ASSUME NEW k \in Machines PROVE Unwritten(disk[k].vault.env)'
  <2>1. disk'[k].vault = disk[k].vault \/ disk'[k].vault = v
    BY DEF Tidy, TypeOK
  <2> QED BY <1>2, <2>1 DEF Tidy, Unminted, Unwritten
<1>6. ASSUME NEW k \in Machines PROVE Unwritten(job[k].push)'
  <2>1. job[m] \in Job /\ job \in [Machines -> Job]
    BY DEF TypeOK
  <2>2. CASE job' = job
    BY <1>2, <2>2 DEF Unminted, Unwritten
  <2>3. CASE job' = [job EXCEPT ![m] = NoJob]
    BY <1>2, <2>1, <2>3 DEF Unminted, Unwritten, NoJob, EmptyMap
  <2>4. CASE job' = [job EXCEPT ![m].seq = srv.seq + 1]
    <3>1. job'[k].push = job[k].push
      BY <2>1, <2>4 DEF Job
    <3> QED BY <1>2, <3>1 DEF Unminted, Unwritten
  <2>5. CASE \E up \in SUBSET Ids :
               job' = [job EXCEPT ![m] =
                 [push |-> [i \in Ids |-> IF i \in up THEN v.env[i] ELSE None],
                  seq |-> 0]]
    <3>1. PICK up \in SUBSET Ids :
               job' = [job EXCEPT ![m] =
                 [push |-> [i \in Ids |-> IF i \in up THEN v.env[i] ELSE None],
                  seq |-> 0]]
      BY <2>5
    <3>2. \/ job'[k].push = job[k].push
          \/ job'[k].push = [i \in Ids |-> IF i \in up THEN v.env[i] ELSE None]
      BY <2>1, <3>1
    <3> QED BY <1>2, <3>2 DEF Unminted, Unwritten, Tidy
  <2> QED BY <2>2, <2>3, <2>4, <2>5 DEF Tidy
<1> QED BY <1>1, <1>3, <1>4, <1>5, <1>6 DEF Unminted

(* What a merge leaves at an id nobody holds, and over a tombstone.        *)
LEMMA MergedAt ==
  ASSUME TypeOK, Unminted, NEW m \in Machines, NEW i \in Ids
  PROVE  LET e == Adopt(vault[m].env[i], Merged(m)[i].env)
         IN  /\ i > minted => e = None
             /\ Tombstone(vault[m].env[i]) => Tombstone(e)
<1>1. /\ vault[m].env[i] \in Maybe /\ Asked(m)[i] \in Maybe
      /\ state[m].synced[i] \in Base
  BY MachineParts, AskedType, VaultParts DEF EnvMap, Maybe, Base, State
<1>2. Merged(m)[i] = MergeOne(vault[m].env[i], Asked(m)[i], state[m].synced[i])
  BY MergedType
<1>3. ASSUME i > minted PROVE Adopt(vault[m].env[i], Merged(m)[i].env) = None
  <2>1. vault[m].env[i] = None /\ Asked(m)[i] = None
    BY <1>3, AskedType DEF Unminted, Unwritten
  <2> QED BY <1>2, <2>1, MergeNothing DEF Adopt
<1>4. ASSUME Tombstone(vault[m].env[i])
      PROVE  Tombstone(Adopt(vault[m].env[i], Merged(m)[i].env))
  <2>1. Tombstone(Merged(m)[i].env)
    BY <1>1, <1>2, <1>4, MergeKeepsTombstone
  <2> QED BY <2>1 DEF Adopt, Tombstone, Live
<1> QED BY <1>3, <1>4

(* Forking keeps both: a fresh id carried nothing, tombstone or other.     *)
LEMMA ResolvedTidy ==
  ASSUME TypeOK, Unminted, NEW v \in Vault, NEW n \in 0 .. MaxIds - minted,
         NEW name \in Bijection(FreshIds(n), Forkable(v)),
         Unwritten(v.env)
  PROVE  /\ \A i \in Ids : i > minted + n => Resolved(v, name).env[i] = None
         /\ \A i \in Ids : Tombstone(v.env[i]) => Tombstone(Resolved(v, name).env[i])
<1>1. minted \in Nat /\ n \in Nat /\ Ids \subseteq Nat
  BY IdsAssumption DEF TypeOK
<1>2. \A i \in Ids \ FreshIds(n) : Resolved(v, name).env[i] = v.env[i]
  BY ResolvedType
<1>3. \A i \in Ids : i > minted + n => i \notin FreshIds(n) /\ i > minted
  BY <1>1 DEF FreshIds
<1>4. \A i \in Ids : Tombstone(v.env[i]) => i \notin FreshIds(n)
  BY <1>1 DEF FreshIds, Tombstone, Unwritten
<1> QED BY <1>2, <1>3, <1>4 DEF Unwritten

-----------------------------------------------------------------------------
(* A machine that gives up, or goes on, with the vault it has.             *)
LEMMA SameVault ==
  ASSUME TypeOK, Unminted, NEW m \in Machines
  PROVE  /\ vault[m] \in Vault /\ KeepsTombstones(m, vault[m])
         /\ [vault EXCEPT ![m] = vault[m]] = vault
         /\ \A i \in Ids : i > minted => vault[m].env[i] = None
         /\ minted \in Nat
BY MachineParts DEF KeepsTombstones, Unminted, Unwritten, TypeOK

(* Giving up is tidy.                                                      *)
LEMMA GiveUpTidy ==
  ASSUME TypeOK, Unminted, NEW m \in Machines, NEW v \in Vault,
         v.env = vault[m].env, GiveUp(m, v),
         srv' = srv \/ srv' = Applied(srv, job[m].push)
  PROVE  Tidy(m, v) /\ KeepsTombstones(m, v)
<1>1. /\ vault' = [vault EXCEPT ![m] = v]
      /\ disk' = [disk EXCEPT ![m].vault = v]
      /\ job' = [job EXCEPT ![m] = NoJob]
      /\ minted' = minted
  BY DEF GiveUp
<1>2. minted \in Nat /\ \A i \in Ids : i > minted => v.env[i] = None
  BY SameVault
<1>3. KeepsTombstones(m, v)
  BY DEF KeepsTombstones
<1> QED BY <1>1, <1>2, <1>3 DEF Tidy

(* A step that touches neither this vault nor any id.                      *)
LEMMA IdleTidy ==
  ASSUME TypeOK, Unminted, NEW m \in Machines, UNCHANGED <<vault, minted>>,
         srv' = srv \/ srv' = Applied(srv, job[m].push),
         \/ disk' = disk
         \/ disk' = [disk EXCEPT ![m].vault = vault[m]]
         \/ disk' = [disk EXCEPT ![m].state = state[m]],
         \/ job' = job
         \/ job' = [job EXCEPT ![m] = NoJob]
         \/ job' = [job EXCEPT ![m].seq = srv.seq + 1]
  PROVE  \E v \in Vault : Tidy(m, v) /\ KeepsTombstones(m, v)
<1>1. Tidy(m, vault[m])
  BY SameVault DEF Tidy
<1> QED BY <1>1, SameVault

(* What a merge leaves behind is tidy when the vault it leaves is.         *)
LEMMA AfterPullTidy ==
  ASSUME TypeOK, Unminted, NEW m \in Machines, NEW v \in Vault,
         NEW forks \in SUBSET Ids, AfterPull(m, v, Merged(m), forks),
         minted' \in Nat, minted' >= minted,
         \A i \in Ids : i > minted' => v.env[i] = None
  PROVE  Tidy(m, v)
<1> DEFINE ups == {i \in Ids : Merged(m)[i].push} \cup forks
<1>1. ups \in SUBSET Ids
  OBVIOUS
<1>2. job' = [job EXCEPT ![m] =
        [push |-> [i \in Ids |-> IF i \in ups THEN v.env[i] ELSE None], seq |-> 0]]
  BY DEF AfterPull
<1>3. vault' = [vault EXCEPT ![m] = v] /\ UNCHANGED <<srv, disk>>
  BY DEF AfterPull
<1> HIDE DEF ups
<1> QED BY <1>1, <1>2, <1>3 DEF Tidy

(* A pull is tidy and undoes no deletion.                                  *)
LEMMA PullTidy ==
  ASSUME TypeOK, Unminted, NEW m \in Machines, Pull(m)
  PROVE  \E v \in Vault : Tidy(m, v) /\ KeepsTombstones(m, v)
<1>0. /\ pc[m] \in Pulls
      /\ \/ PullRefused(m, Merged(m)) \/ PullLockedConflict(m, Merged(m))
         \/ PullLocked(m, Merged(m)) \/ PullUnlocked(m, Merged(m))
  BY DEF Pull
<1>1. AllOutcomes(Merged(m))
  BY MergedType
<1>2. CASE PullRefused(m, Merged(m))
  BY <1>2, SameVault, GiveUpTidy DEF PullRefused
<1>3. CASE PullLockedConflict(m, Merged(m))
  <2> DEFINE v == Park(vault[m], Losers(Merged(m)))
  <2>1. v \in Vault /\ v.env = vault[m].env
    BY <1>1, SameVault, LosersType, ParkType
  <2> HIDE DEF v
  <2>2. GiveUp(m, v) /\ UNCHANGED srv
    BY <1>3 DEF PullLockedConflict, v
  <2> QED BY <2>1, <2>2, GiveUpTidy
<1>4. CASE PullLocked(m, Merged(m))
  <2> DEFINE v == Applying(vault[m], Merged(m))
  <2>1. v \in Vault /\ \A i \in Ids : v.env[i] = Adopt(vault[m].env[i], Merged(m)[i].env)
    BY <1>1, SameVault, ApplyingType
  <2> HIDE DEF v
  <2>2. AfterPull(m, v, Merged(m), {}) /\ minted' = minted
    BY <1>4 DEF PullLocked, v
  <2>3. {} \in SUBSET Ids /\ minted \in Nat
    BY SameVault
  <2>4. \A i \in Ids : i > minted => v.env[i] = None
    BY <2>1, MergedAt
  <2>5. KeepsTombstones(m, v)
    BY <2>1, MergedAt DEF KeepsTombstones
  <2>6. Tidy(m, v)
    BY <2>1, <2>2, <2>3, <2>4, AfterPullTidy
  <2> QED BY <2>1, <2>5, <2>6
<1>5. CASE PullUnlocked(m, Merged(m))
  <2> DEFINE Pulled(n, name) ==
          /\ AfterPull(m, Resolved(Kept(m, Merged(m)), name), Merged(m), FreshIds(n))
          /\ minted' = minted + n
  <2>1. PICK n \in 0 .. MaxIds - minted :
          \E name \in Bijection(FreshIds(n), Forkable(Kept(m, Merged(m)))) : Pulled(n, name)
    BY <1>5 DEF PullUnlocked
  <2>2. PICK name \in Bijection(FreshIds(n), Forkable(Kept(m, Merged(m)))) : Pulled(n, name)
    BY <2>1
  <2> DEFINE v == Resolved(Kept(m, Merged(m)), name)
  <2>3. Kept(m, Merged(m)) \in Vault
    BY KeptType
  <2>4. \A i \in Ids : i > minted => Kept(m, Merged(m)).env[i] = None
    BY KeptType, MergedAt
  <2>5. ASSUME NEW i \in Ids, Tombstone(vault[m].env[i])
        PROVE  Tombstone(Kept(m, Merged(m)).env[i])
    <3> DEFINE e == Adopt(vault[m].env[i], Merged(m)[i].env)
    <3>1. Tombstone(e)
      BY <2>5, MergedAt
    <3>2. \/ Kept(m, Merged(m)).env[i] = e
          \/ Kept(m, Merged(m)).env[i] \in Envelopes /\ Kept(m, Merged(m)).env[i].deleted = e.deleted
      BY KeptType
    <3> HIDE DEF e
    <3> QED BY <3>1, <3>2, EnvelopeFacts DEF Tombstone
  <2>6. v \in Vault /\ FreshIds(n) \subseteq Ids
    BY <2>3, ResolvedType
  <2>7. /\ \A i \in Ids : i > minted + n => v.env[i] = None
        /\ KeepsTombstones(m, v)
    BY <2>3, <2>4, <2>5, ResolvedTidy DEF Unwritten, KeepsTombstones
  <2> HIDE DEF v
  <2>8. AfterPull(m, v, Merged(m), FreshIds(n)) /\ minted' = minted + n
    BY <2>2 DEF v
  <2>9. minted' \in Nat /\ minted' >= minted
    BY <2>8, SameVault
  <2>10. Tidy(m, v)
    BY <2>6, <2>7, <2>8, <2>9, AfterPullTidy
  <2> QED BY <2>6, <2>7, <2>10
<1> QED BY <1>0, <1>2, <1>3, <1>4, <1>5

(* So is the rest of a sync.                                               *)
LEMMA SyncTidy ==
  ASSUME TypeOK, Unminted, NEW m \in Machines, Start(m) \/ SyncStep(m)
  PROVE  \E v \in Vault : Tidy(m, v) /\ KeepsTombstones(m, v)
<1>1. CASE Start(m)
  BY <1>1, IdleTidy DEF Start
<1>2. CASE Pull(m)
  BY <1>2, PullTidy
<1>3. CASE PushAccepted(m)
  BY <1>3, IdleTidy DEF PushAccepted
<1>4. CASE PushRetried(m)
  BY <1>4, IdleTidy DEF PushRetried
<1>5. CASE PushGivenUp(m)
  BY <1>5, SameVault, GiveUpTidy DEF PushGivenUp
<1>6. CASE VerifyRefused(m)
  BY <1>6, SameVault, GiveUpTidy DEF VerifyRefused
<1>7. CASE VerifyConfirmed(m)
  BY <1>7, IdleTidy DEF VerifyConfirmed
<1>8. CASE SaveVault(m)
  BY <1>8, IdleTidy DEF SaveVault
<1>9. CASE SaveState(m)
  BY <1>9, IdleTidy DEF SaveState
<1> QED BY <1>1, <1>2, <1>3, <1>4, <1>5, <1>6, <1>7, <1>8, <1>9 DEF SyncStep

(* A person's operation asks for a live record, or for a new id.           *)
LEMMA UserTidy ==
  ASSUME TypeOK, Unminted, NEW m \in Machines, UserStep(m) \/ Unlock(m)
  PROVE  \E v \in Vault : Tidy(m, v) /\ KeepsTombstones(m, v)
<1>1. vault[m] \in Vault /\ vault[m].env \in EnvMap /\ fresh \in Nat /\ minted \in Nat
      /\ Ids \subseteq Nat
  BY MachineParts, VaultParts, IdsAssumption DEF TypeOK
<1>2. CASE Add(m)
  <2> DEFINE map == [vault[m].env EXCEPT ![minted + 1] = Sealed(1, fresh, FALSE)]
             v == [vault[m] EXCEPT !.env[minted + 1] = Sealed(1, fresh, FALSE)]
  <2>1. Sealed(1, fresh, FALSE) \in Envelopes /\ minted + 1 \in Ids
    BY <1>1, <1>2, IdsAssumption DEF Sealed, Envelopes, Envelope, Add
  <2>2. map \in EnvMap
    BY <1>1, <2>1 DEF EnvMap
  <2>3. v \in Vault /\ v.env = map
    BY <1>1, <2>2 DEF Vault
  <2>4. \A i \in Ids : i > minted + 1 => map[i] = None
    <3> SUFFICES ASSUME NEW i \in Ids, i > minted + 1 PROVE map[i] = None
      OBVIOUS
    <3>1. i > minted /\ i # minted + 1
      BY <1>1
    <3> QED BY <1>1, <3>1, SameVault DEF EnvMap
  <2>5. \A i \in Ids : Tombstone(vault[m].env[i]) => map[i] = vault[m].env[i]
    <3> SUFFICES ASSUME NEW i \in Ids, Tombstone(vault[m].env[i])
                 PROVE  map[i] = vault[m].env[i]
      OBVIOUS
    <3>1. ~(i > minted)
      BY SameVault DEF Tombstone
    <3>2. i # minted + 1
      BY <1>1, <3>1
    <3> QED BY <1>1, <3>2 DEF EnvMap
  <2>6. Operate(m, "add", v) /\ minted' = minted + 1
    BY <1>2 DEF Add
  <2> HIDE DEF v, map
  <2>7. Tidy(m, v) /\ KeepsTombstones(m, v)
    BY <1>1, <2>3, <2>4, <2>5, <2>6 DEF Operate, Tidy, KeepsTombstones
  <2> QED BY <2>3, <2>7
<1>3. ASSUME NEW i \in Ids, NEW body \in Nat, NEW op, Live(vault[m].env[i]),
             Operate(m, op, Rewrite(m, i, body)), minted' = minted
      PROVE  \E v \in Vault : Tidy(m, v) /\ KeepsTombstones(m, v)
  <2> DEFINE map == [vault[m].env EXCEPT
                       ![i] = Sealed(vault[m].env[i].rev + 1, body, FALSE)]
             v == Rewrite(m, i, body)
  <2>1. map \in EnvMap
    BY <1>3, ResealType
  <2>2. v \in Vault /\ v.env = map
    BY <1>1, <2>1, WithEnvType DEF Rewrite
  <2>3. \A k \in Ids : k # i => map[k] = vault[m].env[k]
    BY <1>1 DEF EnvMap
  <2>4. vault[m].env[i] # None /\ ~Tombstone(vault[m].env[i])
    BY <1>3 DEF Live, Tombstone
  <2> HIDE DEF v, map
  <2>5. Tidy(m, v) /\ KeepsTombstones(m, v)
    BY <1>1, <1>3, <2>2, <2>3, <2>4, SameVault DEF Operate, Tidy, KeepsTombstones, v
  <2> QED BY <2>2, <2>5
<1>4. ASSUME NEW i \in Ids, Edit(m, i) \/ Touch(m, i)
      PROVE  \E v \in Vault : Tidy(m, v) /\ KeepsTombstones(m, v)
  <2>1. CASE Edit(m, i)
    BY <1>1, <1>3, <2>1 DEF Edit
  <2>2. CASE Touch(m, i)
    <3>1. vault[m].env[i].body \in Nat
      BY <2>2, ResealType DEF Touch
    <3> QED BY <1>3, <2>2, <3>1 DEF Touch
  <2> QED BY <1>4, <2>1, <2>2
<1>5. ASSUME NEW i \in Ids, Delete(m, i)
      PROVE  \E v \in Vault : Tidy(m, v) /\ KeepsTombstones(m, v)
  <2> DEFINE map == [vault[m].env EXCEPT ![i] = Sealed(vault[m].env[i].rev + 1, 0, TRUE)]
             v == [vault[m] EXCEPT !.env[i] = Sealed(vault[m].env[i].rev + 1, 0, TRUE)]
  <2>1. map \in EnvMap
    BY <1>5, ResealType DEF Delete
  <2>2. v \in Vault /\ v.env = map
    BY <1>1, <2>1 DEF Vault
  <2>3. \A k \in Ids : k # i => map[k] = vault[m].env[k]
    BY <1>1 DEF EnvMap
  <2>4. vault[m].env[i] # None /\ ~Tombstone(vault[m].env[i])
    BY <1>5 DEF Live, Tombstone, Delete
  <2>5. Operate(m, "delete", v) /\ minted' = minted
    BY <1>5 DEF Delete
  <2> HIDE DEF v, map
  <2>6. Tidy(m, v) /\ KeepsTombstones(m, v)
    BY <1>1, <2>2, <2>3, <2>4, <2>5, SameVault DEF Operate, Tidy, KeepsTombstones
  <2> QED BY <2>2, <2>6
<1>6. CASE Unlock(m)
  <2> DEFINE Opened(n, name) ==
          LET w == [Resolved(vault[m], name) EXCEPT !.locked = FALSE]
          IN  /\ vault' = [vault EXCEPT ![m] = w]
              /\ disk' = disk \/ disk' = [disk EXCEPT ![m].vault = w]
              /\ minted' = minted + n
  <2>1. PICK n \in 0 .. MaxIds - minted :
          \E name \in Bijection(FreshIds(n), Forkable(vault[m])) : Opened(n, name)
    BY <1>6 DEF Unlock
  <2>2. PICK name \in Bijection(FreshIds(n), Forkable(vault[m])) : Opened(n, name)
    BY <2>1
  <2> DEFINE r == Resolved(vault[m], name)
             v == [r EXCEPT !.locked = FALSE]
  <2>3. r \in Vault
    BY <1>1, ResolvedType
  <2>4. v \in Vault /\ v.env = r.env
    BY <2>3 DEF Vault
  <2>5. /\ \A i \in Ids : i > minted + n => v.env[i] = None
        /\ KeepsTombstones(m, v)
    BY <1>1, <2>4, SameVault, ResolvedTidy DEF Unwritten, KeepsTombstones
  <2>6. /\ vault' = [vault EXCEPT ![m] = v]
        /\ disk' = disk \/ disk' = [disk EXCEPT ![m].vault = v]
        /\ minted' = minted + n /\ UNCHANGED <<srv, job>>
    BY <1>6, <2>2 DEF Unlock
  <2> HIDE DEF v
  <2>7. Tidy(m, v)
    BY <1>1, <2>5, <2>6 DEF Tidy
  <2> QED BY <2>4, <2>5, <2>7
<1> QED BY <1>2, <1>4, <1>5, <1>6 DEF UserStep

(* Disturbances are tidy too, and only a crash may undo a deletion.        *)
LEMMA DisturbanceTidy ==
  ASSUME TypeOK, Unminted, NEW m \in Machines, Disturbance(m)
  PROVE  \E v \in Vault : Tidy(m, v) /\ (Crash(m) \/ KeepsTombstones(m, v))
<1>1. CASE Lock(m)
  <2> DEFINE v == [vault[m] EXCEPT !.locked = TRUE]
  <2>1. v \in Vault /\ v.env = vault[m].env
    BY MachineParts DEF Vault
  <2>2. /\ vault' = [vault EXCEPT ![m] = v]
        /\ UNCHANGED <<srv, disk, job, minted>>
    BY <1>1 DEF Lock
  <2> HIDE DEF v
  <2>3. Tidy(m, v)
    BY <2>1, <2>2, SameVault DEF Tidy
  <2> QED BY <2>1, <2>3 DEF KeepsTombstones
<1>2. CASE LoseRequest(m)
  BY <1>2, SameVault, GiveUpTidy DEF LoseRequest
<1>3. CASE LoseAck(m)
  BY <1>3, SameVault, GiveUpTidy DEF LoseAck
<1>4. CASE Crash(m)
  <2> DEFINE v == [disk[m].vault EXCEPT !.locked = TRUE]
  <2>1. v \in Vault /\ v.env = disk[m].vault.env
    <3>1. disk[m].vault \in Vault
      BY MachineParts
    <3> QED BY <3>1 DEF Vault
  <2>2. /\ vault' = [vault EXCEPT ![m] = v]
        /\ job' = [job EXCEPT ![m] = NoJob]
        /\ UNCHANGED <<srv, disk, minted>>
    BY <1>4 DEF Crash
  <2>3. minted \in Nat /\ \A i \in Ids : i > minted => v.env[i] = None
    BY <2>1, SameVault DEF Unminted, Unwritten
  <2> HIDE DEF v
  <2>4. Tidy(m, v)
    BY <2>2, <2>3 DEF Tidy
  <2> QED BY <1>4, <2>1, <2>4
<1>5. CASE SettingsWrite(m)
  BY <1>5, IdleTidy DEF SettingsWrite
<1> QED BY <1>1, <1>2, <1>3, <1>4, <1>5 DEF Disturbance

(* Every step is one machine's tidy step, the restoring of the server, or  *)
(* a stutter.                                                              *)
LEMMA StepTidy ==
  ASSUME TypeOK, Unminted, [Next]_vars
  PROVE  \/ \E m \in Machines, v \in Vault :
              Tidy(m, v) /\ (Crash(m) \/ KeepsTombstones(m, v))
         \/ Restore
         \/ UNCHANGED vars
BY SyncTidy, UserTidy, DisturbanceTidy DEF Next

(* The inductive invariant: types, and ids not handed out stand nowhere.   *)
THEOREM UnmintedInvariant == Spec => [](TypeOK /\ Unminted)
<1>1. Init => Unminted
  <2> SUFFICES ASSUME Init PROVE Unminted
    OBVIOUS
  <2>1. minted = 1 /\ Ids \subseteq Nat
    BY IdsAssumption DEF Init
  <2>2. Unwritten(FirstMap) /\ Unwritten(EmptyMap)
    BY <2>1 DEF Unwritten, FirstMap, EmptyMap
  <2>3. Unwritten(srv.recs)
    BY <2>2 DEF Init, FirstStore
  <2>4. ASSUME NEW m \in Machines
        PROVE  /\ Unwritten(vault[m].env) /\ Unwritten(disk[m].vault.env)
               /\ Unwritten(job[m].push)
    <3>1. /\ vault[m] = disk[m].vault /\ disk[m] \in {Synced, Blank}
          /\ job[m].push = EmptyMap
      BY DEF Init, NoJob
    <3>2. Synced.vault.env = FirstMap /\ Blank.vault.env = EmptyMap
      BY DEF Synced, Blank, NewVault
    <3> QED BY <2>2, <3>1, <3>2
  <2> QED BY <2>1, <2>3, <2>4 DEF Unminted
<1>2. TypeOK /\ Unminted /\ [Next]_vars => Unminted'
  <2> SUFFICES ASSUME TypeOK, Unminted, [Next]_vars PROVE Unminted'
    OBVIOUS
  <2>1. CASE \E m \in Machines, v \in Vault : Tidy(m, v)
    BY <2>1, TidyStep
  <2>2. CASE Restore
    <3>1. \A i \in Ids : i > minted => i # 1
      BY IdsAssumption DEF Unminted, TypeOK
    <3>2. Unwritten(FirstStore.recs)
      BY <3>1 DEF FirstStore, FirstMap, Unwritten
    <3> QED BY <2>2, <3>2 DEF Restore, Unminted, Unwritten
  <2>3. CASE UNCHANGED vars
    BY <2>3 DEF vars, Unminted, Unwritten
  <2> QED BY <2>1, <2>2, <2>3, StepTidy
<1> QED BY <1>1, <1>2, TypeCorrect, PTL DEF Spec

(* Deletions stick: while a machine runs, no pull, retry, fork, unlock or  *)
(* restored server puts a live record back where it holds a tombstone.     *)
THEOREM DeletionsAreFinal == Spec => DeletionsStick
<1> DEFINE Final ==
      \A m \in Machines, i \in Ids :
        Tombstone(vault[m].env[i]) => Crash(m) \/ Tombstone(vault'[m].env[i])
<1>1. TypeOK /\ Unminted /\ [Next]_vars => [Final]_vars
  <2> SUFFICES ASSUME TypeOK, Unminted, [Next]_vars,
                      NEW m \in Machines, NEW i \in Ids,
                      Tombstone(vault[m].env[i]), ~Crash(m)
               PROVE  Tombstone(vault'[m].env[i])
    OBVIOUS
  <2>1. CASE \E k \in Machines, v \in Vault :
               Tidy(k, v) /\ (Crash(k) \/ KeepsTombstones(k, v))
    <3>1. PICK k \in Machines, v \in Vault :
               Tidy(k, v) /\ (Crash(k) \/ KeepsTombstones(k, v))
      BY <2>1
    <3>2. vault' = [vault EXCEPT ![k] = v]
      BY <3>1 DEF Tidy
    <3>3. vault'[m] = vault[m] \/ (k = m /\ vault'[m] = v)
      BY <3>2 DEF TypeOK
    <3> QED BY <3>1, <3>3 DEF KeepsTombstones
  <2>2. CASE Restore \/ UNCHANGED vars
    BY <2>2 DEF Restore, vars
  <2> QED BY <2>1, <2>2, StepTidy
<1> QED BY <1>1, UnmintedInvariant, PTL DEF Spec, DeletionsStick

-----------------------------------------------------------------------------
(***************************************************************************)
(* What is parked is kept.                                                 *)
(***************************************************************************)
KeepsParked(m, v) ==
  \A e \in vault[m].parked \ v.parked :
    e.env.deleted \/ e.env.body \in LiveBodies(v)

(* Every parked envelope becomes a record of its own, or one shows it: a   *)
(* fork never lands on the very record that made forking unnecessary.      *)
LEMMA ResolvedShows ==
  ASSUME TypeOK, NEW v \in Vault, Unwritten(v.env),
         NEW n \in 0 .. MaxIds - minted,
         NEW name \in Bijection(FreshIds(n), Forkable(v)),
         NEW e \in v.parked, ~e.env.deleted
  PROVE  e.env.body \in LiveBodies(Resolved(v, name))
<1> DEFINE r == Resolved(v, name)
<1>1. FreshIds(n) \subseteq Ids /\ DOMAIN name = FreshIds(n)
  BY ResolvedType DEF Bijection, Injection
<1>2. CASE e \in Forkable(v)
  <2>1. PICK i \in FreshIds(n) : name[i] = e
    BY <1>2 DEF Bijection, Surjection
  <2>2. i \in Ids /\ r.env[i] = Sealed(1, e.env.body, FALSE)
    BY <1>1, <2>1 DEF Resolved, Vault
  <2>3. e.env.body \in Nat
    BY VaultParts, EnvelopeFacts DEF Parked
  <2> DEFINE fork == Sealed(1, e.env.body, FALSE)
  <2>4. fork \in Envelopes /\ fork.deleted = FALSE /\ fork.body = e.env.body
    BY <2>3 DEF Sealed, Envelopes, Envelope, TypeOK
  <2> HIDE DEF fork, r
  <2>5. Live(r.env[i]) /\ r.env[i].body = e.env.body
    BY <2>2, <2>4, EnvelopeFacts DEF Live, fork, r
  <2> QED BY <2>2, <2>5 DEF LiveBodies, r
<1>3. CASE e \notin Forkable(v)
  <2>1. Live(v.env[e.id]) /\ v.env[e.id].body = e.env.body
    BY <1>3 DEF Forkable
  <2>2. e.id \in Ids
    BY VaultParts DEF Parked
  <2>3. minted \in Nat /\ Ids \subseteq Nat
    BY IdsAssumption DEF TypeOK
  <2>4. e.id \notin FreshIds(n)
    BY <2>1, <2>2, <2>3 DEF Live, Unwritten, FreshIds
  <2>5. r.env[e.id] = v.env[e.id]
    BY <2>2, <2>4, ResolvedType
  <2> HIDE DEF r
  <2> QED BY <2>1, <2>2, <2>5 DEF LiveBodies, r
<1> QED BY <1>2, <1>3

(* A pull parks what lost before it forks anything.                        *)
LEMMA KeptParked ==
  ASSUME TypeOK, NEW m \in Machines
  PROVE  /\ Kept(m, Merged(m)).parked =
               vault[m].parked \cup (Losers(Merged(m)) \ vault[m].marks)
         /\ Applying(vault[m], Merged(m)).parked = vault[m].parked
BY MachineParts
   DEF Kept, Superseding, Park, Applying, WithEnv, Vault

(* A pull, whether it forks, parks or gives up, keeps what was parked.     *)
LEMMA PullParks ==
  ASSUME TypeOK, Unminted, NEW m \in Machines, Pull(m)
  PROVE  \E v \in Vault : vault' = [vault EXCEPT ![m] = v] /\ KeepsParked(m, v)
<1>0. /\ pc[m] \in Pulls
      /\ \/ PullRefused(m, Merged(m)) \/ PullLockedConflict(m, Merged(m))
         \/ PullLocked(m, Merged(m)) \/ PullUnlocked(m, Merged(m))
  BY DEF Pull
<1>1. vault[m] \in Vault /\ AllOutcomes(Merged(m))
  BY MachineParts, MergedType
<1>2. CASE PullRefused(m, Merged(m))
  BY <1>1, <1>2 DEF PullRefused, GiveUp, KeepsParked
<1>3. CASE PullLockedConflict(m, Merged(m))
  <2> DEFINE v == Park(vault[m], Losers(Merged(m)))
  <2>1. v \in Vault
    BY <1>1, LosersType, ParkType
  <2>2. vault[m].parked \subseteq v.parked
    BY <1>1 DEF Park, Vault
  <2>3. vault' = [vault EXCEPT ![m] = v]
    BY <1>3 DEF PullLockedConflict, GiveUp
  <2> HIDE DEF v
  <2> QED BY <2>1, <2>2, <2>3 DEF KeepsParked
<1>4. CASE PullLocked(m, Merged(m))
  <2> DEFINE v == Applying(vault[m], Merged(m))
  <2>1. v \in Vault /\ v.parked = vault[m].parked
    BY <1>1, ApplyingType, KeptParked
  <2>2. vault' = [vault EXCEPT ![m] = v]
    BY <1>4 DEF PullLocked, AfterPull
  <2> HIDE DEF v
  <2> QED BY <2>1, <2>2 DEF KeepsParked
<1>5. CASE PullUnlocked(m, Merged(m))
  <2> DEFINE kept == Kept(m, Merged(m))
             Pulled(n, name) ==
               vault' = [vault EXCEPT ![m] = Resolved(kept, name)]
  <2>1. PICK n \in 0 .. MaxIds - minted :
          \E name \in Bijection(FreshIds(n), Forkable(kept)) : Pulled(n, name)
    BY <1>5 DEF PullUnlocked, AfterPull
  <2>2. PICK name \in Bijection(FreshIds(n), Forkable(kept)) : Pulled(n, name)
    BY <2>1
  <2>3. kept \in Vault /\ vault[m].parked \subseteq kept.parked
    BY KeptType, KeptParked
  <2>4. Unwritten(kept.env)
    BY KeptType, MergedAt DEF Unwritten
  <2> HIDE DEF kept
  <2>5. Resolved(kept, name) \in Vault
    BY <2>3, ResolvedType
  <2>6. \A e \in kept.parked :
          e.env.deleted \/ e.env.body \in LiveBodies(Resolved(kept, name))
    BY <2>3, <2>4, ResolvedShows
  <2> QED BY <2>2, <2>3, <2>5, <2>6 DEF KeepsParked
<1> QED BY <1>0, <1>2, <1>3, <1>4, <1>5

(* Unlocking turns into records what locked syncs parked.                  *)
LEMMA UnlockParks ==
  ASSUME TypeOK, Unminted, NEW m \in Machines, Unlock(m)
  PROVE  \E v \in Vault : vault' = [vault EXCEPT ![m] = v] /\ KeepsParked(m, v)
<1> DEFINE Opened(n, name) ==
      vault' = [vault EXCEPT ![m] = [Resolved(vault[m], name) EXCEPT !.locked = FALSE]]
<1>1. PICK n \in 0 .. MaxIds - minted :
        \E name \in Bijection(FreshIds(n), Forkable(vault[m])) : Opened(n, name)
  BY DEF Unlock
<1>2. PICK name \in Bijection(FreshIds(n), Forkable(vault[m])) : Opened(n, name)
  BY <1>1
<1> DEFINE r == Resolved(vault[m], name)
           v == [r EXCEPT !.locked = FALSE]
<1>3. vault[m] \in Vault /\ Unwritten(vault[m].env)
  BY MachineParts DEF Unminted
<1>4. r \in Vault
  BY <1>3, ResolvedType
<1>5. \A e \in vault[m].parked : e.env.deleted \/ e.env.body \in LiveBodies(r)
  BY <1>3, ResolvedShows
<1> HIDE DEF r
<1>6. v \in Vault /\ v.env = r.env
  BY <1>4 DEF Vault
<1>7. LiveBodies(v) = LiveBodies(r)
  BY <1>6 DEF LiveBodies
<1>8. vault' = [vault EXCEPT ![m] = v]
  BY <1>2 DEF r
<1> HIDE DEF v
<1> QED BY <1>5, <1>6, <1>7, <1>8 DEF KeepsParked

(* No other step of a running machine touches what is parked.              *)
LEMMA OthersParkNothing ==
  ASSUME TypeOK, NEW m \in Machines,
         \/ Start(m) \/ UserStep(m) \/ Disturbance(m)
         \/ SyncStep(m) /\ ~Pull(m)
  PROVE  \/ Crash(m)
         \/ \E v : /\ vault' = [vault EXCEPT ![m] = v]
                   /\ v.parked = vault[m].parked
<1>1. vault[m] \in Vault /\ [vault EXCEPT ![m] = vault[m]] = vault
  BY MachineParts DEF TypeOK
<1>2. ASSUME NEW op, NEW v, Operate(m, op, v), v.parked = vault[m].parked
      PROVE  \E w : vault' = [vault EXCEPT ![m] = w] /\ w.parked = vault[m].parked
  BY <1>2 DEF Operate
<1>3. CASE UserStep(m)
  <2>1. CASE Add(m)
    BY <1>1, <1>2, <2>1 DEF Add, Vault
  <2>2. \A i, body : Rewrite(m, i, body).parked = vault[m].parked
    BY <1>1 DEF Rewrite, WithEnv, Vault
  <2>3. ASSUME NEW i \in Ids, Edit(m, i) \/ Touch(m, i)
        PROVE  \E w : vault' = [vault EXCEPT ![m] = w] /\ w.parked = vault[m].parked
    BY <1>2, <2>2, <2>3 DEF Edit, Touch
  <2>4. ASSUME NEW i \in Ids, Delete(m, i)
        PROVE  \E w : vault' = [vault EXCEPT ![m] = w] /\ w.parked = vault[m].parked
    BY <1>1, <1>2, <2>4 DEF Delete, Vault
  <2> QED BY <1>3, <2>1, <2>3, <2>4 DEF UserStep
<1>4. CASE Disturbance(m)
  <2>1. CASE Lock(m)
    <3>1. vault' = [vault EXCEPT ![m] = [vault[m] EXCEPT !.locked = TRUE]]
      BY <2>1 DEF Lock
    <3>2. [vault[m] EXCEPT !.locked = TRUE].parked = vault[m].parked
      BY <1>1 DEF Vault
    <3> QED BY <3>1, <3>2
  <2> QED BY <1>1, <1>4, <2>1
          DEF Disturbance, LoseRequest, LoseAck, SettingsWrite, GiveUp
<1>5. CASE SyncStep(m) /\ ~Pull(m)
  BY <1>1, <1>5 DEF SyncStep, PushAccepted, PushRetried, PushGivenUp, VerifyRefused,
     VerifyConfirmed, SaveVault, SaveState, GiveUp
<1>6. CASE Start(m)
  BY <1>1, <1>6 DEF Start
<1> QED BY <1>3, <1>4, <1>5, <1>6

(* What is parked leaves the queue into a record of the same machine only, *)
(* however unlocking, locking and syncing interleave.                      *)
THEOREM ParkedIsKept == Spec => ParkedKept
<1> DEFINE Kept1 ==
      \A m \in Machines : \A e \in vault[m].parked \ vault'[m].parked :
        Crash(m) \/ e.env.deleted \/ e.env.body \in LiveBodies(vault'[m])
<1>1. TypeOK /\ Unminted /\ [Next]_vars => [Kept1]_vars
  <2> SUFFICES ASSUME TypeOK, Unminted, [Next]_vars,
                      NEW m \in Machines, NEW e \in vault[m].parked \ vault'[m].parked,
                      ~Crash(m)
               PROVE  e.env.deleted \/ e.env.body \in LiveBodies(vault'[m])
    OBVIOUS
  <2>1. ASSUME NEW k \in Machines, NEW v, vault' = [vault EXCEPT ![k] = v],
               v.parked = vault[k].parked \/ KeepsParked(k, v)
        PROVE  e.env.deleted \/ e.env.body \in LiveBodies(vault'[m])
    <3>1. vault'[m] = vault[m] \/ (k = m /\ vault'[m] = v)
      BY <2>1 DEF TypeOK
    <3> QED BY <2>1, <3>1 DEF KeepsParked
  <2>2. ASSUME NEW k \in Machines, vault' # vault, Crash(k)
        PROVE  e.env.deleted \/ e.env.body \in LiveBodies(vault'[m])
    <3>1. k # m /\ vault'[m] = vault[m]
      BY <2>2 DEF Crash, TypeOK
    <3> QED BY <3>1
  <2>3. vault' # vault
    OBVIOUS
  <2>4. ASSUME NEW k \in Machines, Pull(k) \/ Unlock(k)
        PROVE  e.env.deleted \/ e.env.body \in LiveBodies(vault'[m])
    BY <2>1, <2>4, PullParks, UnlockParks
  <2>5. ASSUME NEW k \in Machines,
               \/ Start(k) \/ UserStep(k) \/ Disturbance(k)
               \/ SyncStep(k) /\ ~Pull(k)
        PROVE  e.env.deleted \/ e.env.body \in LiveBodies(vault'[m])
    BY <2>1, <2>2, <2>3, <2>5, OthersParkNothing
  <2> QED BY <2>3, <2>4, <2>5 DEF Next, Restore, vars
<1>2. [Kept1]_vars => [\A m \in Machines : \A e \in vault[m].parked \ vault'[m].parked :
       \/ Crash(m)
       \/ e.env.deleted
       \/ e.env.body \in LiveBodies(vault'[m])]_vars
  OBVIOUS
<1> QED BY <1>1, <1>2, UnmintedInvariant, PTL DEF Spec, ParkedKept

-----------------------------------------------------------------------------
(***************************************************************************)
(* What a machine remembers of the server, and what the server holds.      *)
(*                                                                         *)
(* A machine keeps one number for the whole server -- the sequence it has  *)
(* read up to -- and one per record, the revision both last agreed on.     *)
(* Everything a sync decides is read off these.  One invariant, Coherent,  *)
(* says what they are worth: of a record written before that sequence, the *)
(* machine holds the server's very envelope, and remembers so, or one that *)
(* outranks it.  From it follow NothingPushedTwice, NoSpuriousRefusal and  *)
(* NoFalseAgreement, for every number of machines, ids, operations and     *)
(* disturbances.                                                           *)
(***************************************************************************)
(* e replaces r and the server cannot refuse it: it is newer, and no live  *)
(* envelope over a tombstone (store.go, ErrBackward and ErrResurrect).     *)
Outranks(e, r) == e.rev > r.rev /\ (r.deleted => e.deleted)

(* Of a record with envelope e here, r on the server and ancestor b: the   *)
(* ancestor is no newer than either.                                       *)
Bounded(e, r, b) ==
  b # None => r # None /\ b <= r.rev /\ e # None /\ b <= e.rev

(* Here as on the server, and known to be; or newer.                       *)
Level(e, r, b) ==
  r # None => e # None /\ ((e = r /\ b = r.rev) \/ Outranks(e, r))

(* A list and a sync state, against a store: what was written before the   *)
(* sequence read up to is level.                                           *)
StandsAt(s, env, st, i) ==
  /\ Bounded(env[i], s.recs[i], st.synced[i])
  /\ s.stamp[i] <= st.seq => Level(env[i], s.recs[i], st.synced[i])
Stands(s, env, st) == \A i \in Ids : StandsAt(s, env, st, i)

(* A batch about to be pushed: no record of it is the server's already, and*)
(* each outranks what its author had read.                                 *)
OutgoingAt(s, push, q, i) ==
  push[i] # None =>
    /\ s.recs[i] # push[i]
    /\ s.recs[i] # None /\ s.stamp[i] <= q => Outranks(push[i], s.recs[i])
Outgoing(s, push, q) == \A i \in Ids : OutgoingAt(s, push, q, i)

(* The author still holds what it sends, or has something newer by now.    *)
SentFrom(env, push) ==
  \A i \in Ids : push[i] # None =>
    env[i] # None /\ (env[i] = push[i] \/ Outranks(env[i], push[i]))

(* A batch that was accepted as number n, on top of q: every record of it  *)
(* is there or has been outranked, and no other came between q and n.      *)
AcceptedAt(s, push, n, q, i) ==
  /\ push[i] # None =>
       /\ s.recs[i] # None
       /\ \/ s.recs[i] = push[i] /\ s.stamp[i] = n
          \/ s.recs[i].rev > push[i].rev /\ s.stamp[i] > n
  /\ push[i] = None => s.stamp[i] <= q \/ s.stamp[i] > n
Accepted(s, push, n, q) == q <= n /\ \A i \in Ids : AcceptedAt(s, push, n, q, i)

(* The envelopes a machine may still send or show at an id, and all there  *)
(* are.                                                                    *)
HeldBy(m, i) == {vault[m].env[i], disk[m].vault.env[i], job[m].push[i]} \ {None}
Held(i) == ({srv.recs[i]} \ {None}) \cup UNION {HeldBy(m, i) : m \in Machines}

(* A seal belongs to one envelope, and the next one has not been used.     *)
Seals ==
  \A i \in Ids : \A x, y \in Held(i) :
    x.seal < fresh /\ (x.seal = y.seal => x = y)

(* What two machines hold came from the server, which holds it still or has*)
(* moved on from it.                                                       *)
Shared ==
  \A m, k \in Machines, i \in Ids : m # k =>
    \A e \in HeldBy(m, i) \cap HeldBy(k, i) :
      srv.recs[i] # None /\ (srv.recs[i] = e \/ srv.recs[i].rev > e.rev)

(* Sequence numbers come from the server.                                  *)
Numbered(m) ==
  /\ disk[m].state.seq <= state[m].seq /\ state[m].seq <= srv.seq
  /\ disk[m].state.highest <= srv.seq  /\ state[m].highest <= srv.seq
  /\ job[m].seq <= srv.seq
Stamps == \A i \in Ids : srv.stamp[i] <= srv.seq

(* A machine and its sync, in memory; and as a restart would find it.      *)
InMemory(m) ==
  /\ Stands(srv, vault[m].env, state[m])
  /\ pc[m] \in Pushes => Outgoing(srv, job[m].push, state[m].seq)
  /\ pc[m] \in Pushes \cup {"verify"} => SentFrom(vault[m].env, job[m].push)
  /\ pc[m] = "verify" => Accepted(srv, job[m].push, job[m].seq, state[m].seq)
  /\ pc[m] \notin {"pull422", "push422"}
OnDisk(m) ==
  /\ Stands(srv, vault[m].env, disk[m].state)
  /\ Stands(srv, disk[m].vault.env, disk[m].state)
  /\ pc[m] = "saveState" => disk[m].vault.env = vault[m].env

Coherent ==
  /\ Seals /\ Shared /\ Stamps
  /\ \A m \in Machines : Numbered(m) /\ InMemory(m)
  /\ ~Met("settings") => \A m \in Machines : OnDisk(m)

(* A server put back and a machine half saved are what it does not cover.  *)
Agreement == Met("restore") \/ HalfSaved \/ Coherent

-----------------------------------------------------------------------------
(***************************************************************************)
(* Facts about envelopes, lists and stores.                                *)
(***************************************************************************)
(* Outranking is transitive.                                               *)
LEMMA OutranksTransitive ==
  ASSUME NEW x \in Envelopes, NEW y \in Envelopes, NEW z \in Envelopes,
         Outranks(x, y), Outranks(y, z)
  PROVE  Outranks(x, z)
BY EnvelopeFacts DEF Outranks

(* One record's merge, when what the machine remembers can be relied on:   *)
(* it is never refused; what it keeps is level with the server, once a     *)
(* contested record that is kept has been re-sealed; and it sends only     *)
(* what outranks the server's.                                             *)
MergeLevels(l, r, a, b, o, x) ==
  /\ ~o.rolledBack
  /\ x \in {l, r}
  /\ a = None => x = l /\ o.synced = b /\ o.parked = None
  /\ o.parked = None => Bounded(x, r, o.synced) /\ Level(x, r, o.synced)
  /\ o.parked = None /\ o.push => x = l /\ l # None /\ (r # None => Outranks(l, r))
  /\ o.parked # None => l # None /\ r # None
  /\ o.parked # None /\ ~o.push => x = r /\ o.synced = r.rev
  /\ o.parked # None /\ o.push =>
       /\ x = l /\ (r.deleted => l.deleted)
       /\ o.synced # None => o.synced <= r.rev

LEMMA MergeOfLevel ==
  ASSUME NEW l \in Maybe, NEW r \in Maybe, NEW a \in {None, r}, NEW b \in Base,
         Bounded(l, r, b), a = None => Level(l, r, b),
         l # None /\ r # None /\ l.seal = r.seal => l = r
  PROVE  MergeLevels(l, r, a, b, MergeOne(l, a, b), Adopt(l, MergeOne(l, a, b).env))
<1> DEFINE o == MergeOne(l, a, b)
           x == Adopt(l, o.env)
<1>0. /\ l # None => l.rev \in Nat /\ l.deleted \in BOOLEAN
      /\ r # None => r.rev \in Nat /\ r.deleted \in BOOLEAN
      /\ None \notin Nat /\ (b # None => b \in Nat)
  BY EnvelopeFacts, NoneAssumption DEF Maybe, Base
<1>1. CASE a = None /\ l = None
  <2>1. o = Outcome(None, b, None, FALSE, FALSE)
    BY <1>1 DEF MergeOne
  <2> QED BY <1>1, <2>1 DEF Outcome, Adopt, MergeLevels
<1>2. CASE a = None /\ l # None
  <2>1. CASE b = l.rev
    <3>1. o = Outcome(l, b, None, FALSE, FALSE)
      BY <1>2, <2>1 DEF MergeOne, Agreed, OnlyLocal
    <3>2. x = l
      BY <3>1 DEF Outcome, Adopt
    <3> QED BY <1>2, <3>1, <3>2 DEF Outcome, MergeLevels
  <2>2. CASE b # l.rev
    <3>1. o = Outcome(l, b, None, TRUE, FALSE)
      BY <1>2, <2>2 DEF MergeOne, Agreed, OnlyLocal
    <3>2. x = l
      BY <3>1 DEF Outcome, Adopt
    <3>3. r # None => Outranks(l, r)
      BY <1>2, <2>2 DEF Level
    <3> QED BY <1>2, <3>1, <3>2, <3>3 DEF Outcome, MergeLevels
  <2> QED BY <2>1, <2>2
<1>3. CASE a # None /\ l = None
  <2>1. o = Outcome(r, r.rev, None, FALSE, FALSE)
    BY <1>3 DEF MergeOne
  <2>2. x = r /\ r # None
    BY <1>3, <2>1 DEF Outcome, Adopt
  <2> QED BY <1>0, <1>3, <2>1, <2>2 DEF Outcome, MergeLevels, Bounded, Level
<1>4. CASE a # None /\ l # None
  <2>1. a = r /\ r # None /\ o = BothPresent(l, r, b)
    BY <1>4 DEF MergeOne
  <2>2. CASE Agreed(l, r, b)
    <3>0. l = r /\ ~RolledBack(l, r, b) /\ ~RemoteAhead(l, r, b) /\ ~LocalAhead(l, r, b)
      BY <1>0, <1>4, <2>1, <2>2
         DEF Agreed, SameBytes, RolledBack, RemoteAhead, LocalAhead
    <3>1. o = Outcome(l, r.rev, None, FALSE, FALSE)
      BY <2>1, <2>2, <3>0 DEF BothPresent
    <3>2. x = l
      BY <3>1 DEF Outcome, Adopt
    <3> QED BY <1>0, <1>4, <2>1, <3>0, <3>1, <3>2 DEF Outcome, MergeLevels, Bounded, Level
  <2>3. ~RolledBack(l, r, b)
    BY <1>0, <2>1 DEF RolledBack, Bounded
  <2>4. CASE ~Agreed(l, r, b) /\ RemoteAhead(l, r, b)
    <3>0. r.rev > l.rev /\ ~LocalAhead(l, r, b)
      BY <1>0, <1>4, <2>1, <2>4 DEF RemoteAhead, LocalAhead
    <3>1. o = Outcome(r, r.rev, None, FALSE, FALSE)
      BY <2>1, <2>3, <2>4, <3>0 DEF BothPresent
    <3>2. x = r
      BY <1>0, <1>4, <2>1, <3>0, <3>1 DEF Outcome, Adopt
    <3> QED BY <1>0, <1>4, <2>1, <3>0, <3>1, <3>2 DEF Outcome, MergeLevels, Bounded, Level
  <2>5. CASE ~Agreed(l, r, b) /\ ~RemoteAhead(l, r, b) /\ LocalAhead(l, r, b)
    <3>1. o = Outcome(l, b, None, TRUE, FALSE)
      BY <2>1, <2>3, <2>5 DEF BothPresent
    <3>2. x = l
      BY <3>1 DEF Outcome, Adopt
    <3>3. Outranks(l, r)
      BY <1>0, <2>1, <2>5 DEF LocalAhead, Bounded, Outranks
    <3> QED BY <1>0, <1>4, <2>1, <3>1, <3>2, <3>3 DEF Outcome, MergeLevels, Level
  <2>6. CASE ~Agreed(l, r, b) /\ ~RemoteAhead(l, r, b) /\ ~LocalAhead(l, r, b)
    <3>1. o = Diverged(l, r, b)
      BY <2>1, <2>3, <2>6 DEF BothPresent
    <3>2. CASE Descendant(l, r, b)
      <4>1. o = Outcome(r, r.rev, l, FALSE, FALSE) /\ r.rev > l.rev
        BY <3>1, <3>2 DEF Diverged, Descendant
      <4>2. x = r
        BY <1>0, <1>4, <2>1, <4>1 DEF Outcome, Adopt
      <4> QED BY <1>4, <2>1, <4>1, <4>2 DEF Outcome, MergeLevels
    <3>3. CASE ~Descendant(l, r, b) /\ l.deleted
      <4>1. o = Outcome(l, r.rev, r, TRUE, FALSE)
        BY <3>1, <3>3 DEF Diverged
      <4>2. x = l
        BY <4>1 DEF Outcome, Adopt
      <4> QED BY <1>0, <1>4, <2>1, <3>3, <4>1, <4>2 DEF Outcome, MergeLevels
    <3>4. CASE ~Descendant(l, r, b) /\ ~l.deleted /\ r.deleted
      <4>1. o = Outcome(r, r.rev, l, FALSE, FALSE)
        BY <3>1, <3>4 DEF Diverged
      <4>2. x = r
        BY <3>4, <4>1 DEF Outcome, Adopt, Live
      <4> QED BY <1>4, <2>1, <4>1, <4>2 DEF Outcome, MergeLevels
    <3>5. CASE ~Descendant(l, r, b) /\ ~l.deleted /\ ~r.deleted
      <4>1. o = Outcome(l, b, r, TRUE, FALSE)
        BY <3>1, <3>5 DEF Diverged
      <4>2. x = l
        BY <4>1 DEF Outcome, Adopt
      <4> QED BY <1>0, <1>4, <2>1, <3>5, <4>1, <4>2 DEF Outcome, MergeLevels, Bounded
    <3> QED BY <3>2, <3>3, <3>4, <3>5
  <2> QED BY <2>2, <2>4, <2>5, <2>6
<1> QED BY <1>1, <1>2, <1>3, <1>4

-----------------------------------------------------------------------------
(* What a person does to a list: nothing, something newer where something  *)
(* was, or something new where the server has nothing.                     *)
EditedAt(s, old, new, i) ==
  \/ new[i] = old[i]
  \/ /\ new[i] # None
     /\ old[i] = None => s.recs[i] = None
     /\ old[i] # None => Outranks(new[i], old[i])
Edited(s, old, new) == \A i \in Ids : EditedAt(s, old, new, i)

LEMMA EditedStands ==
  ASSUME NEW s \in Store, NEW st \in State, NEW old \in EnvMap, NEW new \in EnvMap,
         Stands(s, old, st), Edited(s, old, new)
  PROVE  Stands(s, new, st)
<1> SUFFICES ASSUME NEW i \in Ids PROVE StandsAt(s, new, st, i)
  BY DEF Stands
<1>1. /\ StandsAt(s, old, st, i) /\ EditedAt(s, old, new, i)
      /\ old[i] \in Maybe /\ new[i] \in Maybe /\ s.recs[i] \in Maybe
      /\ st.synced[i] \in Base
  BY DEF Stands, Edited, EnvMap, Maybe, Store, State, Base
<1>2. CASE new[i] = old[i]
  BY <1>1, <1>2 DEF StandsAt
<1>3. CASE new[i] # old[i]
  <2>1. /\ new[i] # None /\ (old[i] = None => s.recs[i] = None)
        /\ old[i] # None => Outranks(new[i], old[i])
    BY <1>1, <1>3 DEF EditedAt
  <2>2. old[i] # None => new[i].rev > old[i].rev
                         /\ new[i].rev \in Nat /\ old[i].rev \in Nat
    BY <1>1, <2>1, EnvelopeFacts DEF Outranks, Maybe
  <2>3. Bounded(new[i], s.recs[i], st.synced[i])
    <3>1. st.synced[i] # None => st.synced[i] \in Nat
      BY <1>1 DEF Base
    <3> QED BY <1>1, <2>1, <2>2, <3>1 DEF StandsAt, Bounded
  <2>4. ASSUME s.stamp[i] <= st.seq, s.recs[i] # None
        PROVE  Outranks(new[i], s.recs[i])
    <3>1. /\ old[i] # None
          /\ old[i] = s.recs[i] \/ Outranks(old[i], s.recs[i])
      BY <1>1, <2>4 DEF StandsAt, Level
    <3>2. /\ old[i] \in Envelopes /\ new[i] \in Envelopes /\ s.recs[i] \in Envelopes
          /\ Outranks(new[i], old[i])
      BY <1>1, <2>1, <2>4, <3>1 DEF Maybe
    <3> QED BY <3>1, <3>2, OutranksTransitive
  <2> QED BY <2>1, <2>3, <2>4 DEF StandsAt, Level
<1> QED BY <1>2, <1>3

LEMMA EditedSent ==
  ASSUME NEW s, NEW push \in EnvMap, NEW old \in EnvMap, NEW new \in EnvMap,
         SentFrom(old, push), Edited(s, old, new)
  PROVE  SentFrom(new, push)
<1> SUFFICES ASSUME NEW i \in Ids, push[i] # None
             PROVE  new[i] # None /\ (new[i] = push[i] \/ Outranks(new[i], push[i]))
  BY DEF SentFrom
<1>1. /\ old[i] # None /\ (old[i] = push[i] \/ Outranks(old[i], push[i]))
      /\ EditedAt(s, old, new, i)
  BY DEF SentFrom, Edited
<1>2. push[i] \in Envelopes /\ old[i] \in Envelopes
  BY <1>1 DEF EnvMap
<1>3. CASE new[i] = old[i]
  BY <1>1, <1>3
<1>4. CASE new[i] # old[i]
  <2>1. new[i] # None /\ Outranks(new[i], old[i])
    BY <1>1, <1>4 DEF EditedAt
  <2>2. new[i] \in Envelopes
    BY <2>1 DEF EnvMap
  <2> QED BY <1>1, <1>2, <2>1, <2>2, OutranksTransitive
<1> QED BY <1>3, <1>4

(* A push that lands: each record of it is newer than the server's was.    *)
Newer(s, push) ==
  \A i \in Ids : push[i] # None /\ s.recs[i] # None => push[i].rev > s.recs[i].rev

(* It is beyond what anybody has read, so it disturbs nobody's standing.   *)
LEMMA LandedStands ==
  ASSUME NEW s \in Store, NEW st \in State, NEW env \in EnvMap, NEW push \in EnvMap,
         Stands(s, env, st), st.seq <= s.seq, Newer(s, push)
  PROVE  Stands(Applied(s, push), env, st)
<1> SUFFICES ASSUME NEW i \in Ids PROVE StandsAt(Applied(s, push), env, st, i)
  BY DEF Stands
<1>1. /\ StandsAt(s, env, st, i) /\ s.seq \in Nat /\ st.seq \in Nat
      /\ env[i] \in Maybe /\ s.recs[i] \in Maybe /\ push[i] \in Maybe
      /\ st.synced[i] \in Base
  BY DEF Stands, EnvMap, Maybe, Store, State, Base
<1>2. CASE push[i] = None
  <2>1. Applied(s, push).recs[i] = s.recs[i] /\ Applied(s, push).stamp[i] = s.stamp[i]
    BY <1>2 DEF Applied
  <2> QED BY <1>1, <2>1 DEF StandsAt
<1>3. CASE push[i] # None
  <2>1. Applied(s, push).recs[i] = push[i] /\ Applied(s, push).stamp[i] = s.seq + 1
    BY <1>3 DEF Applied
  <2>2. ~(s.seq + 1 <= st.seq)
    BY <1>1
  <2>3. Bounded(env[i], push[i], st.synced[i])
    <3>1. st.synced[i] # None => st.synced[i] \in Nat /\ s.recs[i] # None
      BY <1>1 DEF Base, StandsAt, Bounded
    <3>2. s.recs[i] # None => push[i].rev > s.recs[i].rev
                              /\ push[i].rev \in Nat /\ s.recs[i].rev \in Nat
      BY <1>1, <1>3, EnvelopeFacts DEF Newer, Maybe
    <3> QED BY <1>1, <1>3, <3>1, <3>2 DEF StandsAt, Bounded
  <2> QED BY <2>1, <2>2, <2>3 DEF StandsAt
<1> QED BY <1>2, <1>3

(* Nor what another machine is about to send, if it is none of this.       *)
LEMMA LandedOutgoing ==
  ASSUME NEW s \in Store, NEW q \in Nat, NEW push \in EnvMap, NEW other \in EnvMap,
         Outgoing(s, other, q), q <= s.seq,
         \A i \in Ids : push[i] # None => other[i] # push[i]
  PROVE  Outgoing(Applied(s, push), other, q)
<1> SUFFICES ASSUME NEW i \in Ids, other[i] # None
             PROVE  OutgoingAt(Applied(s, push), other, q, i)
  BY DEF Outgoing, OutgoingAt
<1>1. OutgoingAt(s, other, q, i) /\ s.seq \in Nat
  BY DEF Outgoing, Store
<1>2. CASE push[i] = None
  BY <1>1, <1>2 DEF OutgoingAt, Applied
<1>3. CASE push[i] # None
  <2>1. Applied(s, push).recs[i] = push[i] /\ Applied(s, push).stamp[i] = s.seq + 1
    BY <1>3 DEF Applied
  <2>2. ~(s.seq + 1 <= q)
    BY <1>1
  <2> QED BY <1>3, <2>1, <2>2 DEF OutgoingAt
<1> QED BY <1>2, <1>3

(* Nor what another has just been told was accepted.                       *)
LEMMA LandedAccepted ==
  ASSUME NEW s \in Store, NEW n \in Nat, NEW q \in Nat,
         NEW push \in EnvMap, NEW other \in EnvMap,
         Accepted(s, other, n, q), n <= s.seq, Newer(s, push)
  PROVE  Accepted(Applied(s, push), other, n, q)
<1> SUFFICES ASSUME NEW i \in Ids PROVE AcceptedAt(Applied(s, push), other, n, q, i)
  BY DEF Accepted
<1>1. AcceptedAt(s, other, n, q, i) /\ s.seq \in Nat
  BY DEF Accepted, Store
<1>2. CASE push[i] = None
  BY <1>1, <1>2 DEF AcceptedAt, Applied
<1>3. CASE push[i] # None
  <2>1. Applied(s, push).recs[i] = push[i] /\ Applied(s, push).stamp[i] = s.seq + 1
    BY <1>3 DEF Applied
  <2>2. s.seq + 1 > n
    BY <1>1
  <2>3. ASSUME other[i] # None PROVE push[i].rev > other[i].rev
    <3>1. /\ s.recs[i] # None
          /\ s.recs[i] = other[i] \/ s.recs[i].rev > other[i].rev
      BY <1>1, <2>3 DEF AcceptedAt
    <3>2. push[i].rev > s.recs[i].rev
      BY <1>3, <3>1 DEF Newer
    <3>3. push[i].rev \in Nat /\ s.recs[i].rev \in Nat /\ other[i].rev \in Nat
      BY <1>3, <2>3, <3>1, EnvelopeFacts DEF EnvMap, Store
    <3> QED BY <3>1, <3>2, <3>3
  <2> QED BY <1>3, <2>1, <2>2, <2>3 DEF AcceptedAt
<1> QED BY <1>2, <1>3

(* One's own push, accepted on top of all there was.                       *)
LEMMA OwnAccepted ==
  ASSUME NEW s \in Store, NEW push \in EnvMap, \A i \in Ids : s.stamp[i] <= s.seq
  PROVE  Accepted(Applied(s, push), push, s.seq + 1, s.seq)
<1>1. s.seq \in Nat /\ s.seq <= s.seq + 1
  BY DEF Store
<1> SUFFICES ASSUME NEW i \in Ids
             PROVE  AcceptedAt(Applied(s, push), push, s.seq + 1, s.seq, i)
  BY <1>1 DEF Accepted
<1> QED BY DEF AcceptedAt, Applied

(* A batch that outranks what its author had read is newer than what is    *)
(* there when the author had read everything.                              *)
LEMMA OutgoingNewer ==
  ASSUME NEW s \in Store, NEW push \in EnvMap, NEW q \in Nat,
         Outgoing(s, push, q), \A i \in Ids : s.stamp[i] <= s.seq
  PROVE  /\ q = s.seq => Newer(s, push)
         /\ PutStatus(s, push, q) # 422
<1>1. ASSUME q = s.seq, NEW i \in Ids, push[i] # None, s.recs[i] # None
      PROVE  Outranks(push[i], s.recs[i])
  BY <1>1 DEF Outgoing, OutgoingAt
<1>2. q = s.seq => Newer(s, push)
  BY <1>1 DEF Newer, Outranks
<1>3. ASSUME q = s.seq PROVE ~Backward(s, push) /\ ~Resurrects(s, push)
  <2>1. ASSUME NEW i \in Ids, push[i] # None, s.recs[i] # None
        PROVE  ~(push[i].rev < s.recs[i].rev) /\ (s.recs[i].deleted => push[i].deleted)
    <3>1. push[i].rev \in Nat /\ s.recs[i].rev \in Nat
      BY <2>1, EnvelopeFacts DEF EnvMap, Store
    <3> QED BY <1>1, <1>3, <2>1, <3>1 DEF Outranks
  <2> QED BY <2>1 DEF Backward, Resurrects, Live, Tombstone
<1>4. q # None
  BY NoneAssumption
<1>5. CASE q # s.seq
  BY <1>4, <1>5 DEF PutStatus
<1>6. CASE q = s.seq
  <2>1. ~Backward(s, push) /\ ~Resurrects(s, push)
    BY <1>3, <1>6
  <2>2. PutStatus(s, push, q) = 200
    BY <1>4, <1>6, <2>1 DEF PutStatus
  <2> QED BY <1>2, <2>2
<1> QED BY <1>2, <1>5, <1>6

(* Once a push is confirmed, what it carried is level.                     *)
LEMMA ConfirmedStands ==
  ASSUME NEW s \in Store, NEW st \in State, NEW env \in EnvMap, NEW push \in EnvMap,
         NEW n \in Nat, NEW new \in State,
         Stands(s, env, st), Accepted(s, push, n, st.seq), SentFrom(env, push),
         new.seq = n, new.synced = ConfirmPushed(st.synced, push)
  PROVE  Stands(s, env, new)
<1> SUFFICES ASSUME NEW i \in Ids PROVE StandsAt(s, env, new, i)
  BY DEF Stands
<1>1. /\ StandsAt(s, env, st, i) /\ AcceptedAt(s, push, n, st.seq, i)
      /\ st.seq \in Nat /\ s.stamp[i] \in Nat /\ st.synced \in [Ids -> Nat \cup {None}]
  BY DEF Stands, Accepted, State, Store
<1>2. new.synced[i] = IF push[i] # None THEN push[i].rev ELSE st.synced[i]
  BY <1>1 DEF ConfirmPushed
<1>3. CASE push[i] = None
  <2>1. s.stamp[i] <= n => s.stamp[i] <= st.seq
    BY <1>1, <1>3 DEF AcceptedAt
  <2> QED BY <1>1, <1>2, <1>3, <2>1 DEF StandsAt
<1>4. CASE push[i] # None
  <2> DEFINE p == push[i]
             r == s.recs[i]
             e == env[i]
  <2>1. /\ r # None
        /\ (r = p /\ s.stamp[i] = n) \/ (r.rev > p.rev /\ s.stamp[i] > n)
        /\ e # None /\ (e = p \/ Outranks(e, p))
    BY <1>1, <1>4 DEF AcceptedAt, SentFrom
  <2>2. p.rev \in Nat /\ r.rev \in Nat /\ e.rev \in Nat
    BY <1>4, <2>1, EnvelopeFacts DEF EnvMap, Store
  <2>3. Bounded(e, r, p.rev)
    BY <2>1, <2>2 DEF Bounded, Outranks
  <2>4. s.stamp[i] <= n => Level(e, r, p.rev)
    BY <1>1, <2>1 DEF Level
  <2> QED BY <1>2, <1>4, <2>3, <2>4 DEF StandsAt
<1> QED BY <1>3, <1>4

-----------------------------------------------------------------------------
(***************************************************************************)
(* Who holds what.                                                         *)
(***************************************************************************)
(* An envelope a step puts into a list was held there, came from the       *)
(* server, or has just been sealed.                                        *)
SourcedAt(m, v, i) ==
  \/ v.env[i] \in {None, srv.recs[i]} \cup HeldBy(m, i)
  \/ v.env[i].seal = fresh /\ fresh' > fresh

(* A step of machine m that leaves it with vault v, as far as envelopes    *)
(* are concerned.                                                          *)
Moves(m, v) ==
  /\ vault' = [vault EXCEPT ![m] = v]
  /\ \A i \in Ids : SourcedAt(m, v, i)
  /\ fresh' \in Nat /\ fresh' >= fresh
  /\ \/ disk' = disk
     \/ disk' = [disk EXCEPT ![m].vault = v]
     \/ disk' = [disk EXCEPT ![m].state = state[m]]
  /\ \/ job' = job
     \/ job' = [job EXCEPT ![m] = NoJob]
     \/ job' = [job EXCEPT ![m].seq = srv.seq + 1]
     \/ \E up \in SUBSET Ids :
          job' = [job EXCEPT ![m] =
            [push |-> [i \in Ids |-> IF i \in up THEN v.env[i] ELSE None], seq |-> 0]]
  /\ \/ srv' = srv
     \/ srv' = Applied(srv, job[m].push) /\ Newer(srv, job[m].push)

(* Where envelopes go in any step of m: nothing is held but what was, and  *)
(* what v shows.                                                           *)
MovesOnly(m, v) ==
  /\ vault' = [vault EXCEPT ![m] = v]
  /\ \/ disk' = disk
     \/ disk' = [disk EXCEPT ![m].vault = v]
     \/ disk' = [disk EXCEPT ![m].state = state[m]]
  /\ \/ job' = job
     \/ job' = [job EXCEPT ![m] = NoJob]
     \/ job' = [job EXCEPT ![m].seq = srv.seq + 1]
     \/ \E up \in SUBSET Ids :
          job' = [job EXCEPT ![m] =
            [push |-> [i \in Ids |-> IF i \in up THEN v.env[i] ELSE None], seq |-> 0]]
  /\ srv' = srv \/ srv' = Applied(srv, job[m].push)

LEMMA MovesOnlyHold ==
  ASSUME TypeOK, NEW m \in Machines, NEW v \in Vault, MovesOnly(m, v), NEW i \in Ids
  PROVE  /\ HeldBy(m, i)' \subseteq HeldBy(m, i) \cup ({v.env[i]} \ {None})
         /\ \A k \in Machines : k # m => HeldBy(k, i)' = HeldBy(k, i)
         /\ srv.recs[i]' \in {srv.recs[i], job[m].push[i]}
<1>1. vault'[m] = v /\ \A k \in Machines : k # m => vault'[k] = vault[k]
  BY DEF MovesOnly, TypeOK
<1>2. /\ disk'[m].vault \in {disk[m].vault, v}
      /\ \A k \in Machines : k # m => disk'[k] = disk[k]
  BY DEF MovesOnly, TypeOK
<1>3. /\ job'[m].push[i] \in {None, job[m].push[i], v.env[i]}
      /\ \A k \in Machines : k # m => job'[k] = job[k]
  <2>1. job \in [Machines -> Job] /\ job[m] \in Job
    BY DEF TypeOK
  <2>2. CASE job' = job
    BY <2>2
  <2>3. CASE job' = [job EXCEPT ![m] = NoJob]
    BY <2>1, <2>3 DEF NoJob, EmptyMap
  <2>4. CASE job' = [job EXCEPT ![m].seq = srv.seq + 1]
    BY <2>1, <2>4 DEF Job
  <2>5. ASSUME NEW up \in SUBSET Ids,
               job' = [job EXCEPT ![m] =
                 [push |-> [j \in Ids |-> IF j \in up THEN v.env[j] ELSE None],
                  seq |-> 0]]
        PROVE  /\ job'[m].push[i] \in {None, job[m].push[i], v.env[i]}
               /\ \A k \in Machines : k # m => job'[k] = job[k]
    BY <2>1, <2>5
  <2> QED BY <2>2, <2>3, <2>4, <2>5 DEF MovesOnly
<1>4. srv'.recs[i] \in {srv.recs[i], job[m].push[i]}
  BY DEF MovesOnly, Applied
<1> QED BY <1>1, <1>2, <1>3, <1>4 DEF HeldBy

LEMMA MovesHold ==
  ASSUME TypeOK, NEW m \in Machines, NEW v \in Vault, Moves(m, v), NEW i \in Ids
  PROVE  /\ HeldBy(m, i)' \subseteq HeldBy(m, i) \cup ({v.env[i]} \ {None})
         /\ \A k \in Machines : k # m => HeldBy(k, i)' = HeldBy(k, i)
         /\ srv.recs[i]' \in {srv.recs[i], job[m].push[i]}
<1>1. MovesOnly(m, v)
  BY DEF Moves, MovesOnly
<1> QED BY <1>1, MovesOnlyHold

(* A seal goes on belonging to one envelope.                               *)
LEMMA MovesSeals ==
  ASSUME TypeOK, Seals, NEW m \in Machines, NEW v \in Vault, Moves(m, v)
  PROVE  Seals'
<1> SUFFICES ASSUME NEW i \in Ids, NEW x \in Held(i)', NEW y \in Held(i)'
             PROVE  x.seal < fresh' /\ (x.seal = y.seal => x = y)
  BY DEF Seals
<1>1. fresh \in Nat /\ fresh' \in Nat /\ fresh' >= fresh
  BY DEF TypeOK, Moves
<1>2. \A z \in Held(i) : z \in Envelopes
  BY DEF Held, HeldBy, TypeOK, Store, Vault, EnvMap, Job
<1>3. \A z \in Held(i) : z.seal \in Nat /\ z.seal < fresh
  BY <1>2, EnvelopeFacts DEF Seals
<1>4. ASSUME NEW z \in Held(i)'
      PROVE  z \in Held(i) \/ (z = v.env[i] /\ z.seal = fresh /\ fresh' > fresh)
  <2>1. HeldBy(m, i) \subseteq Held(i) /\ job[m].push[i] \in Held(i) \cup {None}
    BY DEF Held, HeldBy
  <2>2. z \in Held(i) \/ (z = v.env[i] /\ z # None)
    <3>1. CASE z = srv'.recs[i] /\ z # None
      BY <2>1, <3>1, MovesHold DEF Held
    <3>2. ASSUME NEW k \in Machines, z \in HeldBy(k, i)'
          PROVE  z \in Held(i) \/ (z = v.env[i] /\ z # None)
      BY <2>1, <3>2, MovesHold DEF Held
    <3> QED BY <3>1, <3>2 DEF Held
  <2>3. CASE z = v.env[i] /\ z # None
    BY <2>1, <2>3 DEF Moves, SourcedAt, Held
  <2> QED BY <2>2, <2>3
<1>5. CASE x \in Held(i) /\ y \in Held(i)
  BY <1>1, <1>3, <1>5 DEF Seals
<1>6. CASE x \notin Held(i) \/ y \notin Held(i)
  BY <1>1, <1>3, <1>4, <1>6
<1> QED BY <1>5, <1>6

(* What two machines hold still came from the server.                      *)
LEMMA MovesShared ==
  ASSUME TypeOK, Seals, Shared, NEW m \in Machines, NEW v \in Vault, Moves(m, v)
  PROVE  Shared'
<1> DEFINE Known(s, i, e) == s.recs[i] # None /\ (s.recs[i] = e \/ s.recs[i].rev > e.rev)
<1>1. ASSUME NEW i \in Ids, NEW e \in Envelopes, Known(srv, i, e) PROVE Known(srv', i, e)
  <2>1. /\ srv.recs[i] \in Maybe /\ job[m].push[i] \in Maybe
    BY DEF TypeOK, Store, Job, EnvMap, Maybe
  <2>2. CASE srv' = srv
    BY <1>1, <2>2
  <2>3. CASE srv' = Applied(srv, job[m].push) /\ Newer(srv, job[m].push)
    <3>1. CASE job[m].push[i] = None
      BY <1>1, <2>3, <3>1 DEF Applied
    <3>2. CASE job[m].push[i] # None
      <4>1. srv'.recs[i] = job[m].push[i] /\ job[m].push[i].rev > srv.recs[i].rev
        BY <1>1, <2>3, <3>2 DEF Applied, Newer
      <4>2. srv.recs[i].rev \in Nat /\ job[m].push[i].rev \in Nat /\ e.rev \in Nat
        BY <1>1, <2>1, <3>2, EnvelopeFacts DEF Maybe
      <4> QED BY <1>1, <3>2, <4>1, <4>2
    <3> QED BY <3>1, <3>2
  <2> QED BY <2>2, <2>3 DEF Moves
<1>2. ASSUME NEW i \in Ids, NEW k \in Machines, k # m, NEW e \in HeldBy(m, i)',
             e \in HeldBy(k, i)'
      PROVE  Known(srv', i, e)
  <2>0. e \in HeldBy(k, i) /\ (e \in HeldBy(m, i) \/ e = v.env[i])
    BY <1>2, MovesHold
  <2>1. e \in HeldBy(k, i) /\ (e \in HeldBy(m, i) \/ e = v.env[i]) /\ e # None
    BY <2>0 DEF HeldBy
  <2>2. e \in Envelopes
    BY <2>1 DEF HeldBy, TypeOK, Vault, EnvMap, Job
  <2>3. e.seal < fresh /\ e.seal \in Nat /\ fresh \in Nat
    BY <2>1, <2>2, EnvelopeFacts DEF Seals, Held, TypeOK
  <2>4. e \in HeldBy(m, i) \/ e = srv.recs[i]
    BY <2>1, <2>3 DEF Moves, SourcedAt
  <2>5. Known(srv, i, e)
    BY <1>2, <2>1, <2>4 DEF Shared
  <2> QED BY <1>1, <2>2, <2>5
<1>3. ASSUME NEW i \in Ids, NEW j \in Machines, NEW k \in Machines, j # k, j # m, k # m,
             NEW e \in HeldBy(j, i)', e \in HeldBy(k, i)'
      PROVE  Known(srv', i, e)
  <2>1. e \in HeldBy(j, i) /\ e \in HeldBy(k, i)
    BY <1>3, MovesHold
  <2>2. e \in Envelopes
    BY <2>1 DEF HeldBy, TypeOK, Vault, EnvMap, Job
  <2> QED BY <1>1, <1>3, <2>1, <2>2 DEF Shared
<1> SUFFICES ASSUME NEW j \in Machines, NEW k \in Machines, NEW i \in Ids, j # k,
                    NEW e \in HeldBy(j, i)' \cap HeldBy(k, i)'
             PROVE  Known(srv', i, e)
  BY DEF Shared
<1> QED BY <1>2, <1>3

-----------------------------------------------------------------------------
(***************************************************************************)
(* A machine while the server stands still: what it shows is edited, what  *)
(* it remembers of the server is not, and its sync starts, ends, retries   *)
(* or waits.                                                               *)
(***************************************************************************)
LocalAt(k) ==
  /\ state'[k] = state[k] /\ disk'[k].state = disk[k].state
  /\ Edited(srv, vault[k].env, vault'[k].env)
  /\ job'[k].seq \in {0, job[k].seq}
  /\ \/ pc'[k] = pc[k] /\ job'[k] = job[k]
     \/ pc'[k] \in {"idle", "pull", "pull409"}
     \/ pc'[k] = "saveState" /\ disk'[k].vault.env = vault'[k].env
  /\ \/ disk'[k].vault.env = disk[k].vault.env /\ vault'[k].env = vault[k].env
     \/ disk'[k].vault.env = vault'[k].env

(* A machine that does nothing at all.                                     *)
LEMMA StillIsLocal ==
  ASSUME NEW k \in Machines, state'[k] = state[k], disk'[k] = disk[k],
         vault'[k] = vault[k], job'[k] = job[k], pc'[k] = pc[k]
  PROVE  LocalAt(k)
BY DEF LocalAt, Edited, EditedAt

(* The parts of a machine the facts above speak of.                        *)
LEMMA MachineTypes ==
  ASSUME TypeOK, NEW k \in Machines
  PROVE  /\ vault[k].env \in EnvMap /\ disk[k].vault.env \in EnvMap
         /\ state[k] \in State /\ disk[k].state \in State
         /\ job[k].push \in EnvMap /\ job[k].seq \in Nat
         /\ state[k].seq \in Nat /\ state[k].highest \in Nat
         /\ disk[k].state.seq \in Nat /\ disk[k].state.highest \in Nat
         /\ srv \in Store /\ srv.seq \in Nat /\ pc[k] \in PCs
BY DEF TypeOK, Vault, State, Job, Store

LEMMA MachineTypesNext ==
  ASSUME TypeOK', NEW k \in Machines
  PROVE  /\ vault'[k].env \in EnvMap /\ disk'[k].vault.env \in EnvMap
         /\ state'[k] \in State /\ disk'[k].state \in State
         /\ job'[k].push \in EnvMap /\ job'[k].seq \in Nat
         /\ state'[k].seq \in Nat /\ state'[k].highest \in Nat
         /\ disk'[k].state.seq \in Nat /\ disk'[k].state.highest \in Nat
         /\ srv' \in Store /\ srv'.seq \in Nat /\ pc'[k] \in PCs
BY DEF TypeOK, Vault, State, Job, Store

LEMMA LocalKeeps ==
  ASSUME TypeOK, TypeOK', NEW k \in Machines, srv' = srv, LocalAt(k),
         Numbered(k), InMemory(k)
  PROVE  Numbered(k)' /\ InMemory(k)' /\ (OnDisk(k) => OnDisk(k)')
<1> DEFINE env == vault[k].env
           new == vault'[k].env
<1>1. /\ env \in EnvMap /\ new \in EnvMap /\ disk[k].vault.env \in EnvMap
      /\ state[k] \in State /\ disk[k].state \in State /\ job[k].push \in EnvMap
      /\ job[k].seq \in Nat /\ srv \in Store /\ srv.seq \in Nat
  BY MachineTypes, MachineTypesNext
<1>2. state'[k] = state[k] /\ disk'[k].state = disk[k].state /\ Edited(srv, env, new)
  BY DEF LocalAt
<1>3. Numbered(k)'
  BY <1>1, <1>2 DEF Numbered, LocalAt
<1>4. Stands(srv, new, state[k])
  BY <1>1, <1>2, EditedStands DEF InMemory
<1>5. InMemory(k)'
  <2>1. Stands(srv', vault'[k].env, state'[k])
    BY <1>2, <1>4
  <2>2. CASE pc'[k] = pc[k] /\ job'[k] = job[k]
    <3>1. pc[k] \in Pushes => Outgoing(srv', job'[k].push, state'[k].seq)
      BY <1>2, <2>2 DEF InMemory
    <3>2. pc[k] \in Pushes \cup {"verify"} => SentFrom(vault'[k].env, job'[k].push)
      BY <1>1, <1>2, <2>2, EditedSent DEF InMemory
    <3>3. pc[k] = "verify" => Accepted(srv', job'[k].push, job'[k].seq, state'[k].seq)
      BY <1>2, <2>2 DEF InMemory
    <3>4. pc'[k] \notin {"pull422", "push422"}
      BY <2>2 DEF InMemory
    <3> QED BY <2>1, <2>2, <3>1, <3>2, <3>3, <3>4 DEF InMemory
  <2>3. CASE pc'[k] \in {"idle", "pull", "pull409", "saveState"}
    BY <2>1, <2>3 DEF InMemory, Pushes
  <2> QED BY <2>2, <2>3 DEF LocalAt
<1>6. ASSUME OnDisk(k) PROVE OnDisk(k)'
  <2>1. Stands(srv, new, disk[k].state)
    BY <1>1, <1>2, <1>6, EditedStands DEF OnDisk
  <2>2. \/ disk'[k].vault.env = disk[k].vault.env /\ new = env
        \/ disk'[k].vault.env = new
    BY DEF LocalAt
  <2>3. Stands(srv, disk'[k].vault.env, disk[k].state)
    BY <1>6, <2>1, <2>2 DEF OnDisk
  <2>4. pc'[k] = "saveState" => disk'[k].vault.env = new
    BY <1>6, <2>2 DEF OnDisk, LocalAt
  <2> QED BY <1>2, <2>1, <2>3, <2>4 DEF OnDisk
<1> QED BY <1>3, <1>5, <1>6

(* A step of machine m that is local to it.                                *)
LocalStep(m, v) ==
  /\ srv' = srv /\ state' = state
  /\ vault' = [vault EXCEPT ![m] = v]
  /\ \/ v.env = vault[m].env /\ fresh' = fresh
     \/ Edited(srv, vault[m].env, v.env) /\ fresh' = fresh + 1
        /\ \A i \in Ids : v.env[i] = vault[m].env[i] \/ v.env[i].seal = fresh
  /\ \/ disk' = disk /\ v.env = vault[m].env
     \/ disk' = [disk EXCEPT ![m].vault = v]
  /\ \/ pc' = pc /\ job' = job
     \/ /\ \E w \in {"idle", "pull", "pull409"} : pc' = [pc EXCEPT ![m] = w]
        /\ job' = job \/ job' = [job EXCEPT ![m] = NoJob]
     \/ /\ pc' = [pc EXCEPT ![m] = "saveState"] /\ job' = job
        /\ disk' = [disk EXCEPT ![m].vault = v]

LEMMA LocalStepMoves ==
  ASSUME TypeOK, NEW m \in Machines, NEW v \in Vault, LocalStep(m, v)
  PROVE  Moves(m, v)
<1>1. fresh \in Nat
  BY DEF TypeOK
<1>2. ASSUME NEW i \in Ids PROVE SourcedAt(m, v, i)
  BY <1>1 DEF LocalStep, SourcedAt, HeldBy
<1> QED BY <1>1, <1>2 DEF LocalStep, Moves

LEMMA LocalStepAt ==
  ASSUME TypeOK, NEW m \in Machines, NEW v \in Vault, LocalStep(m, v),
         NEW k \in Machines
  PROVE  LocalAt(k)
<1>1. CASE k # m
  <2>1. /\ state'[k] = state[k] /\ disk'[k] = disk[k] /\ vault'[k] = vault[k]
        /\ job'[k] = job[k] /\ pc'[k] = pc[k]
    BY <1>1 DEF LocalStep, TypeOK
  <2> QED BY <2>1, StillIsLocal
<1>2. CASE k = m
  <2>1. vault'[m] = v /\ state'[m] = state[m]
    BY DEF LocalStep, TypeOK
  <2>2. Edited(srv, vault[m].env, v.env)
    BY DEF LocalStep, Edited, EditedAt
  <2>3. disk'[m].state = disk[m].state
    BY DEF LocalStep, TypeOK
  <2>4. \/ disk'[m].vault.env = disk[m].vault.env /\ v.env = vault[m].env
        \/ disk'[m].vault.env = v.env
    BY DEF LocalStep, TypeOK
  <2>5. job'[m].seq \in {0, job[m].seq}
    BY DEF LocalStep, TypeOK, NoJob
  <2>6. \/ pc'[m] = pc[m] /\ job'[m] = job[m]
        \/ pc'[m] \in {"idle", "pull", "pull409"}
        \/ pc'[m] = "saveState" /\ disk'[m].vault.env = v.env
    BY DEF LocalStep, TypeOK
  <2> QED BY <1>2, <2>1, <2>2, <2>3, <2>4, <2>5, <2>6 DEF LocalAt
<1> QED BY <1>1, <1>2

(* It keeps all of the invariant.                                          *)
LEMMA LocalCoherent ==
  ASSUME TypeOK, TypeOK', Coherent, NEW m \in Machines, NEW v \in Vault,
         LocalStep(m, v), Met("settings") => Met("settings")'
  PROVE  Coherent'
<1>1. Seals' /\ Shared'
  BY LocalStepMoves, MovesSeals, MovesShared DEF Coherent
<1>2. srv' = srv
  BY DEF LocalStep
<1>3. Stamps'
  BY <1>2 DEF Stamps, Coherent
<1>4. \A k \in Machines : Numbered(k)' /\ InMemory(k)' /\ (OnDisk(k) => OnDisk(k)')
  BY <1>2, LocalStepAt, LocalKeeps DEF Coherent
<1> QED BY <1>1, <1>3, <1>4 DEF Coherent

(* Giving up is local, and so are waiting and retrying.                    *)
LEMMA GiveUpLocal ==
  ASSUME TypeOK, NEW m \in Machines, NEW v \in Vault,
         v.env = vault[m].env, GiveUp(m, v), srv' = srv
  PROVE  LocalStep(m, v)
BY DEF GiveUp, LocalStep

LEMMA StayLocal ==
  ASSUME TypeOK, NEW m \in Machines, UNCHANGED <<srv, vault, state, fresh>>,
         \/ disk' = disk
         \/ disk' = [disk EXCEPT ![m].vault = vault[m]],
         \/ pc' = pc /\ job' = job
         \/ /\ \E w \in {"idle", "pull", "pull409"} : pc' = [pc EXCEPT ![m] = w]
            /\ job' = job
         \/ /\ pc' = [pc EXCEPT ![m] = "saveState"] /\ job' = job
            /\ disk' = [disk EXCEPT ![m].vault = vault[m]]
  PROVE  vault[m] \in Vault /\ LocalStep(m, vault[m])
<1>1. vault[m] \in Vault /\ [vault EXCEPT ![m] = vault[m]] = vault
  BY MachineParts DEF TypeOK
<1> QED BY <1>1 DEF LocalStep

(* An accepted state of affairs: no push is refused for going backwards.   *)
LEMMA NeverBackward ==
  ASSUME TypeOK, Coherent, NEW m \in Machines, pc[m] \in Pushes
  PROVE  /\ Answer(m) # 422
         /\ Answer(m) = 200 => state[m].seq = srv.seq /\ Newer(srv, job[m].push)
<1>1. /\ srv \in Store /\ job[m].push \in EnvMap /\ state[m].seq \in Nat
      /\ Outgoing(srv, job[m].push, state[m].seq)
      /\ \A i \in Ids : srv.stamp[i] <= srv.seq
  BY MachineTypes DEF Coherent, InMemory, Stamps
<1>2. /\ state[m].seq = srv.seq => Newer(srv, job[m].push)
      /\ PutStatus(srv, job[m].push, state[m].seq) # 422
  BY <1>1, OutgoingNewer
<1>3. state[m].seq # srv.seq => PutStatus(srv, job[m].push, state[m].seq) = 409
  BY <1>1, NoneAssumption DEF PutStatus
<1> QED BY <1>2, <1>3 DEF Answer

(* A person's operation: the machine shows what it has just sealed.        *)
LEMMA OperateLocal ==
  ASSUME TypeOK, NEW m \in Machines, NEW op, NEW v \in Vault, Operate(m, op, v),
         NEW i \in Ids, NEW e, e.seal = fresh, e # None,
         v.env = [vault[m].env EXCEPT ![i] = e],
         vault[m].env[i] = None => srv.recs[i] = None,
         vault[m].env[i] # None => Outranks(e, vault[m].env[i])
  PROVE  LocalStep(m, v)
<1>1. vault[m].env \in EnvMap
  BY MachineTypes
<1>2. \A j \in Ids : v.env[j] = IF j = i THEN e ELSE vault[m].env[j]
  BY <1>1 DEF EnvMap
<1>3. Edited(srv, vault[m].env, v.env)
  BY <1>2 DEF Edited, EditedAt
<1>4. \A j \in Ids : v.env[j] = vault[m].env[j] \/ v.env[j].seal = fresh
  BY <1>2
<1> QED BY <1>3, <1>4 DEF Operate, LocalStep

LEMMA ResealLocal ==
  ASSUME TypeOK, NEW m \in Machines, NEW i \in Ids, Live(vault[m].env[i]),
         NEW op, NEW v \in Vault, Operate(m, op, v),
         NEW body \in Nat, NEW deleted \in BOOLEAN,
         v.env = [vault[m].env EXCEPT
                    ![i] = Sealed(vault[m].env[i].rev + 1, body, deleted)]
  PROVE  LocalStep(m, v)
<1> DEFINE l == vault[m].env[i]
           e == Sealed(l.rev + 1, body, deleted)
<1>1. l # None /\ ~l.deleted /\ l.rev \in Nat
  BY MachineTypes, EnvelopeFacts DEF Live, EnvMap
<1>2. e.seal = fresh /\ e.rev = l.rev + 1 /\ e \in Envelopes
  BY <1>1 DEF Sealed, Envelopes, Envelope, TypeOK
<1>3. Outranks(e, l) /\ e # None
  BY <1>1, <1>2, EnvelopeFacts DEF Outranks
<1> HIDE DEF e, l
<1>4. v.env = [vault[m].env EXCEPT ![i] = e]
  BY DEF e, l
<1> QED BY <1>1, <1>2, <1>3, <1>4, OperateLocal DEF l

LEMMA UserLocal ==
  ASSUME TypeOK, Unminted, NEW m \in Machines, UserStep(m)
  PROVE  \E v \in Vault : LocalStep(m, v)
<1>1. /\ vault[m] \in Vault /\ vault[m].env \in EnvMap /\ fresh \in Nat
      /\ minted \in Nat /\ Ids \subseteq Nat
  BY MachineParts, VaultParts, IdsAssumption DEF TypeOK
<1>2. CASE Add(m)
  <2> DEFINE e == Sealed(1, fresh, FALSE)
             map == [vault[m].env EXCEPT ![minted + 1] = e]
             v == [vault[m] EXCEPT !.env[minted + 1] = e]
  <2>1. e \in Envelopes /\ e # None /\ e.seal = fresh /\ minted + 1 \in Ids
    <3>1. e \in Envelopes /\ e.seal = fresh
      BY <1>1 DEF Sealed, Envelopes, Envelope
    <3>2. minted + 1 \in Ids
      BY <1>1, <1>2, IdsAssumption DEF Add
    <3> QED BY <3>1, <3>2, EnvelopeFacts
  <2>2. map \in EnvMap
    BY <1>1, <2>1 DEF EnvMap
  <2>3. v \in Vault /\ v.env = map
    BY <1>1, <2>2 DEF Vault
  <2>4. vault[m].env[minted + 1] = None /\ srv.recs[minted + 1] = None
    BY <1>1, <2>1 DEF Unminted, Unwritten
  <2>5. Operate(m, "add", v)
    BY <1>2 DEF Add
  <2> HIDE DEF v, e
  <2> QED BY <2>1, <2>3, <2>4, <2>5, OperateLocal
<1>3. ASSUME NEW i \in Ids, NEW body \in Nat, NEW op, Live(vault[m].env[i]),
             Operate(m, op, Rewrite(m, i, body))
      PROVE  \E v \in Vault : LocalStep(m, v)
  <2> DEFINE map == [vault[m].env EXCEPT
                       ![i] = Sealed(vault[m].env[i].rev + 1, body, FALSE)]
             v == Rewrite(m, i, body)
  <2>1. map \in EnvMap
    BY <1>3, ResealType
  <2>2. v \in Vault /\ v.env = map
    BY <1>1, <2>1, WithEnvType DEF Rewrite
  <2> HIDE DEF v
  <2>3. Operate(m, op, v)
    BY <1>3 DEF v
  <2> QED BY <1>3, <2>2, <2>3, ResealLocal
<1>4. ASSUME NEW i \in Ids, Edit(m, i) PROVE \E v \in Vault : LocalStep(m, v)
  BY <1>1, <1>3, <1>4 DEF Edit
<1>5. ASSUME NEW i \in Ids, Touch(m, i) PROVE \E v \in Vault : LocalStep(m, v)
  <2>1. vault[m].env[i].body \in Nat
    BY <1>5, ResealType DEF Touch
  <2> QED BY <1>3, <1>5, <2>1 DEF Touch
<1>6. ASSUME NEW i \in Ids, Delete(m, i) PROVE \E v \in Vault : LocalStep(m, v)
  <2> DEFINE map == [vault[m].env EXCEPT ![i] = Sealed(vault[m].env[i].rev + 1, 0, TRUE)]
             v == [vault[m] EXCEPT !.env[i] = Sealed(vault[m].env[i].rev + 1, 0, TRUE)]
  <2>1. map \in EnvMap
    BY <1>6, ResealType DEF Delete
  <2>2. v \in Vault /\ v.env = map
    BY <1>1, <2>1 DEF Vault
  <2>3. Operate(m, "delete", v) /\ Live(vault[m].env[i])
    BY <1>6 DEF Delete
  <2> HIDE DEF v
  <2> QED BY <2>2, <2>3, ResealLocal
<1> QED BY <1>2, <1>4, <1>5, <1>6 DEF UserStep

(* Forks stand where the server has nothing.                               *)
LEMMA ResolvedEdits ==
  ASSUME TypeOK, Unminted, NEW v \in Vault, Unwritten(v.env),
         NEW n \in 0 .. MaxIds - minted,
         NEW name \in Bijection(FreshIds(n), Forkable(v))
  PROVE  /\ Edited(srv, v.env, Resolved(v, name).env)
         /\ \A i \in Ids : \/ i \notin FreshIds(n) /\ Resolved(v, name).env[i] = v.env[i]
                           \/ /\ i \in FreshIds(n) /\ v.env[i] = None /\ srv.recs[i] = None
                              /\ Resolved(v, name).env[i] \in Envelopes
                              /\ Resolved(v, name).env[i].seal = fresh
         /\ n = 0 => Resolved(v, name).env = v.env
<1> DEFINE r == Resolved(v, name)
<1>1. /\ FreshIds(n) \subseteq Ids /\ r \in Vault
      /\ \A i \in Ids \ FreshIds(n) : r.env[i] = v.env[i]
  BY ResolvedType
<1>2. minted \in Nat /\ Ids \subseteq Nat /\ n \in Nat
  BY IdsAssumption DEF TypeOK
<1>3. ASSUME NEW i \in FreshIds(n)
      PROVE  /\ v.env[i] = None /\ srv.recs[i] = None
             /\ r.env[i] \in Envelopes /\ r.env[i].seal = fresh
  <2>1. i \in Ids /\ i > minted
    BY <1>1, <1>2 DEF FreshIds
  <2>2. DOMAIN name = FreshIds(n) /\ name[i] \in v.parked
    BY DEF Bijection, Injection, Forkable
  <2>3. r.env[i] = Sealed(1, name[i].env.body, FALSE)
    BY <2>1, <2>2 DEF Resolved, Vault
  <2>4. name[i].env.body \in Nat
    BY <2>2, VaultParts, EnvelopeFacts DEF Parked
  <2>5. Sealed(1, name[i].env.body, FALSE) \in Envelopes
    BY <2>4 DEF Sealed, Envelopes, Envelope, TypeOK
  <2>6. Sealed(1, name[i].env.body, FALSE).seal = fresh
    BY DEF Sealed
  <2> QED BY <2>1, <2>3, <2>5, <2>6 DEF Unminted, Unwritten
<1> HIDE DEF r
<1>4. \A i \in Ids : \/ i \notin FreshIds(n) /\ r.env[i] = v.env[i]
                     \/ /\ i \in FreshIds(n) /\ v.env[i] = None /\ srv.recs[i] = None
                        /\ r.env[i] \in Envelopes /\ r.env[i].seal = fresh
  BY <1>1, <1>3
<1>5. Edited(srv, v.env, r.env)
  BY <1>4, EnvelopeFacts DEF Edited, EditedAt
<1>6. ASSUME n = 0 PROVE r.env = v.env
  <2>1. FreshIds(n) = {}
    BY <1>2, <1>6 DEF FreshIds
  <2>2. r.env \in EnvMap /\ v.env \in EnvMap
    BY <1>1, VaultParts
  <2> QED BY <1>4, <2>1, <2>2 DEF EnvMap
<1> QED BY <1>4, <1>5, <1>6 DEF r

LEMMA UnlockLocal ==
  ASSUME TypeOK, Unminted, NEW m \in Machines, Unlock(m)
  PROVE  \E v \in Vault : LocalStep(m, v)
<1> DEFINE Opened(n, name) ==
        LET w == [Resolved(vault[m], name) EXCEPT !.locked = FALSE]
        IN  /\ vault' = [vault EXCEPT ![m] = w]
            /\ disk' = IF n = 0 THEN disk ELSE [disk EXCEPT ![m].vault = w]
            /\ fresh' = IF n = 0 THEN fresh ELSE fresh + 1
<1>1. PICK n \in 0 .. MaxIds - minted :
        \E name \in Bijection(FreshIds(n), Forkable(vault[m])) : Opened(n, name)
  BY DEF Unlock
<1>2. PICK name \in Bijection(FreshIds(n), Forkable(vault[m])) : Opened(n, name)
  BY <1>1
<1> DEFINE r == Resolved(vault[m], name)
           v == [r EXCEPT !.locked = FALSE]
<1>3. vault[m] \in Vault /\ Unwritten(vault[m].env)
  BY MachineParts DEF Unminted
<1>4. r \in Vault
  BY <1>3, ResolvedType
<1>5. /\ Edited(srv, vault[m].env, r.env)
      /\ \A i \in Ids : r.env[i] = vault[m].env[i] \/ r.env[i].seal = fresh
      /\ n = 0 => r.env = vault[m].env
  BY <1>3, ResolvedEdits
<1>6. /\ vault' = [vault EXCEPT ![m] = v]
      /\ disk' = IF n = 0 THEN disk ELSE [disk EXCEPT ![m].vault = v]
      /\ fresh' = IF n = 0 THEN fresh ELSE fresh + 1
  BY <1>2
<1>7. UNCHANGED <<srv, state, pc, job>>
  BY DEF Unlock
<1> HIDE DEF r
<1>8. v \in Vault /\ v.env = r.env
  BY <1>4 DEF Vault
<1> HIDE DEF v
<1>9. LocalStep(m, v)
  BY <1>5, <1>6, <1>7, <1>8 DEF LocalStep
<1> QED BY <1>8, <1>9

(* What a machine does between two replies that changes nothing it         *)
(* remembers of the server: giving up, retrying, waiting, saving.          *)
LEMMA SyncLocal ==
  ASSUME TypeOK, Coherent, NEW m \in Machines,
         \/ Start(m) \/ PushRetried(m) \/ PushGivenUp(m) \/ VerifyRefused(m)
         \/ SaveVault(m) \/ LoseRequest(m) \/ Lock(m)
         \/ Pull(m) /\ (PullRefused(m, Merged(m)) \/ PullLockedConflict(m, Merged(m)))
  PROVE  \E v \in Vault : LocalStep(m, v)
<1>1. vault[m] \in Vault /\ AllOutcomes(Merged(m))
  BY MachineParts, MergedType
<1>2. CASE Start(m)
  <2>1. /\ UNCHANGED <<srv, vault, state, fresh>> /\ disk' = disk /\ job' = job
        /\ pc' = [pc EXCEPT ![m] = "pull"]
    BY <1>2 DEF Start
  <2> QED BY <2>1, StayLocal
<1>3. CASE PushRetried(m)
  <2>1. pc[m] \in Pushes
    BY <1>3 DEF PushRetried, Pushes
  <2>2. Answer(m) # 422
    BY <2>1, NeverBackward
  <2>3. /\ UNCHANGED <<srv, vault, state, fresh>> /\ disk' = disk /\ job' = job
        /\ pc' = [pc EXCEPT ![m] = "pull409"]
    BY <1>3, <2>2 DEF PushRetried
  <2> QED BY <2>3, StayLocal
<1>4. CASE PushGivenUp(m)
  BY <1>1, <1>4, GiveUpLocal DEF PushGivenUp
<1>5. CASE VerifyRefused(m)
  BY <1>1, <1>5, GiveUpLocal DEF VerifyRefused
<1>6. CASE SaveVault(m)
  <2>1. /\ UNCHANGED <<srv, vault, state, fresh>> /\ job' = job
        /\ disk' = [disk EXCEPT ![m].vault = vault[m]]
        /\ pc' = [pc EXCEPT ![m] = "saveState"]
    BY <1>6 DEF SaveVault
  <2> QED BY <2>1, StayLocal
<1>7. CASE LoseRequest(m)
  BY <1>1, <1>7, GiveUpLocal DEF LoseRequest
<1>8. CASE Lock(m)
  <2> DEFINE v == [vault[m] EXCEPT !.locked = TRUE]
  <2>1. v \in Vault /\ v.env = vault[m].env
    BY <1>1 DEF Vault
  <2>2. /\ vault' = [vault EXCEPT ![m] = v]
        /\ UNCHANGED <<srv, state, disk, pc, job, fresh>>
    BY <1>8 DEF Lock
  <2> HIDE DEF v
  <2>3. LocalStep(m, v)
    BY <2>1, <2>2 DEF LocalStep
  <2> QED BY <2>1, <2>3
<1>9. CASE PullRefused(m, Merged(m))
  BY <1>1, <1>9, GiveUpLocal DEF PullRefused
<1>10. CASE PullLockedConflict(m, Merged(m))
  <2> DEFINE v == Park(vault[m], Losers(Merged(m)))
  <2>1. v \in Vault /\ v.env = vault[m].env
    BY <1>1, LosersType, ParkType
  <2>2. GiveUp(m, v) /\ srv' = srv
    BY <1>10 DEF PullLockedConflict
  <2> HIDE DEF v
  <2> QED BY <2>1, <2>2, GiveUpLocal
<1> QED BY <1>2, <1>3, <1>4, <1>5, <1>6, <1>7, <1>8, <1>9, <1>10

-----------------------------------------------------------------------------
(***************************************************************************)
(* A pull that is taken.                                                   *)
(***************************************************************************)
(* What is asked for is what was written since, and what is not served the *)
(* machine is level with; so each record's merge is as MergeOfLevel has it.*)
LEMMA PullMerges ==
  ASSUME TypeOK, Coherent, NEW m \in Machines, pc[m] \in Pulls, NEW i \in Ids
  PROVE  LET l == vault[m].env[i]
             o == Merged(m)[i]
         IN  /\ MergeLevels(l, srv.recs[i], Asked(m)[i], state[m].synced[i],
                            o, Adopt(l, o.env))
             /\ srv.stamp[i] <= state[m].seq => Asked(m)[i] = None
             /\ Asked(m)[i] \in {None, srv.recs[i]}
             /\ l \in Maybe /\ srv.recs[i] \in Maybe
             /\ Bounded(l, srv.recs[i], state[m].synced[i])
<1> DEFINE l == vault[m].env[i]
           r == srv.recs[i]
           a == Asked(m)[i]
           b == state[m].synced[i]
<1>1. /\ l \in Maybe /\ r \in Maybe /\ b \in Base /\ srv.stamp[i] \in Nat
      /\ state[m].seq \in Nat
  BY MachineTypes DEF EnvMap, Maybe, Base, State, Store
<1>2. pc[m] # "pull422" /\ StandsAt(srv, vault[m].env, state[m], i)
  BY DEF Coherent, InMemory, Stands
<1>3. a = IF r # None /\ srv.stamp[i] > state[m].seq THEN r ELSE None
  BY <1>2 DEF Asked, Since
<1>4. srv.stamp[i] <= state[m].seq => a = None
  BY <1>1, <1>3
<1>5. Bounded(l, r, b) /\ (a = None => Level(l, r, b))
  <2>1. a = None /\ r # None => srv.stamp[i] <= state[m].seq
    BY <1>1, <1>3
  <2> QED BY <1>2, <2>1 DEF StandsAt, Level
<1>6. l # None /\ r # None /\ l.seal = r.seal => l = r
  <2>1. l # None /\ r # None => l \in Held(i) /\ r \in Held(i)
    BY DEF Held, HeldBy
  <2> QED BY <2>1 DEF Coherent, Seals
<1>7. a \in {None, r} /\ Merged(m)[i] = MergeOne(l, a, b)
  BY <1>3, MergedType
<1>8. MergeLevels(l, r, a, b, MergeOne(l, a, b), Adopt(l, MergeOne(l, a, b).env))
  BY <1>1, <1>5, <1>6, <1>7, MergeOfLevel
<1> QED BY <1>1, <1>4, <1>5, <1>7, <1>8

(* So nothing an honest server says reads as going backwards.              *)
LEMMA PullNeverBackwards ==
  ASSUME TypeOK, Coherent, NEW m \in Machines, pc[m] \in Pulls
  PROVE  ~GoneBackwards(m, Merged(m))
<1>1. ~(srv.seq < state[m].highest)
  BY MachineTypes DEF Coherent, Numbered
<1>2. \A i \in Ids : ~Merged(m)[i].rolledBack
  BY PullMerges DEF MergeLevels
<1> QED BY <1>1, <1>2 DEF GoneBackwards

(* What a pull leaves at an id, and what it sends.                         *)
PulledAt(m, v, forks, i) ==
  LET l == vault[m].env[i]
      r == srv.recs[i]
      o == Merged(m)[i]
      y == v.env[i]
  IN  /\ Bounded(y, r, o.synced) /\ Level(y, r, o.synced)
      /\ y \in {l, r} \/ (y.seal = fresh /\ fresh' > fresh)
      /\ l # None => y # None /\ (y = r \/ y.rev >= l.rev)
      /\ srv.stamp[i] <= state[m].seq /\ r # None => y = l
      /\ o.push \/ i \in forks => y # None /\ (r # None => Outranks(y, r))

(* Locked: nothing was contested, and the merge is taken as it is.         *)
LEMMA PulledLocked ==
  ASSUME TypeOK, Coherent, NEW m \in Machines, pc[m] \in Pulls,
         PullLocked(m, Merged(m)), NEW i \in Ids
  PROVE  PulledAt(m, Applying(vault[m], Merged(m)), {}, i)
<1> DEFINE l == vault[m].env[i]
           r == srv.recs[i]
           a == Asked(m)[i]
           b == state[m].synced[i]
           o == Merged(m)[i]
           y == Applying(vault[m], Merged(m)).env[i]
<1>1. y = Adopt(l, o.env)
  BY MachineParts, MergedType, ApplyingType
<1>2. o.parked = None
  BY DEF PullLocked, Contested
<1>3. /\ MergeLevels(l, r, a, b, o, Adopt(l, o.env))
      /\ srv.stamp[i] <= state[m].seq => a = None
      /\ l \in Maybe /\ a \in {None, r}
  BY PullMerges
<1>4. l # None => l.rev \in Nat
  BY <1>3, EnvelopeFacts DEF Maybe
<1> HIDE DEF o, y
<1>5. Bounded(y, r, o.synced) /\ Level(y, r, o.synced) /\ y \in {l, r}
  BY <1>1, <1>2, <1>3 DEF MergeLevels
<1>6. l # None => y # None /\ (y = r \/ y.rev >= l.rev)
  <2>1. l # None /\ r = None => y # None
    BY <1>1, <1>3 DEF MergeLevels
  <2> QED BY <1>4, <1>5, <2>1
<1>7. srv.stamp[i] <= state[m].seq => y = l
  BY <1>1, <1>3 DEF MergeLevels
<1>8. o.push => y # None /\ (r # None => Outranks(y, r))
  BY <1>1, <1>2, <1>3 DEF MergeLevels
<1> QED BY <1>5, <1>6, <1>7, <1>8 DEF PulledAt, o, y

(* Unlocked: a contested record that is kept is sealed anew, above both.   *)
LEMMA KeptAt ==
  ASSUME TypeOK, NEW m \in Machines, NEW i \in Ids
  PROVE  LET x == Adopt(vault[m].env[i], Merged(m)[i].env)
         IN  Kept(m, Merged(m)).env[i] =
               IF Merged(m)[i].parked # None /\ Merged(m)[i].push
               THEN Sealed(Higher(x.rev, Asked(m)[i].rev) + 1, x.body, x.deleted)
               ELSE x
<1> DEFINE out == Merged(m)
           ap == Applying(vault[m], out)
           pk == Park(ap, Losers(out))
<1>1. vault[m] \in Vault /\ AllOutcomes(out)
  BY MachineParts, MergedType
<1>2. ap \in Vault /\ ap.env[i] = Adopt(vault[m].env[i], out[i].env)
  BY <1>1, ApplyingType
<1>3. pk \in Vault /\ pk.env = ap.env
  BY <1>1, <1>2, LosersType, ParkType
<1> HIDE DEF out, pk
<1>4. Superseding(pk, Asked(m), out).env[i] =
        IF i \in Contested(out) /\ out[i].push
        THEN Sealed(Higher(pk.env[i].rev, Asked(m)[i].rev) + 1,
                    pk.env[i].body, pk.env[i].deleted)
        ELSE pk.env[i]
  BY <1>3 DEF Superseding, Vault
<1>5. i \in Contested(out) <=> out[i].parked # None
  BY DEF Contested
<1>6. Kept(m, Merged(m)) = Superseding(pk, Asked(m), out)
  BY DEF Kept, out, pk
<1> QED BY <1>2, <1>3, <1>4, <1>5, <1>6 DEF out

(* What is sealed anew outranks both sides.                                *)
LEMMA SupersededOutranks ==
  ASSUME TypeOK, NEW l \in Envelopes, NEW r \in Envelopes, r.deleted => l.deleted
  PROVE  LET y == Sealed(Higher(l.rev, r.rev) + 1, l.body, l.deleted)
         IN  /\ y \in Envelopes /\ y.seal = fresh
             /\ Outranks(y, r) /\ y.rev >= l.rev
<1> DEFINE y == Sealed(Higher(l.rev, r.rev) + 1, l.body, l.deleted)
<1>1. /\ l.rev \in Nat /\ r.rev \in Nat /\ l.body \in Nat /\ l.deleted \in BOOLEAN
      /\ fresh \in Nat
  BY EnvelopeFacts DEF TypeOK
<1>2. /\ Higher(l.rev, r.rev) \in Nat
      /\ Higher(l.rev, r.rev) >= l.rev /\ Higher(l.rev, r.rev) >= r.rev
  BY <1>1 DEF Higher
<1>3. /\ y.rev = Higher(l.rev, r.rev) + 1 /\ y.deleted = l.deleted /\ y.seal = fresh
      /\ y.body = l.body
  BY DEF Sealed
<1>4. y \in Envelopes
  BY <1>1, <1>2 DEF Sealed, Envelopes, Envelope
<1> HIDE DEF y
<1>5. Outranks(y, r) /\ y.rev >= l.rev
  BY <1>1, <1>2, <1>3 DEF Outranks
<1> QED BY <1>3, <1>4, <1>5 DEF y

LEMMA PulledUnlocked ==
  ASSUME TypeOK, Unminted, Coherent, NEW m \in Machines, pc[m] \in Pulls,
         NEW n \in 0 .. MaxIds - minted,
         NEW name \in Bijection(FreshIds(n), Forkable(Kept(m, Merged(m)))),
         n # 0 => fresh' > fresh,
         (\E i \in Contested(Merged(m)) : Merged(m)[i].push) => fresh' > fresh,
         NEW i \in Ids
  PROVE  PulledAt(m, Resolved(Kept(m, Merged(m)), name), FreshIds(n), i)
<1> DEFINE l == vault[m].env[i]
           r == srv.recs[i]
           a == Asked(m)[i]
           b == state[m].synced[i]
           o == Merged(m)[i]
           x == Adopt(l, o.env)
           k == Kept(m, Merged(m))
           v == Resolved(k, name)
           y == v.env[i]
<1>1. /\ MergeLevels(l, r, a, b, o, x)
      /\ srv.stamp[i] <= state[m].seq => a = None
      /\ l \in Maybe /\ r \in Maybe /\ a \in {None, r} /\ Bounded(l, r, b)
  BY PullMerges
<1>2. k \in Vault /\ Unwritten(k.env)
  BY KeptType, MergedAt DEF Unwritten
<1>3. \/ i \notin FreshIds(n) /\ y = k.env[i]
      \/ /\ i \in FreshIds(n) /\ k.env[i] = None /\ r = None
         /\ y \in Envelopes /\ y.seal = fresh
  BY <1>2, ResolvedEdits
<1>4. k.env[i] = IF o.parked # None /\ o.push
                 THEN Sealed(Higher(x.rev, a.rev) + 1, x.body, x.deleted)
                 ELSE x
  BY KeptAt
<1>5. i \in Contested(Merged(m)) <=> o.parked # None
  BY DEF Contested
<1>6. o.parked # None => a = r /\ r # None /\ l # None
  BY <1>1 DEF MergeLevels
<1>7. l # None => l.rev \in Nat
  BY <1>1, EnvelopeFacts DEF Maybe
<1> HIDE DEF o, k, y
<1>8. CASE i \in FreshIds(n)
  <2>1. /\ k.env[i] = None /\ r = None /\ y \in Envelopes /\ y.seal = fresh
        /\ a = None /\ n # 0
    <3>1. n # 0
      <4>1. minted \in Nat
        BY DEF TypeOK
      <4> QED BY <1>8, <4>1 DEF FreshIds
    <3> QED BY <1>1, <1>3, <1>8, <3>1
  <2>2. x = l /\ o.synced = b /\ o.parked = None
    BY <1>1, <2>1 DEF MergeLevels
  <2>3. l = None
    BY <1>4, <2>1, <2>2
  <2>4. b = None
    BY <1>1, <2>1 DEF Bounded
  <2> QED BY <2>1, <2>2, <2>3, <2>4, EnvelopeFacts
          DEF PulledAt, Bounded, Level, o, y, v, k
<1>9. CASE i \notin FreshIds(n) /\ o.parked = None
  <2>1. y = x
    BY <1>3, <1>4, <1>9
  <2>2. Bounded(y, r, o.synced) /\ Level(y, r, o.synced) /\ y \in {l, r}
    BY <1>1, <1>9, <2>1 DEF MergeLevels
  <2>3. l # None => y # None /\ (y = r \/ y.rev >= l.rev)
    <3>1. r = None => y = l
      BY <1>1, <2>1 DEF MergeLevels
    <3> QED BY <1>7, <2>2, <3>1
  <2>4. srv.stamp[i] <= state[m].seq => y = l
    BY <1>1, <2>1 DEF MergeLevels
  <2>5. o.push => y # None /\ (r # None => Outranks(y, r))
    BY <1>1, <1>9, <2>1 DEF MergeLevels
  <2> QED BY <1>9, <2>2, <2>3, <2>4, <2>5 DEF PulledAt, o, y, v, k
<1>10. CASE i \notin FreshIds(n) /\ o.parked # None /\ ~o.push
  <2>1. y = r /\ o.synced = r.rev /\ r # None /\ a # None
    BY <1>1, <1>3, <1>4, <1>6, <1>10 DEF MergeLevels
  <2>2. r.rev \in Nat
    BY <1>1, <2>1, EnvelopeFacts DEF Maybe
  <2>3. Bounded(y, r, o.synced) /\ Level(y, r, o.synced)
    BY <2>1, <2>2 DEF Bounded, Level
  <2> QED BY <1>1, <1>10, <2>1, <2>3 DEF PulledAt, o, y, v, k
<1>11. CASE i \notin FreshIds(n) /\ o.parked # None /\ o.push
  <2>1. /\ x = l /\ (r.deleted => l.deleted) /\ (o.synced # None => o.synced <= r.rev)
        /\ r # None /\ l # None /\ a = r
    BY <1>1, <1>6, <1>11 DEF MergeLevels
  <2>2. l \in Envelopes /\ r \in Envelopes
    BY <1>1, <2>1 DEF Maybe
  <2>3. y = Sealed(Higher(l.rev, r.rev) + 1, l.body, l.deleted)
    BY <1>3, <1>4, <1>11, <2>1
  <2>4. y \in Envelopes /\ y.seal = fresh /\ Outranks(y, r) /\ y.rev >= l.rev
    BY <2>1, <2>2, <2>3, SupersededOutranks
  <2>5. fresh' > fresh
    BY <1>5, <1>11 DEF o
  <2>6. y # None /\ y.rev \in Nat /\ r.rev \in Nat
    BY <2>2, <2>4, EnvelopeFacts
  <2>7. o.synced # None => o.synced \in Nat
    BY MergedType DEF AllOutcomes, Outcomes, Base, o
  <2>8. Bounded(y, r, o.synced) /\ Level(y, r, o.synced)
    BY <2>1, <2>4, <2>6, <2>7 DEF Bounded, Level, Outranks
  <2>9. srv.stamp[i] <= state[m].seq => FALSE
    BY <1>1, <2>1
  <2> QED BY <2>1, <2>4, <2>5, <2>6, <2>8, <2>9 DEF PulledAt, o, y, v, k
<1> QED BY <1>8, <1>9, <1>10, <1>11

(* A pull that is taken, locked or not.                                    *)
PulledStep(m, v, forks) ==
  /\ pc[m] \in {"pull", "pull409"}
  /\ AfterPull(m, v, Merged(m), forks)
  /\ fresh' \in Nat /\ fresh' >= fresh
  /\ \A i \in Ids : PulledAt(m, v, forks, i)

LEMMA PullKinds ==
  ASSUME TypeOK, Unminted, Coherent, NEW m \in Machines, Pull(m)
  PROVE  \/ \E v \in Vault : LocalStep(m, v)
         \/ \E v \in Vault, forks \in SUBSET Ids : PulledStep(m, v, forks)
<1>1. pc[m] \in Pulls /\ pc[m] \in {"pull", "pull409"}
  BY DEF Pull, Coherent, InMemory, Pulls
<1>2. vault[m] \in Vault /\ AllOutcomes(Merged(m)) /\ fresh \in Nat
  BY MachineParts, MergedType DEF TypeOK
<1>3. CASE PullRefused(m, Merged(m)) \/ PullLockedConflict(m, Merged(m))
  BY <1>3, SyncLocal
<1>4. CASE PullLocked(m, Merged(m))
  <2> DEFINE v == Applying(vault[m], Merged(m))
  <2>1. v \in Vault
    BY <1>2, ApplyingType
  <2>2. \A i \in Ids : PulledAt(m, v, {}, i)
    BY <1>1, <1>4, PulledLocked
  <2>3. AfterPull(m, v, Merged(m), {}) /\ fresh' = fresh
    BY <1>4 DEF PullLocked
  <2> HIDE DEF v
  <2>4. PulledStep(m, v, {}) /\ {} \in SUBSET Ids
    BY <1>1, <1>2, <2>2, <2>3 DEF PulledStep
  <2> QED BY <2>1, <2>4
<1>5. CASE PullUnlocked(m, Merged(m))
  <2> DEFINE Took(n, name) ==
          /\ AfterPull(m, Resolved(Kept(m, Merged(m)), name), Merged(m), FreshIds(n))
          /\ minted' = minted + n
  <2>1. PICK n \in 0 .. MaxIds - minted :
          \E name \in Bijection(FreshIds(n), Forkable(Kept(m, Merged(m)))) : Took(n, name)
    BY <1>5 DEF PullUnlocked
  <2>2. PICK name \in Bijection(FreshIds(n), Forkable(Kept(m, Merged(m)))) : Took(n, name)
    BY <2>1
  <2> DEFINE v == Resolved(Kept(m, Merged(m)), name)
  <2>3. fresh' = IF minted' # minted \/ (\E i \in Contested(Merged(m)) : Merged(m)[i].push)
                 THEN fresh + 1 ELSE fresh
    BY <1>5 DEF PullUnlocked
  <2>4. minted \in Nat /\ n \in Nat
    BY DEF TypeOK
  <2>5. n # 0 => minted' # minted
    BY <2>2, <2>4
  <2>6. /\ fresh' \in Nat /\ fresh' >= fresh /\ (n # 0 => fresh' > fresh)
        /\ (\E i \in Contested(Merged(m)) : Merged(m)[i].push) => fresh' > fresh
    BY <1>2, <2>3, <2>5
  <2>7. \A i \in Ids : PulledAt(m, v, FreshIds(n), i)
    BY <1>1, <2>6, PulledUnlocked
  <2>8. v \in Vault /\ FreshIds(n) \in SUBSET Ids
    BY KeptType, ResolvedType
  <2> HIDE DEF v
  <2>9. PulledStep(m, v, FreshIds(n))
    BY <1>1, <2>2, <2>6, <2>7 DEF PulledStep, v
  <2> QED BY <2>8, <2>9
<1> QED BY <1>3, <1>4, <1>5 DEF Pull

(* What it leaves behind, part by part.                                    *)
Pulled(m, v, forks) ==
  /\ srv' = srv /\ disk' = disk /\ vault' = [vault EXCEPT ![m] = v]
  /\ vault'[m] = v
  /\ state'[m].seq = srv.seq
  /\ state'[m].highest = Higher(state[m].highest, srv.seq)
  /\ \A i \in Ids : state'[m].synced[i] = Merged(m)[i].synced
  /\ \A i \in Ids : job'[m].push[i] =
       IF Merged(m)[i].push \/ i \in forks THEN v.env[i] ELSE None
  /\ job'[m].seq = 0
  /\ pc'[m] \in {"saveVault", "push", "push409"}
  /\ \A k \in Machines : k # m =>
       /\ state'[k] = state[k] /\ disk'[k] = disk[k] /\ vault'[k] = vault[k]
       /\ job'[k] = job[k] /\ pc'[k] = pc[k]
  /\ \E up \in SUBSET Ids :
       job' = [job EXCEPT ![m] =
         [push |-> [i \in Ids |-> IF i \in up THEN v.env[i] ELSE None], seq |-> 0]]

LEMMA PulledParts ==
  ASSUME TypeOK, NEW m \in Machines, NEW v \in Vault, NEW forks \in SUBSET Ids,
         PulledStep(m, v, forks)
  PROVE  Pulled(m, v, forks)
<1> DEFINE up == {i \in Ids : Merged(m)[i].push} \cup forks
           push == [i \in Ids |-> IF i \in up THEN v.env[i] ELSE None]
           st == [seq |-> srv.seq, highest |-> Higher(state[m].highest, srv.seq),
                  synced |-> [i \in Ids |-> Merged(m)[i].synced]]
<1>1. /\ srv' = srv /\ disk' = disk /\ vault' = [vault EXCEPT ![m] = v]
      /\ state' = [state EXCEPT ![m] = st]
      /\ job' = [job EXCEPT ![m] = [push |-> push, seq |-> 0]]
  BY DEF PulledStep, AfterPull
<1>2. \E w \in {"saveVault", "push", "push409"} : pc' = [pc EXCEPT ![m] = w]
  <2>1. pc' = [pc EXCEPT ![m] =
              CASE pc[m] = "pull" /\ up = {} -> "saveVault"
                [] pc[m] = "pull" /\ up # {} -> "push"
                [] pc[m] = "pull409"         -> "push409"
                [] pc[m] = "pull422"         -> "push422"]
    BY DEF PulledStep, AfterPull
  <2> HIDE DEF up
  <2>2. pc[m] \in {"pull", "pull409"}
    BY DEF PulledStep
  <2>3. CASE pc[m] = "pull409"
    BY <2>1, <2>3
  <2>4. CASE pc[m] = "pull" /\ up = {}
    BY <2>1, <2>4
  <2>5. CASE pc[m] = "pull" /\ up # {}
    BY <2>1, <2>5
  <2> QED BY <2>2, <2>3, <2>4, <2>5
<1>3. up \in SUBSET Ids /\ \A i \in Ids : i \in up <=> Merged(m)[i].push \/ i \in forks
  OBVIOUS
<1> HIDE DEF up
<1>4. \A i \in Ids : push[i] = IF Merged(m)[i].push \/ i \in forks THEN v.env[i] ELSE None
  BY <1>3
<1>5. \E u \in SUBSET Ids :
        job' = [job EXCEPT ![m] =
          [push |-> [i \in Ids |-> IF i \in u THEN v.env[i] ELSE None], seq |-> 0]]
  BY <1>1, <1>3
<1> HIDE DEF push
<1>6. state'[m] = st /\ job'[m] = [push |-> push, seq |-> 0] /\ vault'[m] = v
  BY <1>1 DEF TypeOK
<1>7. pc'[m] \in {"saveVault", "push", "push409"}
  BY <1>2 DEF TypeOK
<1>8. \A k \in Machines : k # m =>
              /\ state'[k] = state[k] /\ disk'[k] = disk[k] /\ vault'[k] = vault[k]
              /\ job'[k] = job[k] /\ pc'[k] = pc[k]
  BY <1>1, <1>2 DEF TypeOK
<1>9. /\ st.seq = srv.seq /\ st.highest = Higher(state[m].highest, srv.seq)
      /\ \A i \in Ids : st.synced[i] = Merged(m)[i].synced
  OBVIOUS
<1> HIDE DEF st
<1>10. /\ state'[m].seq = srv.seq
       /\ state'[m].highest = Higher(state[m].highest, srv.seq)
       /\ \A i \in Ids : state'[m].synced[i] = Merged(m)[i].synced
  BY <1>6, <1>9
<1>11. \A i \in Ids : job'[m].push[i] =
         IF Merged(m)[i].push \/ i \in forks THEN v.env[i] ELSE None
  BY <1>4, <1>6
<1>12. job'[m].seq = 0 /\ vault'[m] = v
  BY <1>6
<1> QED BY ONLY <1>1, <1>5, <1>7, <1>8, <1>10, <1>11, <1>12 DEF Pulled

LEMMA PulledCoherent ==
  ASSUME TypeOK, TypeOK', Coherent, NEW m \in Machines, NEW v \in Vault,
         NEW forks \in SUBSET Ids, PulledStep(m, v, forks),
         Met("settings") => Met("settings")'
  PROVE  Coherent'
<1>1. Pulled(m, v, forks)
  BY PulledParts
<1>0. ASSUME NEW k \in Machines, k # m PROVE LocalAt(k)
  BY <1>0, <1>1, StillIsLocal DEF Pulled
<1>2. ASSUME NEW i \in Ids PROVE PulledAt(m, v, forks, i)
  BY DEF PulledStep
<1>3. ASSUME NEW i \in Ids PROVE SourcedAt(m, v, i)
  BY <1>2 DEF PulledAt, SourcedAt, HeldBy
<1>4. Moves(m, v)
  BY <1>1, <1>3 DEF Pulled, Moves, PulledStep
<1>5. Seals' /\ Shared'
  BY <1>4, MovesSeals, MovesShared DEF Coherent
<1>6. Stamps'
  BY <1>1 DEF Pulled, Stamps, Coherent
<1>7. /\ srv.seq \in Nat /\ state[m].seq \in Nat /\ state[m].highest \in Nat
      /\ disk[m].state.seq \in Nat /\ v.env \in EnvMap /\ srv \in Store
      /\ vault[m].env \in EnvMap /\ disk[m].state \in State
  BY MachineTypes, VaultParts
<1>8. Numbered(m)'
  <2>1. Numbered(m)
    BY DEF Coherent
  <2> QED BY <1>1, <1>7, <2>1 DEF Pulled, Numbered, Higher
<1>9. Stands(srv, v.env, state'[m])
  BY <1>1, <1>2 DEF Pulled, Stands, StandsAt, PulledAt
<1>10. Outgoing(srv, job'[m].push, srv.seq)
  <2> SUFFICES ASSUME NEW i \in Ids, job'[m].push[i] # None
               PROVE  /\ srv.recs[i] # job'[m].push[i]
                      /\ srv.recs[i] # None => Outranks(job'[m].push[i], srv.recs[i])
    BY DEF Outgoing, OutgoingAt
  <2>1. /\ job'[m].push[i] = v.env[i] /\ v.env[i] # None
        /\ srv.recs[i] # None => Outranks(v.env[i], srv.recs[i])
    BY <1>1, <1>2 DEF Pulled, PulledAt
  <2>2. srv.recs[i] # None => srv.recs[i].rev \in Nat
    BY <1>7, EnvelopeFacts DEF Store, EnvMap
  <2> QED BY <2>1, <2>2 DEF Outranks
<1>11. SentFrom(v.env, job'[m].push)
  BY <1>1 DEF Pulled, SentFrom
<1>12. InMemory(m)'
  BY <1>1, <1>9, <1>10, <1>11 DEF Pulled, InMemory
<1>13. ASSUME OnDisk(m) PROVE OnDisk(m)'
  <2>1. Stands(srv, v.env, disk[m].state)
    <3> SUFFICES ASSUME NEW i \in Ids PROVE StandsAt(srv, v.env, disk[m].state, i)
      BY DEF Stands
    <3> DEFINE l == vault[m].env[i]
               r == srv.recs[i]
               y == v.env[i]
               b == disk[m].state.synced[i]
    <3>1. StandsAt(srv, vault[m].env, disk[m].state, i)
      BY <1>13 DEF OnDisk, Stands
    <3>2. /\ l # None => y # None /\ (y = r \/ y.rev >= l.rev)
          /\ srv.stamp[i] <= state[m].seq /\ r # None => y = l
      BY <1>2 DEF PulledAt
    <3>3. /\ l # None => l.rev \in Nat
          /\ y # None => y.rev \in Nat
          /\ b # None => b \in Nat
          /\ srv.stamp[i] \in Nat
      BY <1>7, EnvelopeFacts DEF EnvMap, State, Store
    <3>4. Bounded(y, r, b)
      BY <3>1, <3>2, <3>3 DEF StandsAt, Bounded
    <3>5. disk[m].state.seq <= state[m].seq
      BY DEF Coherent, Numbered
    <3>6. ASSUME srv.stamp[i] <= disk[m].state.seq PROVE Level(y, r, b)
      <4>1. srv.stamp[i] <= state[m].seq
        BY <1>7, <3>3, <3>5, <3>6
      <4> QED BY <3>1, <3>2, <3>6, <4>1 DEF StandsAt, Level
    <3> QED BY <3>4, <3>6 DEF StandsAt
  <2> QED BY <1>1, <1>13, <2>1 DEF Pulled, OnDisk
<1>14. \A k \in Machines : Numbered(k)' /\ InMemory(k)' /\ (OnDisk(k) => OnDisk(k)')
  BY <1>0, <1>1, <1>8, <1>12, <1>13, LocalKeeps DEF Pulled, Coherent
<1> QED BY <1>5, <1>6, <1>14 DEF Coherent

-----------------------------------------------------------------------------
(***************************************************************************)
(* A push that lands, whether or not its author hears of it.               *)
(***************************************************************************)
LandedStep(m) ==
  /\ pc[m] \in Pushes /\ Answer(m) = 200
  /\ srv' = Applied(srv, job[m].push)
  /\ UNCHANGED <<vault, state, fresh>>
  /\ \/ /\ job' = [job EXCEPT ![m].seq = srv.seq + 1]
        /\ pc' = [pc EXCEPT ![m] = "verify"] /\ disk' = disk
     \/ /\ job' = [job EXCEPT ![m] = NoJob]
        /\ pc' = [pc EXCEPT ![m] = "idle"] /\ disk' = [disk EXCEPT ![m].vault = vault[m]]

(* What two machines are about to send of one record is never the same.    *)
LEMMA OutgoingDiffers ==
  ASSUME TypeOK, Coherent, NEW m \in Machines, NEW k \in Machines, m # k,
         pc[m] \in Pushes, Answer(m) = 200, NEW i \in Ids, job[m].push[i] # None
  PROVE  job[k].push[i] # job[m].push[i]
<1> SUFFICES ASSUME job[k].push[i] = job[m].push[i] PROVE FALSE
  OBVIOUS
<1> DEFINE e == job[m].push[i]
<1>1. e \in HeldBy(m, i) /\ e \in HeldBy(k, i)
  BY DEF HeldBy
<1>2. srv.recs[i] # None /\ (srv.recs[i] = e \/ srv.recs[i].rev > e.rev)
  BY <1>1 DEF Coherent, Shared
<1>3. srv.recs[i] # e
  BY DEF Coherent, InMemory, Outgoing, OutgoingAt
<1>4. e.rev > srv.recs[i].rev
  BY <1>2, NeverBackward DEF Newer
<1>5. e.rev \in Nat /\ srv.recs[i].rev \in Nat
  BY <1>2, MachineTypes, EnvelopeFacts DEF EnvMap, Store
<1> QED BY <1>2, <1>3, <1>4, <1>5

(* It disturbs nobody else.                                                *)
LEMMA LandedElsewhere ==
  ASSUME TypeOK, Coherent, NEW m \in Machines, LandedStep(m),
         NEW k \in Machines, k # m
  PROVE  Numbered(k)' /\ InMemory(k)' /\ (OnDisk(k) => OnDisk(k)')
<1> DEFINE s == Applied(srv, job[m].push)
<1>1. /\ vault'[k] = vault[k] /\ state'[k] = state[k] /\ job'[k] = job[k]
      /\ pc'[k] = pc[k] /\ disk'[k] = disk[k] /\ srv' = s
  BY DEF LandedStep, TypeOK
<1>2. /\ vault[k].env \in EnvMap /\ disk[k].vault.env \in EnvMap
      /\ state[k] \in State /\ disk[k].state \in State
      /\ job[k].push \in EnvMap /\ job[k].seq \in Nat
      /\ state[k].seq \in Nat /\ state[k].highest \in Nat
      /\ disk[k].state.seq \in Nat /\ disk[k].state.highest \in Nat
      /\ srv \in Store /\ srv.seq \in Nat /\ job[m].push \in EnvMap
  BY MachineTypes
<1>3. Newer(srv, job[m].push)
  BY NeverBackward DEF LandedStep
<1>4. s.seq = srv.seq + 1
  BY DEF Applied
<1>5. Numbered(k) /\ InMemory(k)
  BY DEF Coherent
<1>6. Numbered(k)'
  BY <1>1, <1>2, <1>4, <1>5 DEF Numbered
<1>7. /\ state[k].seq <= srv.seq /\ disk[k].state.seq <= srv.seq /\ job[k].seq <= srv.seq
  BY <1>2, <1>5 DEF Numbered
<1>8. Stands(s, vault[k].env, state[k])
  BY <1>2, <1>3, <1>5, <1>7, LandedStands DEF InMemory
<1>9. ASSUME pc[k] \in Pushes PROVE Outgoing(s, job[k].push, state[k].seq)
  <2>1. \A i \in Ids : job[m].push[i] # None => job[k].push[i] # job[m].push[i]
    BY OutgoingDiffers DEF LandedStep
  <2>2. Outgoing(srv, job[k].push, state[k].seq)
    BY <1>5, <1>9 DEF InMemory
  <2> QED BY <1>2, <1>7, <2>1, <2>2, LandedOutgoing
<1>10. ASSUME pc[k] = "verify" PROVE Accepted(s, job[k].push, job[k].seq, state[k].seq)
  <2>1. Accepted(srv, job[k].push, job[k].seq, state[k].seq)
    BY <1>5, <1>10 DEF InMemory
  <2> QED BY <1>2, <1>3, <1>7, <2>1, LandedAccepted
<1> HIDE DEF s
<1>11. InMemory(k)'
  BY <1>1, <1>5, <1>8, <1>9, <1>10 DEF InMemory
<1>12. ASSUME OnDisk(k) PROVE OnDisk(k)'
  <2>1. /\ Stands(s, vault[k].env, disk[k].state)
        /\ Stands(s, disk[k].vault.env, disk[k].state)
    BY <1>2, <1>3, <1>7, <1>12, LandedStands DEF OnDisk, s
  <2> QED BY <1>1, <1>12, <2>1 DEF OnDisk
<1> QED BY <1>6, <1>11, <1>12

LEMMA LandedCoherent ==
  ASSUME TypeOK, Coherent, NEW m \in Machines, LandedStep(m),
         Met("settings") => Met("settings")'
  PROVE  Coherent'
<1> DEFINE s == Applied(srv, job[m].push)
<1>1. /\ vault'[m] = vault[m] /\ state'[m] = state[m] /\ disk'[m].state = disk[m].state
      /\ srv' = s /\ vault[m] \in Vault
      /\ \/ /\ pc'[m] = "verify" /\ disk'[m] = disk[m]
            /\ job'[m].push = job[m].push /\ job'[m].seq = srv.seq + 1
         \/ pc'[m] = "idle" /\ disk'[m].vault = vault[m] /\ job'[m].seq = 0
  <2>1. /\ vault'[m] = vault[m] /\ state'[m] = state[m] /\ srv' = s /\ vault[m] \in Vault
        /\ disk'[m].state = disk[m].state
    BY MachineParts DEF LandedStep, TypeOK
  <2>2. CASE /\ job' = [job EXCEPT ![m].seq = srv.seq + 1]
             /\ pc' = [pc EXCEPT ![m] = "verify"] /\ disk' = disk
    BY <2>1, <2>2 DEF TypeOK, Job
  <2>3. CASE /\ job' = [job EXCEPT ![m] = NoJob]
             /\ pc' = [pc EXCEPT ![m] = "idle"]
             /\ disk' = [disk EXCEPT ![m].vault = vault[m]]
    BY <2>1, <2>3 DEF TypeOK, NoJob
  <2> QED BY <2>1, <2>2, <2>3 DEF LandedStep
<1>2. Newer(srv, job[m].push) /\ state[m].seq = srv.seq
  BY NeverBackward DEF LandedStep
<1>3. Moves(m, vault[m])
  <2>1. \A i \in Ids : SourcedAt(m, vault[m], i)
    BY DEF SourcedAt, HeldBy
  <2>2. vault' = [vault EXCEPT ![m] = vault[m]] /\ fresh' = fresh /\ fresh \in Nat
    BY DEF LandedStep, TypeOK
  <2>3. srv' = Applied(srv, job[m].push) /\ Newer(srv, job[m].push)
    BY <1>2 DEF LandedStep
  <2>4. disk' = disk \/ disk' = [disk EXCEPT ![m].vault = vault[m]]
    BY DEF LandedStep
  <2>5. job' = [job EXCEPT ![m] = NoJob] \/ job' = [job EXCEPT ![m].seq = srv.seq + 1]
    BY DEF LandedStep
  <2>6. fresh' \in Nat /\ fresh' >= fresh
    BY <2>2
  <2> QED BY ONLY <2>1, <2>2, <2>3, <2>4, <2>5, <2>6 DEF Moves
<1>4. Seals' /\ Shared'
  BY <1>1, <1>3, MovesSeals, MovesShared DEF Coherent
<1>5. /\ srv \in Store /\ srv.seq \in Nat /\ job[m].push \in EnvMap
      /\ vault[m].env \in EnvMap /\ disk[m].vault.env \in EnvMap
      /\ state[m] \in State /\ disk[m].state \in State /\ disk[m].state.seq \in Nat
      /\ state[m].highest \in Nat /\ disk[m].state.highest \in Nat
  BY MachineTypes
<1>6. /\ s.seq = srv.seq + 1
      /\ \A i \in Ids : s.stamp[i] = srv.seq + 1 \/ s.stamp[i] = srv.stamp[i]
  BY DEF Applied
<1>7. Numbered(m) /\ InMemory(m) /\ \A i \in Ids : srv.stamp[i] <= srv.seq
  BY DEF Coherent, Stamps
<1>8. Stands(s, vault[m].env, state[m])
  BY <1>2, <1>5, <1>7, LandedStands DEF InMemory, Numbered
<1>9. Accepted(s, job[m].push, srv.seq + 1, state[m].seq)
  BY <1>2, <1>5, <1>7, OwnAccepted
<1>10. SentFrom(vault[m].env, job[m].push)
  BY <1>7 DEF InMemory, LandedStep
<1>11. ASSUME OnDisk(m) PROVE OnDisk(m)'
  <2>1. /\ Stands(s, vault[m].env, disk[m].state)
        /\ Stands(s, disk[m].vault.env, disk[m].state)
    <3>1. disk[m].state.seq <= srv.seq
      BY <1>2, <1>7 DEF Numbered
    <3> QED BY <1>2, <1>5, <1>11, <3>1, LandedStands DEF OnDisk
  <2> HIDE DEF s
  <2> QED BY <1>1, <2>1 DEF OnDisk
<1> HIDE DEF s
<1>12. Stamps'
  <2> SUFFICES ASSUME NEW i \in Ids PROVE s.stamp[i] <= s.seq
    BY <1>1 DEF Stamps
  <2>1. srv.stamp[i] \in Nat
    BY <1>5 DEF Store
  <2> QED BY <1>5, <1>6, <1>7, <2>1
<1>13. Numbered(m)'
  BY <1>1, <1>2, <1>5, <1>6, <1>7 DEF Numbered
<1>14. InMemory(m)'
  BY <1>1, <1>8, <1>9, <1>10 DEF InMemory, Pushes
<1>15. ASSUME NEW k \in Machines
       PROVE  Numbered(k)' /\ InMemory(k)' /\ (OnDisk(k) => OnDisk(k)')
  BY <1>11, <1>13, <1>14, LandedElsewhere
<1> QED BY <1>4, <1>12, <1>15 DEF Coherent

-----------------------------------------------------------------------------
(***************************************************************************)
(* Confirming, saving, dying, and saving too early.                        *)
(***************************************************************************)
(* A push that is confirmed: the machine has read up to its own batch.     *)
LEMMA ConfirmedCoherent ==
  ASSUME TypeOK, TypeOK', Coherent, NEW m \in Machines, VerifyConfirmed(m),
         Met("settings") => Met("settings")'
  PROVE  Coherent'
<1>1. /\ UNCHANGED <<srv, vault, disk, fresh>> /\ pc[m] = "verify"
      /\ job' = [job EXCEPT ![m] = NoJob]
      /\ state'[m].seq = job[m].seq
      /\ state'[m].highest = Higher(state[m].highest, job[m].seq)
      /\ state'[m].synced = ConfirmPushed(state[m].synced, job[m].push)
      /\ pc'[m] = "saveVault" /\ job'[m].seq = 0
      /\ \A k \in Machines : k # m =>
           state'[k] = state[k] /\ job'[k] = job[k] /\ pc'[k] = pc[k]
  <2> DEFINE st == [seq |-> job[m].seq, highest |-> Higher(state[m].highest, job[m].seq),
                    synced |-> ConfirmPushed(state[m].synced, job[m].push)]
  <2>1. /\ UNCHANGED <<srv, vault, disk, fresh>> /\ pc[m] = "verify"
        /\ job' = [job EXCEPT ![m] = NoJob] /\ state' = [state EXCEPT ![m] = st]
        /\ pc' = [pc EXCEPT ![m] = "saveVault"]
    BY DEF VerifyConfirmed
  <2>2. /\ st.seq = job[m].seq /\ st.highest = Higher(state[m].highest, job[m].seq)
        /\ st.synced = ConfirmPushed(state[m].synced, job[m].push)
    OBVIOUS
  <2> HIDE DEF st
  <2>3. state'[m] = st /\ pc'[m] = "saveVault" /\ job'[m] = NoJob
    BY <2>1 DEF TypeOK
  <2>4. \A k \in Machines : k # m =>
           state'[k] = state[k] /\ job'[k] = job[k] /\ pc'[k] = pc[k]
    BY <2>1 DEF TypeOK
  <2> QED BY <2>1, <2>2, <2>3, <2>4 DEF NoJob
<1>2. vault[m] \in Vault /\ [vault EXCEPT ![m] = vault[m]] = vault /\ fresh \in Nat
  BY MachineParts DEF TypeOK
<1>3. Moves(m, vault[m])
  BY <1>1, <1>2 DEF Moves, SourcedAt, HeldBy
<1>4. Seals' /\ Shared' /\ Stamps'
  BY <1>1, <1>2, <1>3, MovesSeals, MovesShared DEF Coherent, Stamps
<1>5. Numbered(m) /\ InMemory(m)
  BY DEF Coherent
<1>6. /\ srv \in Store /\ state[m] \in State /\ state'[m] \in State
      /\ vault[m].env \in EnvMap /\ job[m].push \in EnvMap /\ job[m].seq \in Nat
      /\ state[m].seq \in Nat /\ state[m].highest \in Nat /\ srv.seq \in Nat
      /\ disk[m].state.seq \in Nat
  BY MachineTypes, MachineTypesNext
<1>7. /\ Accepted(srv, job[m].push, job[m].seq, state[m].seq)
      /\ SentFrom(vault[m].env, job[m].push) /\ Stands(srv, vault[m].env, state[m])
  BY <1>1, <1>5 DEF InMemory
<1>8. Stands(srv, vault[m].env, state'[m])
  BY <1>1, <1>6, <1>7, ConfirmedStands
<1>9. InMemory(m)'
  BY <1>1, <1>8 DEF InMemory, Pushes
<1>10. Numbered(m)'
  <2>1. state[m].seq <= job[m].seq
    BY <1>7 DEF Accepted
  <2> QED BY <1>1, <1>5, <1>6, <2>1 DEF Numbered, Higher
<1>11. OnDisk(m) => OnDisk(m)'
  BY <1>1 DEF OnDisk
<1>12. ASSUME NEW k \in Machines
       PROVE  Numbered(k)' /\ InMemory(k)' /\ (OnDisk(k) => OnDisk(k)')
  <2>1. Numbered(k) /\ InMemory(k)
    BY DEF Coherent
  <2>2. CASE k # m
    BY <1>1, <2>1, <2>2 DEF Numbered, InMemory, OnDisk
  <2> QED BY <1>9, <1>10, <1>11, <2>2
<1> QED BY <1>4, <1>12 DEF Coherent

(* The sync state reaches the disk, at the end of a sync or beside some    *)
(* other settings while one is under way.                                  *)
StateSaved(m) ==
  /\ disk' = [disk EXCEPT ![m].state = state[m]]
  /\ UNCHANGED <<srv, vault, state, fresh>>
  /\ \/ /\ pc[m] = "saveState" /\ pc' = [pc EXCEPT ![m] = "idle"]
        /\ job' = [job EXCEPT ![m] = NoJob]
     \/ Met("settings")' /\ pc' = pc /\ job' = job

LEMMA SavedCoherent ==
  ASSUME TypeOK, Coherent, NEW m \in Machines, StateSaved(m),
         Met("settings") => Met("settings")'
  PROVE  Coherent'
<1>1. /\ UNCHANGED <<srv, vault, state, fresh>>
      /\ disk'[m].state = state[m] /\ disk'[m].vault = disk[m].vault
      /\ \A k \in Machines : k # m =>
           disk'[k] = disk[k] /\ job'[k] = job[k] /\ pc'[k] = pc[k]
      /\ \/ pc[m] = "saveState" /\ pc'[m] = "idle" /\ job'[m].seq = 0
         \/ Met("settings")' /\ pc' = pc /\ job' = job
  BY DEF StateSaved, TypeOK, NoJob
<1>2. vault[m] \in Vault /\ [vault EXCEPT ![m] = vault[m]] = vault /\ fresh \in Nat
  BY MachineParts DEF TypeOK
<1>3. Moves(m, vault[m])
  BY <1>2 DEF Moves, SourcedAt, HeldBy, StateSaved
<1>4. Seals' /\ Shared' /\ Stamps'
  BY <1>1, <1>2, <1>3, MovesSeals, MovesShared DEF Coherent, Stamps
<1>5. Numbered(m) /\ InMemory(m)
  BY DEF Coherent
<1>6. /\ state[m].seq \in Nat /\ state[m].highest \in Nat /\ srv.seq \in Nat
      /\ job[m].seq \in Nat
  BY MachineTypes
<1>7. Numbered(m)'
  BY <1>1, <1>5, <1>6 DEF Numbered
<1>8. InMemory(m)'
  BY <1>1, <1>5 DEF InMemory, Pushes
<1>9. ASSUME OnDisk(m) PROVE OnDisk(m)' \/ Met("settings")'
  BY <1>1, <1>5, <1>9 DEF OnDisk, InMemory
<1>10. ASSUME NEW k \in Machines
       PROVE  Numbered(k)' /\ InMemory(k)' /\ (OnDisk(k) => OnDisk(k)' \/ Met("settings")')
  <2>1. Numbered(k) /\ InMemory(k)
    BY DEF Coherent
  <2>2. CASE k # m
    BY <1>1, <2>1, <2>2 DEF Numbered, InMemory, OnDisk
  <2> QED BY <1>7, <1>8, <1>9, <2>2
<1> QED BY <1>4, <1>10 DEF Coherent

(* A browser that dies is started from what the disk holds.                *)
LEMMA CrashCoherent ==
  ASSUME TypeOK, Coherent, NEW m \in Machines, Crash(m), ~Met("settings")
  PROVE  Coherent'
<1> DEFINE v == [disk[m].vault EXCEPT !.locked = TRUE]
<1>1. disk[m].vault \in Vault /\ fresh \in Nat
  BY MachineParts DEF TypeOK
<1>2. v \in Vault /\ v.env = disk[m].vault.env
  BY <1>1 DEF Vault
<1>3. /\ UNCHANGED <<srv, disk, fresh>> /\ vault' = [vault EXCEPT ![m] = v]
      /\ state' = [state EXCEPT ![m] = disk[m].state]
      /\ pc' = [pc EXCEPT ![m] = "idle"] /\ job' = [job EXCEPT ![m] = NoJob]
  BY DEF Crash
<1> HIDE DEF v
<1>4. /\ vault'[m] = v /\ state'[m] = disk[m].state /\ pc'[m] = "idle" /\ job'[m].seq = 0
      /\ \A k \in Machines : k # m =>
           /\ vault'[k] = vault[k] /\ state'[k] = state[k]
           /\ pc'[k] = pc[k] /\ job'[k] = job[k]
  BY <1>3 DEF TypeOK, NoJob
<1>5. Moves(m, v)
  BY <1>1, <1>2, <1>3 DEF Moves, SourcedAt, HeldBy
<1>6. Seals' /\ Shared' /\ Stamps'
  BY <1>2, <1>3, <1>5, MovesSeals, MovesShared DEF Coherent, Stamps
<1>7. Numbered(m) /\ OnDisk(m)
  BY DEF Coherent
<1>8. /\ disk[m].state.seq \in Nat /\ disk[m].state.highest \in Nat /\ srv.seq \in Nat
      /\ state[m].seq \in Nat
  BY MachineTypes
<1>9. Numbered(m)'
  BY <1>3, <1>4, <1>7, <1>8 DEF Numbered
<1>10. InMemory(m)'
  BY <1>2, <1>3, <1>4, <1>7 DEF InMemory, OnDisk, Pushes
<1>11. OnDisk(m)'
  BY <1>2, <1>3, <1>4, <1>7 DEF OnDisk
<1>12. ASSUME NEW k \in Machines
       PROVE  Numbered(k)' /\ InMemory(k)' /\ OnDisk(k)'
  <2>1. Numbered(k) /\ InMemory(k) /\ OnDisk(k)
    BY DEF Coherent
  <2>2. CASE k # m
    BY <1>3, <1>4, <2>1, <2>2 DEF Numbered, InMemory, OnDisk
  <2> QED BY <1>9, <1>10, <1>11, <2>2
<1> QED BY <1>6, <1>12 DEF Coherent

-----------------------------------------------------------------------------
(***************************************************************************)
(* The invariant.                                                          *)
(***************************************************************************)
(* What has happened has happened.                                         *)
LEMMA HappenedStays ==
  ASSUME TypeOK, [Next]_vars, NEW d
  PROVE  Met(d) => Met(d)'
<1>1. ASSUME NEW m \in Machines, UserStep(m) PROVE faults' = faults
  BY <1>1 DEF UserStep, Add, Edit, Touch, Delete, Operate
<1>2. ASSUME NEW m \in Machines, Pull(m) PROVE faults' = faults
  BY <1>2 DEF Pull, PullRefused, PullLockedConflict, PullLocked, PullUnlocked, AfterPull
<1>3. ASSUME NEW m \in Machines, SyncStep(m), ~Pull(m) PROVE faults' = faults
  BY <1>3 DEF SyncStep, PushAccepted, PushRetried, PushGivenUp, VerifyRefused,
     VerifyConfirmed, SaveVault, SaveState
<1>4. ASSUME NEW m \in Machines, Start(m) \/ Unlock(m) PROVE faults' = faults
  BY <1>4 DEF Start, Unlock
<1>5. ASSUME NEW e, Disturb(e) PROVE faults.of \subseteq faults'.of
  BY <1>5 DEF Disturb, Counting
<1>6. ASSUME NEW m \in Machines, Disturbance(m) PROVE faults.of \subseteq faults'.of
  BY <1>5, <1>6 DEF Disturbance, Lock, LoseRequest, LoseAck, Crash, SettingsWrite
<1>7. Restore => faults.of \subseteq faults'.of
  BY <1>5 DEF Restore
<1>8. CASE UNCHANGED vars
  BY <1>8 DEF vars, Met
<1> QED BY <1>1, <1>2, <1>3, <1>4, <1>6, <1>7, <1>8 DEF Next, Met

(* What a disturbance has met.                                             *)
LEMMA DisturbMet ==
  ASSUME NEW d, Disturb(d)
  PROVE  Met(d)'
BY DEF Disturb, Counting, Met

LEMMA InitCoherent == Init => Coherent
<1> SUFFICES ASSUME Init PROVE Coherent
  OBVIOUS
<1>1. /\ srv = FirstStore /\ fresh = 2
      /\ \A m \in Machines : /\ vault[m] = disk[m].vault /\ state[m] = disk[m].state
                             /\ disk[m] \in {Synced, Blank}
                             /\ pc[m] = "idle" /\ job[m] = NoJob
  BY DEF Init
<1>2. /\ srv.seq = 2
      /\ \A i \in Ids : /\ srv.recs[i] = IF i = 1 THEN FirstRecord ELSE None
                        /\ srv.stamp[i] = IF i = 1 THEN 2 ELSE 0
  BY <1>1 DEF FirstStore, FirstMap
<1>3. FirstRecord.rev = 1 /\ FirstRecord.seal = 1 /\ FirstRecord.deleted = FALSE
  BY DEF FirstRecord
<1>4. FirstRecord # None
  <2>1. FirstRecord \in Envelope(Nat, Nat)
    BY DEF FirstRecord, Envelope
  <2> QED BY <2>1, NoneAssumption
<1>5. ASSUME NEW m \in Machines
      PROVE  \/ /\ state[m].seq = 2 /\ state[m].highest = 2
                /\ \A i \in Ids : vault[m].env[i] = (IF i = 1 THEN FirstRecord ELSE None)
                                  /\ state[m].synced[i] = IF i = 1 THEN 1 ELSE None
             \/ /\ state[m].seq = 0 /\ state[m].highest = 0
                /\ \A i \in Ids : vault[m].env[i] = None /\ state[m].synced[i] = None
  BY <1>1 DEF Synced, Blank, NewVault, FirstMap, EmptyMap
<1>6. ASSUME NEW m \in Machines
      PROVE  job[m].seq = 0 /\ \A i \in Ids : job[m].push[i] = None
  BY <1>1 DEF NoJob, EmptyMap
<1>7. ASSUME NEW m \in Machines PROVE Stands(srv, vault[m].env, state[m])
  BY <1>2, <1>3, <1>4, <1>5, <1>7 DEF Stands, StandsAt, Bounded, Level
<1>8. ASSUME NEW m \in Machines PROVE Numbered(m) /\ InMemory(m) /\ OnDisk(m)
  <2>1. Numbered(m)
    BY <1>1, <1>2, <1>5, <1>6 DEF Numbered
  <2>2. InMemory(m) /\ OnDisk(m)
    BY <1>1, <1>7 DEF InMemory, OnDisk, Pushes
  <2> QED BY <2>1, <2>2
<1>9. ASSUME NEW i \in Ids, NEW e \in Held(i) PROVE e = FirstRecord /\ i = 1
  <2>1. CASE e = srv.recs[i] /\ e # None
    BY <1>2, <2>1
  <2>2. ASSUME NEW m \in Machines, e \in HeldBy(m, i) PROVE e = FirstRecord /\ i = 1
    BY <1>1, <1>5, <1>6, <2>2 DEF HeldBy
  <2> QED BY <2>1, <2>2 DEF Held
<1>10. Seals
  BY <1>1, <1>3, <1>9 DEF Seals
<1>11. Shared
  <2> SUFFICES ASSUME NEW m \in Machines, NEW i \in Ids, NEW e \in HeldBy(m, i)
               PROVE  srv.recs[i] # None /\ srv.recs[i] = e
    BY DEF Shared
  <2>1. e \in Held(i)
    BY DEF Held
  <2> QED BY <1>2, <1>4, <1>9, <2>1
<1>12. Stamps
  BY <1>2 DEF Stamps
<1> QED BY <1>8, <1>10, <1>11, <1>12 DEF Coherent

(* One step of one machine, unless it leaves it half saved.                *)
LEMMA MachineCoherent ==
  ASSUME TypeOK, TypeOK', Unminted, Coherent, [Next]_vars, ~HalfSaved',
         NEW m \in Machines,
         Start(m) \/ SyncStep(m) \/ UserStep(m) \/ Unlock(m) \/ Disturbance(m)
  PROVE  Coherent'
<1>1. Met("settings") => Met("settings")'
  BY HappenedStays
<1>2. (\E v \in Vault : LocalStep(m, v)) => Coherent'
  BY <1>1, LocalCoherent
<1>3. CASE Pull(m)
  BY <1>1, <1>2, <1>3, PullKinds, PulledCoherent
<1>4. CASE PushAccepted(m) \/ LoseAck(m)
  <2>1. ASSUME PushAccepted(m) PROVE LandedStep(m)
    BY <2>1 DEF PushAccepted, LandedStep
  <2>2. ASSUME LoseAck(m) PROVE LandedStep(m)
    <3>1. vault' = vault
      BY <2>2 DEF LoseAck, GiveUp, TypeOK
    <3> QED BY <2>2, <3>1 DEF LoseAck, LandedStep, GiveUp
  <2>3. LandedStep(m)
    BY <1>4, <2>1, <2>2
  <2> QED BY <1>1, <2>3, LandedCoherent
<1>5. CASE VerifyConfirmed(m)
  BY <1>1, <1>5, ConfirmedCoherent
<1>6. CASE SaveState(m) \/ SettingsWrite(m)
  <2>1. StateSaved(m)
    BY <1>6, DisturbMet DEF SaveState, SettingsWrite, StateSaved
  <2> QED BY <1>1, <2>1, SavedCoherent
<1>7. CASE Crash(m)
  <2>1. Met("crash")'
    BY <1>7, DisturbMet DEF Crash
  <2>2. ~Met("settings")
    BY <1>1, <2>1 DEF HalfSaved
  <2> QED BY <1>7, <2>2, CrashCoherent
<1>8. CASE \/ Start(m) \/ PushRetried(m) \/ PushGivenUp(m) \/ VerifyRefused(m)
           \/ SaveVault(m) \/ LoseRequest(m) \/ Lock(m)
  BY <1>2, <1>8, SyncLocal
<1>9. CASE UserStep(m)
  BY <1>2, <1>9, UserLocal
<1>10. CASE Unlock(m)
  BY <1>2, <1>10, UnlockLocal
<1> QED BY <1>3, <1>4, <1>5, <1>6, <1>7, <1>8, <1>9, <1>10 DEF SyncStep, Disturbance

LEMMA StepAgrees ==
  ASSUME TypeOK, TypeOK', Unminted, Agreement, [Next]_vars
  PROVE  Agreement'
<1>1. CASE Met("restore") \/ HalfSaved
  BY <1>1, HappenedStays DEF HalfSaved, Agreement
<1>2. CASE HalfSaved'
  BY <1>2 DEF Agreement
<1>3. CASE Coherent /\ ~HalfSaved'
  <2>1. ASSUME NEW m \in Machines,
               Start(m) \/ SyncStep(m) \/ UserStep(m) \/ Unlock(m) \/ Disturbance(m)
        PROVE  Coherent'
    BY <1>3, <2>1, MachineCoherent
  <2>2. CASE Restore
    BY <2>2, DisturbMet DEF Restore, Agreement
  <2>3. CASE UNCHANGED vars
    <3>1. Coherent'
      BY <1>3, <2>3 DEF vars, Coherent, Seals, Shared, Stamps, Numbered, InMemory, OnDisk,
         Held, HeldBy, Met
    <3> QED BY <3>1 DEF Agreement
  <2> QED BY <2>1, <2>2, <2>3 DEF Next, Agreement
<1> QED BY <1>1, <1>2, <1>3 DEF Agreement

(* What a machine remembers of the server can be relied on, whatever the   *)
(* interleaving of the machines' syncs, their users and the disturbances,  *)
(* until a server is put back or a machine wakes up half saved.            *)
THEOREM AgreementInvariant == Spec => [](TypeOK /\ Unminted /\ Agreement)
<1>1. Init => Agreement
  BY InitCoherent DEF Agreement
<1>2. TypeOK /\ TypeOK' /\ Unminted /\ Agreement /\ [Next]_vars => Agreement'
  BY StepAgrees
<1> QED BY <1>1, <1>2, UnmintedInvariant, PTL DEF Spec

(* No push carries an envelope the server already holds.                   *)
THEOREM QuietVaultPushesNothing == Spec => []NothingPushedTwice
<1>1. TypeOK /\ Agreement => NothingPushedTwice
  BY DEF Agreement, Coherent, InMemory, Outgoing, OutgoingAt, NothingPushedTwice
<1> QED BY <1>1, AgreementInvariant, PTL

(* What was accepted is served back.                                       *)
LEMMA AcceptedServed ==
  ASSUME TypeOK, Coherent, NEW m \in Machines, pc[m] = "verify"
  PROVE  srv.seq >= state[m].highest /\ ServedBack(m)
<1>1. srv.seq >= state[m].highest
  BY MachineTypes DEF Coherent, Numbered
<1>2. ServedBack(m)
  <2> SUFFICES ASSUME NEW i \in Ids, job[m].push[i] # None
               PROVE  LET b == Since(srv, job[m].seq - 1)[i]
                      IN  /\ b # None
                          /\ \/ b.rev > job[m].push[i].rev
                             \/ /\ b.rev = job[m].push[i].rev
                                /\ SameBytes(b, job[m].push[i])
    BY DEF ServedBack
  <2>1. AcceptedAt(srv, job[m].push, job[m].seq, state[m].seq, i)
    BY DEF Coherent, InMemory, Accepted
  <2>2. job[m].seq \in Nat /\ srv.stamp[i] \in Nat
    BY MachineTypes DEF Store
  <2>3. srv.recs[i] # None /\ srv.stamp[i] > job[m].seq - 1
    BY <2>1, <2>2 DEF AcceptedAt
  <2>4. Since(srv, job[m].seq - 1)[i] = srv.recs[i]
    BY <2>3 DEF Since
  <2> QED BY <2>1, <2>3, <2>4 DEF AcceptedAt, SameBytes
<1> QED BY <1>1, <1>2

(* An honest server is never refused: not for the sequence it answers with,*)
(* not for a revision it serves, not for a push it has taken; and it never *)
(* has a reason to refuse a batch for going backwards.                     *)
THEOREM HonestServerIsTrusted == Spec => []NoSpuriousRefusal
<1>1. TypeOK /\ Agreement => NoSpuriousRefusal
  <2> SUFFICES ASSUME TypeOK, Coherent, NEW m \in Machines
               PROVE  /\ pc[m] \in Pulls => ~GoneBackwards(m, Merged(m))
                      /\ pc[m] = "verify" => srv.seq >= state[m].highest /\ ServedBack(m)
                      /\ pc[m] = "push422" => Answer(m) # 422
    BY DEF Agreement, NoSpuriousRefusal
  <2>1. pc[m] # "push422"
    BY DEF Coherent, InMemory
  <2> QED BY <2>1, AcceptedServed, PullNeverBackwards
<1> QED BY <1>1, AgreementInvariant, PTL

(* The ancestor map never claims an agreement that does not exist.         *)
THEOREM AncestorNeverLies == Spec => []NoFalseAgreement
<1>1. TypeOK /\ Agreement => NoFalseAgreement
  <2> SUFFICES ASSUME TypeOK, Coherent, NEW m \in Machines, NEW i \in Ids,
                      vault[m].env[i] # None,
                      state[m].synced[i] = vault[m].env[i].rev,
                      ~(srv.stamp[i] > state[m].seq)
               PROVE  srv.recs[i] = vault[m].env[i]
    BY DEF Agreement, NoFalseAgreement
  <2>1. StandsAt(srv, vault[m].env, state[m], i)
    BY DEF Coherent, InMemory, Stands
  <2>2. /\ vault[m].env[i] \in Envelopes /\ srv.recs[i] \in Maybe
        /\ srv.stamp[i] \in Nat /\ state[m].seq \in Nat
    BY MachineTypes DEF EnvMap, Store, Maybe
  <2>3. vault[m].env[i].rev \in Nat /\ None \notin Nat
    BY <2>2, EnvelopeFacts, NoneAssumption
  <2>4. srv.recs[i] # None /\ vault[m].env[i].rev <= srv.recs[i].rev
    BY <2>1, <2>3 DEF StandsAt, Bounded
  <2>5. Level(vault[m].env[i], srv.recs[i], state[m].synced[i])
    BY <2>1, <2>2 DEF StandsAt
  <2>6. srv.recs[i].rev \in Nat
    BY <2>2, <2>4, EnvelopeFacts DEF Maybe
  <2> QED BY <2>3, <2>4, <2>5, <2>6 DEF Level, Outranks
<1> QED BY <1>1, AgreementInvariant, PTL

-----------------------------------------------------------------------------
(***************************************************************************)
(* Agreement lasts, under every disturbance: Coherent is not needed.  What *)
(* could end it is an accepted batch that differs from the list it came    *)
(* from.  While a machine is sending a record, either its list still has   *)
(* what it sends, or what it has by now was sealed there and is nowhere    *)
(* else, so that the server cannot be agreeing with it.                    *)
(***************************************************************************)
Elsewhere(m, i) ==
  {srv.recs[i], FirstMap[i], job[m].push[i]} \cup UNION {HeldBy(k, i) : k \in Machines \ {m}}
SentOrOwn(m, i) ==
  pc[m] \in Pushes /\ job[m].push[i] # None =>
    /\ vault[m].env[i] # None
    /\ vault[m].env[i] = job[m].push[i] \/ vault[m].env[i] \notin Elsewhere(m, i)
(* A seal not yet drawn is nowhere, the server's old copy included.        *)
Drawn(i) == \A e \in Held(i) \cup ({FirstMap[i]} \ {None}) : e.seal < fresh
InTransit == \A i \in Ids : Drawn(i) /\ \A m \in Machines : SentOrOwn(m, i)

(* What a step of k does to what it shows and to what it sends.            *)
JustSealed(k, i) ==
  vault'[k].env[i] # None /\ vault'[k].env[i].seal = fresh /\ fresh' > fresh
Comes(k, i) ==
  \/ vault'[k].env[i] \in {vault[k].env[i], srv.recs[i], disk[k].vault.env[i]}
  \/ JustSealed(k, i)
Sends(k) ==
  /\ fresh' \in Nat /\ fresh' >= fresh
  /\ \A i \in Ids : Comes(k, i)
  /\ \A j \in Machines : j # k => pc'[j] = pc[j]
  /\ \/ pc'[k] \notin Pushes
     \/ /\ pc'[k] = pc[k] /\ job' = job /\ srv' = srv
        /\ \A i \in Ids : vault'[k].env[i] = vault[k].env[i] \/ JustSealed(k, i)
     \/ \A i \in Ids : job'[k].push[i] \in {None, vault'[k].env[i]}

LEMMA SendsKeep ==
  ASSUME TypeOK, InTransit, NEW k \in Machines, NEW v \in Vault, MovesOnly(k, v), Sends(k)
  PROVE  InTransit'
<1> SUFFICES ASSUME NEW i \in Ids PROVE Drawn(i)' /\ \A m \in Machines : SentOrOwn(m, i)'
  BY DEF InTransit
<1> DEFINE new == vault'[k].env[i]
<1>1. /\ vault'[k] = v /\ fresh \in Nat /\ fresh' \in Nat /\ fresh' >= fresh
      /\ \A j \in Machines : j # k => vault'[j] = vault[j] /\ job'[j] = job[j] /\ pc'[j] = pc[j]
  <2>1. \A j \in Machines : j # k => job'[j] = job[j]
    BY DEF MovesOnly, TypeOK
  <2> QED BY <2>1 DEF MovesOnly, Sends, TypeOK
<1>2. /\ HeldBy(k, i)' \subseteq HeldBy(k, i) \cup ({new} \ {None})
      /\ \A j \in Machines : j # k => HeldBy(j, i)' = HeldBy(j, i)
      /\ srv'.recs[i] \in {srv.recs[i], job[k].push[i]}
  BY <1>1, MovesOnlyHold
<1>3. /\ \A e \in Held(i) : e # None /\ e.seal < fresh /\ e.seal \in Nat
      /\ FirstMap[i] # None => FirstMap[i].seal < fresh /\ FirstMap[i].seal \in Nat
  <2>1. \A e \in Held(i) : e \in Envelopes
    BY DEF Held, HeldBy, TypeOK, Store, Vault, EnvMap, Job
  <2>2. FirstMap[i] # None => FirstMap[i] \in Envelopes
    BY FirstStoreType DEF EnvMap
  <2> QED BY <2>1, <2>2, EnvelopeFacts DEF InTransit, Drawn
<1>4. new = None \/ new \in Held(i) \/ JustSealed(k, i)
  BY DEF Sends, Comes, Held, HeldBy
<1>5. Held(i)' \subseteq Held(i) \cup ({new} \ {None})
  <2>1. HeldBy(k, i) \subseteq Held(i) /\ job[k].push[i] \in Held(i) \cup {None}
    BY DEF Held, HeldBy
  <2>2. ASSUME NEW z \in Held(i)' PROVE z \in Held(i) \cup ({new} \ {None})
    <3>1. CASE z = srv'.recs[i] /\ z # None
      BY <1>2, <2>1, <3>1 DEF Held
    <3>2. ASSUME NEW j \in Machines, z \in HeldBy(j, i)'
          PROVE  z \in Held(i) \cup ({new} \ {None})
      BY <1>2, <2>1, <3>2 DEF Held
    <3> QED BY <3>1, <3>2 DEF Held
  <2> QED BY <2>2
<1>6. Drawn(i)'
  <2> SUFFICES ASSUME NEW e \in Held(i)' \cup ({FirstMap[i]} \ {None})
               PROVE  e.seal < fresh'
    BY DEF Drawn, FirstMap
  <2> QED BY <1>1, <1>3, <1>4, <1>5 DEF JustSealed
<1>7. ASSUME NEW m \in Machines, m # k PROVE SentOrOwn(m, i)'
  <2> SUFFICES ASSUME pc[m] \in Pushes, job[m].push[i] # None,
                      vault[m].env[i] # job[m].push[i]
               PROVE  vault[m].env[i] # None /\ vault[m].env[i] \notin Elsewhere(m, i)'
    BY <1>1, <1>7 DEF SentOrOwn, InTransit, Pushes
  <2> DEFINE e == vault[m].env[i]
  <2>1. e # None /\ e \notin Elsewhere(m, i) /\ e \in Held(i)
    BY DEF InTransit, SentOrOwn, Held, HeldBy
  <2>2. HeldBy(k, i) \subseteq Elsewhere(m, i)
    BY <1>7 DEF Elsewhere
  <2>3. e # new
    <3>1. ~JustSealed(k, i) \/ e # new
      BY <1>1, <1>3, <2>1 DEF JustSealed
    <3>2. e \notin {vault[k].env[i], srv.recs[i], disk[k].vault.env[i]}
      BY <2>1, <2>2 DEF Elsewhere, HeldBy
    <3> QED BY <3>1, <3>2 DEF Sends, Comes
  <2>4. e # srv'.recs[i] /\ e # job[m].push[i] /\ e # FirstMap[i]
    BY <1>2, <2>1, <2>2 DEF Elsewhere, HeldBy
  <2>5. ASSUME NEW j \in Machines \ {m} PROVE e \notin HeldBy(j, i)'
    <3>1. e \notin HeldBy(j, i)
      BY <2>1 DEF Elsewhere
    <3> QED BY <1>2, <2>2, <2>3, <3>1
  <2> QED BY <1>1, <1>7, <2>1, <2>4, <2>5 DEF Elsewhere, FirstMap
<1>8. SentOrOwn(k, i)'
  <2> SUFFICES ASSUME pc'[k] \in Pushes, job'[k].push[i] # None
               PROVE  new # None /\ (new = job'[k].push[i] \/ new \notin Elsewhere(k, i)')
    BY DEF SentOrOwn, Pushes
  <2>1. CASE job'[k].push[i] \in {None, new}
    BY <2>1
  <2>2. CASE /\ pc'[k] = pc[k] /\ job' = job /\ srv' = srv
             /\ new = vault[k].env[i] \/ JustSealed(k, i)
    <3>1. Elsewhere(k, i)' = Elsewhere(k, i)
      <4>1. \A j \in Machines \ {k} : HeldBy(j, i)' = HeldBy(j, i)
        BY <1>2
      <4> QED BY <2>2, <4>1 DEF Elsewhere, FirstMap
    <3>2. CASE new = vault[k].env[i]
      BY <2>2, <3>1, <3>2 DEF InTransit, SentOrOwn
    <3>3. CASE JustSealed(k, i)
      <4>1. \A e \in Elsewhere(k, i) : e = None \/ e \in Held(i) \/ e = FirstMap[i]
        BY DEF Elsewhere, Held, HeldBy
      <4> QED BY <1>1, <1>3, <3>1, <3>3, <4>1 DEF JustSealed
    <3> QED BY <2>2, <3>2, <3>3
  <2> QED BY <2>1, <2>2 DEF Sends
<1> QED BY <1>6, <1>7, <1>8

(* What a merge keeps is one of the two sides.                             *)
LEMMA MergeKeepsOne ==
  ASSUME NEW l \in Maybe, NEW a \in Maybe, NEW b \in Base
  PROVE  Adopt(l, MergeOne(l, a, b).env) \in {l, a}
<1>1. ASSUME l # None, a # None PROVE Diverged(l, a, b).env \in {l, a}
  BY <1>1 DEF Diverged, Outcome
<1>2. ASSUME l # None, a # None PROVE BothPresent(l, a, b).env \in {l, a}
  BY <1>1, <1>2 DEF BothPresent, Outcome
<1>3. CASE l = None
  BY <1>3 DEF MergeOne, Outcome, Adopt
<1>4. CASE l # None /\ a = None
  BY <1>4 DEF MergeOne, Agreed, OnlyLocal, Outcome, Adopt
<1>5. CASE l # None /\ a # None
  BY <1>2, <1>5 DEF MergeOne, Adopt
<1> QED BY <1>3, <1>4, <1>5

(* So what a pull leaves at an id is what was there, the server's, or new. *)
LEMMA PulledSends ==
  ASSUME TypeOK, Unminted, NEW k \in Machines, NEW v \in Vault, NEW forks \in SUBSET Ids,
         pc[k] \in Pulls, AfterPull(k, v, Merged(k), forks),
         fresh' \in Nat, fresh' >= fresh,
         \A i \in Ids : \/ v.env[i] \in {vault[k].env[i], srv.recs[i]}
                        \/ v.env[i] # None /\ v.env[i].seal = fresh /\ fresh' > fresh
  PROVE  Sends(k)
<1> DEFINE up == {i \in Ids : Merged(k)[i].push} \cup forks
           push == [i \in Ids |-> IF i \in up THEN v.env[i] ELSE None]
<1>1. job' = [job EXCEPT ![k] = [push |-> push, seq |-> 0]] /\ vault' = [vault EXCEPT ![k] = v]
  BY DEF AfterPull
<1> HIDE DEF up
<1>2. job'[k].push = push /\ vault'[k] = v
  BY <1>1 DEF TypeOK
<1>3. \A i \in Ids : job'[k].push[i] \in {None, vault'[k].env[i]}
  BY <1>2
<1>4. \A j \in Machines : j # k => pc'[j] = pc[j]
  BY DEF AfterPull, TypeOK
<1> QED BY <1>2, <1>3, <1>4 DEF Sends, Comes, JustSealed

LEMMA PullSends ==
  ASSUME TypeOK, Unminted, NEW k \in Machines,
         pc[k] \in Pulls, PullLocked(k, Merged(k)) \/ PullUnlocked(k, Merged(k))
  PROVE  Sends(k)
<1> DEFINE X(i) == Adopt(vault[k].env[i], Merged(k)[i].env)
<1>1. vault[k] \in Vault /\ AllOutcomes(Merged(k)) /\ fresh \in Nat /\ minted \in Nat
  BY MachineParts, MergedType DEF TypeOK
<1>2. ASSUME NEW i \in Ids PROVE X(i) \in {vault[k].env[i], srv.recs[i]}
  <2>1. /\ vault[k].env[i] \in Maybe /\ Asked(k)[i] \in Maybe
        /\ state[k].synced[i] \in Base
    BY MachineParts, AskedType, VaultParts DEF EnvMap, Maybe, Base, State
  <2>2. Merged(k)[i] = MergeOne(vault[k].env[i], Asked(k)[i], state[k].synced[i])
    BY MergedType
  <2>3. X(i) \in {vault[k].env[i], Asked(k)[i]}
    BY <2>1, <2>2, MergeKeepsOne
  <2>4. Asked(k)[i] \in {None, srv.recs[i]}
    BY DEF Asked, Since
  <2>5. Asked(k)[i] = None /\ X(i) = None => vault[k].env[i] = None
    BY <2>2 DEF MergeOne, Outcome, Adopt, Agreed, OnlyLocal
  <2> QED BY <2>3, <2>4, <2>5
<1>3. CASE PullLocked(k, Merged(k))
  <2> DEFINE v == Applying(vault[k], Merged(k))
  <2>1. v \in Vault /\ \A i \in Ids : v.env[i] = X(i)
    BY <1>1, ApplyingType
  <2>2. AfterPull(k, v, Merged(k), {}) /\ fresh' = fresh
    BY <1>3 DEF PullLocked
  <2> HIDE DEF v, X
  <2>3. \A i \in Ids : v.env[i] \in {vault[k].env[i], srv.recs[i]}
    BY <1>2, <2>1
  <2> QED BY <1>1, <2>1, <2>2, <2>3, PulledSends
<1>4. CASE PullUnlocked(k, Merged(k))
  <2> DEFINE w == Kept(k, Merged(k))
             Took(n, name) == /\ AfterPull(k, Resolved(w, name), Merged(k), FreshIds(n))
                              /\ minted' = minted + n
  <2>1. PICK n \in 0 .. MaxIds - minted :
          \E name \in Bijection(FreshIds(n), Forkable(w)) : Took(n, name)
    BY <1>4 DEF PullUnlocked
  <2>2. PICK name \in Bijection(FreshIds(n), Forkable(w)) : Took(n, name)
    BY <2>1
  <2> DEFINE v == Resolved(w, name)
  <2>3. fresh' = IF minted' # minted \/ (\E i \in Contested(Merged(k)) : Merged(k)[i].push)
                 THEN fresh + 1 ELSE fresh
    BY <1>4 DEF PullUnlocked
  <2>4. w \in Vault /\ Unwritten(w.env)
    BY KeptType, MergedAt DEF Unwritten
  <2>5. v \in Vault /\ FreshIds(n) \in SUBSET Ids
    BY <2>4, ResolvedType
  <2>6. ASSUME NEW i \in Ids
        PROVE  \/ v.env[i] \in {vault[k].env[i], srv.recs[i]}
               \/ v.env[i] # None /\ v.env[i].seal = fresh /\ fresh' > fresh
    <3>1. CASE i \in FreshIds(n)
      <4>1. v.env[i] \in Envelopes /\ v.env[i].seal = fresh
        BY <2>4, <3>1, ResolvedEdits
      <4>2. minted' # minted
        BY <1>1, <2>2, <3>1 DEF FreshIds
      <4> QED BY <1>1, <2>3, <4>1, <4>2, EnvelopeFacts
    <3>2. CASE i \notin FreshIds(n)
      <4>1. v.env[i] = w.env[i]
        BY <2>4, <3>2, ResolvedEdits
      <4>2. CASE Merged(k)[i].parked # None /\ Merged(k)[i].push
        <5>1. w.env[i] = Sealed(Higher(X(i).rev, Asked(k)[i].rev) + 1, X(i).body, X(i).deleted)
          BY <4>2, KeptAt
        <5>2. w.env[i].seal = fresh
          BY <5>1 DEF Sealed
        <5>3. w.env[i] # None
          <6>1. i \in Contested(Merged(k))
            BY <4>2 DEF Contested
          <6>2. X(i) # None
            <7>1. vault[k].env[i] # None /\ Asked(k)[i] # None
              BY <6>1, MergedType
            <7> QED BY <1>2, <7>1 DEF Asked, Since
          <6> QED BY <6>2, KeptType, EnvelopeFacts
        <5>4. fresh' > fresh
          BY <1>1, <2>3, <4>2 DEF Contested
        <5> QED BY <4>1, <5>2, <5>3, <5>4
      <4>3. CASE ~(Merged(k)[i].parked # None /\ Merged(k)[i].push)
        <5>1. w.env[i] = X(i)
          BY <4>3, KeptAt
        <5> QED BY <1>2, <4>1, <5>1
      <4> QED BY <4>2, <4>3
    <3> QED BY <3>1, <3>2
  <2>7. AfterPull(k, v, Merged(k), FreshIds(n))
    BY <2>2
  <2>8. fresh' \in Nat /\ fresh' >= fresh
    BY <1>1, <2>3
  <2> HIDE DEF v, w, X
  <2> QED BY <2>5, <2>6, <2>7, <2>8, PulledSends
<1> QED BY <1>3, <1>4

(* A step that leaves the list alone, and either goes on sending what it   *)
(* was sending or sends nothing.                                           *)
LEMMA StillSends ==
  ASSUME TypeOK, NEW k \in Machines, fresh' = fresh,
         vault'[k].env = vault[k].env,
         \/ pc' = pc /\ job' = job /\ srv' = srv
         \/ \E w \in PCs \ Pushes : pc' = [pc EXCEPT ![k] = w]
  PROVE  Sends(k)
<1>1. fresh \in Nat
  BY DEF TypeOK
<1>2. \A i \in Ids : vault'[k].env[i] = vault[k].env[i]
  OBVIOUS
<1>3. \A j \in Machines : j # k => pc'[j] = pc[j]
  BY DEF TypeOK
<1>4. pc'[k] \notin Pushes \/ (pc'[k] = pc[k] /\ job' = job /\ srv' = srv)
  BY DEF TypeOK
<1> QED BY <1>1, <1>2, <1>3, <1>4 DEF Sends, Comes

LEMMA StepSends ==
  ASSUME TypeOK, Unminted, NEW k \in Machines,
         Start(k) \/ SyncStep(k) \/ UserStep(k) \/ Unlock(k) \/ Disturbance(k)
  PROVE  Sends(k)
<1>1. {"idle", "verify", "saveVault", "saveState"} \cup Pulls \subseteq PCs \ Pushes
  BY DEF PCs, Pulls, Pushes
<1>2. ASSUME NEW v, v.env = vault[k].env, GiveUp(k, v) PROVE Sends(k)
  <2>1. vault'[k].env = vault[k].env /\ fresh' = fresh /\ pc' = [pc EXCEPT ![k] = "idle"]
    BY <1>2 DEF GiveUp, TypeOK
  <2> QED BY <1>1, <2>1, StillSends
<1>3. CASE UserStep(k) \/ Unlock(k)
  <2>1. PICK v \in Vault : LocalStep(k, v)
    BY <1>3, UserLocal, UnlockLocal
  <2>2. vault'[k] = v /\ fresh \in Nat /\ srv' = srv
    BY <2>1 DEF LocalStep, TypeOK
  <2>3. fresh' \in Nat /\ fresh' >= fresh
    BY <2>1, <2>2 DEF LocalStep
  <2>4. \A i \in Ids : v.env[i] = vault[k].env[i] \/ JustSealed(k, i)
    BY <2>1, <2>2 DEF LocalStep, JustSealed, Edited, EditedAt
  <2>5. /\ \A j \in Machines : j # k => pc'[j] = pc[j]
        /\ pc'[k] \notin Pushes \/ (pc'[k] = pc[k] /\ job' = job)
    BY <2>1 DEF LocalStep, TypeOK, Pushes
  <2> QED BY <2>2, <2>3, <2>4, <2>5 DEF Sends, Comes
<1>4. CASE Pull(k)
  <2>1. /\ pc[k] \in Pulls
        /\ \/ PullRefused(k, Merged(k)) \/ PullLockedConflict(k, Merged(k))
           \/ PullLocked(k, Merged(k)) \/ PullUnlocked(k, Merged(k))
    BY <1>4 DEF Pull
  <2>2. vault[k] \in Vault /\ AllOutcomes(Merged(k))
    BY MachineParts, MergedType
  <2>3. CASE PullRefused(k, Merged(k))
    BY <1>2, <2>3 DEF PullRefused
  <2>4. CASE PullLockedConflict(k, Merged(k))
    BY <1>2, <2>2, <2>4, LosersType, ParkType DEF PullLockedConflict
  <2> QED BY <2>1, <2>3, <2>4, PullSends
<1>5. CASE Start(k) \/ PushAccepted(k) \/ VerifyConfirmed(k) \/ SaveVault(k) \/ SaveState(k)
  <2>1. vault' = vault /\ fresh' = fresh
    BY <1>5 DEF Start, PushAccepted, VerifyConfirmed, SaveVault, SaveState
  <2>2. \E w \in {"idle", "pull", "verify", "saveVault", "saveState"} :
          pc' = [pc EXCEPT ![k] = w]
    BY <1>5 DEF Start, PushAccepted, VerifyConfirmed, SaveVault, SaveState
  <2> QED BY <1>1, <2>1, <2>2, StillSends DEF Pulls
<1>6. CASE PushRetried(k)
  <2>1. vault' = vault /\ fresh' = fresh
    BY <1>6 DEF PushRetried
  <2>2. \E w \in Pulls : pc' = [pc EXCEPT ![k] = w]
    BY <1>6 DEF PushRetried, Pulls
  <2> QED BY <1>1, <2>1, <2>2, StillSends
<1>7. CASE PushGivenUp(k) \/ VerifyRefused(k) \/ LoseRequest(k) \/ LoseAck(k)
  BY <1>2, <1>7 DEF PushGivenUp, VerifyRefused, LoseRequest, LoseAck
<1>8. CASE Lock(k) \/ SettingsWrite(k)
  <2>1. pc' = pc /\ job' = job /\ srv' = srv /\ fresh' = fresh
    BY <1>8 DEF Lock, SettingsWrite
  <2>2. vault'[k].env = vault[k].env
    BY <1>8, MachineParts DEF Lock, SettingsWrite, TypeOK, Vault
  <2> QED BY <2>1, <2>2, StillSends
<1>9. CASE Crash(k)
  <2>1. /\ vault' = [vault EXCEPT ![k] = [disk[k].vault EXCEPT !.locked = TRUE]]
        /\ pc' = [pc EXCEPT ![k] = "idle"] /\ fresh' = fresh
    BY <1>9 DEF Crash
  <2>2. vault'[k].env = disk[k].vault.env
    BY <2>1, MachineParts DEF TypeOK, Vault
  <2>3. pc'[k] \notin Pushes /\ \A j \in Machines : j # k => pc'[j] = pc[j]
    BY <1>1, <2>1 DEF TypeOK
  <2>4. fresh \in Nat
    BY DEF TypeOK
  <2> QED BY <2>1, <2>2, <2>3, <2>4 DEF Sends, Comes
<1> QED BY <1>3, <1>4, <1>5, <1>6, <1>7, <1>8, <1>9 DEF SyncStep, Disturbance

(* Whoever is sending a record still shows it, or shows what is its alone; *)
(* under every disturbance.                                                *)
THEOREM InTransitInvariant == Spec => [](TypeOK /\ Unminted /\ InTransit)
<1>1. Init => InTransit
  <2> SUFFICES ASSUME Init, NEW i \in Ids PROVE Drawn(i) /\ \A m \in Machines : SentOrOwn(m, i)
    BY DEF InTransit
  <2>1. \A m \in Machines : SentOrOwn(m, i)
    BY DEF Init, SentOrOwn, Pushes
  <2>2. FirstMap[i] \in {None, FirstRecord} /\ EmptyMap[i] = None
    BY DEF FirstMap, EmptyMap
  <2>3. ASSUME NEW m \in Machines PROVE HeldBy(m, i) \subseteq {FirstRecord}
    <3>1. disk[m] \in {Synced, Blank} /\ vault[m] = disk[m].vault /\ job[m] = NoJob
      BY DEF Init
    <3>2. disk[m].vault.env \in {FirstMap, EmptyMap} /\ job[m].push = EmptyMap
      BY <3>1 DEF Synced, Blank, NewVault, NoJob
    <3> QED BY <2>2, <3>1, <3>2 DEF HeldBy
  <2>4. srv.recs = FirstMap /\ fresh = 2
    BY DEF Init, FirstStore
  <2>5. \A e \in Held(i) \cup ({FirstMap[i]} \ {None}) : e = FirstRecord
    BY <2>2, <2>3, <2>4 DEF Held
  <2>6. Drawn(i)
    BY <2>4, <2>5 DEF Drawn, FirstRecord
  <2> QED BY <2>1, <2>6
<1>2. TypeOK /\ Unminted /\ InTransit /\ [Next]_vars => InTransit'
  <2> SUFFICES ASSUME TypeOK, Unminted, InTransit, [Next]_vars PROVE InTransit'
    OBVIOUS
  <2>1. ASSUME NEW k \in Machines,
               Start(k) \/ SyncStep(k) \/ UserStep(k) \/ Unlock(k) \/ Disturbance(k)
        PROVE  InTransit'
    <3>1. \E v \in Vault : MovesOnly(k, v)
      BY <2>1, SyncTidy, UserTidy, DisturbanceTidy DEF Tidy, MovesOnly
    <3> QED BY <2>1, <3>1, StepSends, SendsKeep
  <2>2. CASE Restore
    <3>1. srv'.recs = FirstMap /\ UNCHANGED <<vault, disk, pc, job, fresh>>
      BY <2>2 DEF Restore, FirstStore
    <3> SUFFICES ASSUME NEW i \in Ids
                 PROVE  Drawn(i)' /\ \A m \in Machines : SentOrOwn(m, i)'
      BY DEF InTransit
    <3>2. Drawn(i)'
      BY <3>1 DEF InTransit, Drawn, Held, HeldBy, FirstMap
    <3>3. \A m \in Machines : Elsewhere(m, i)' \subseteq Elsewhere(m, i)
      BY <3>1 DEF Elsewhere, HeldBy, FirstMap
    <3>4. \A m \in Machines : SentOrOwn(m, i)'
      BY <3>1, <3>3 DEF InTransit, SentOrOwn, Pushes
    <3> QED BY <3>2, <3>4
  <2>3. CASE UNCHANGED vars
    BY <2>3 DEF vars, InTransit, Drawn, SentOrOwn, Elsewhere, Held, HeldBy, FirstMap, Pushes
  <2> QED BY <2>1, <2>2, <2>3 DEF Next
<1> QED BY <1>1, <1>2, UnmintedInvariant, PTL DEF Spec

(* Each record's merge keeps it and parks nothing.                         *)
LEMMA SettledMerge ==
  ASSUME TypeOK, Converged, NEW m \in Machines, NEW i \in Ids
  PROVE  /\ Merged(m)[i].parked = None
         /\ Adopt(vault[m].env[i], Merged(m)[i].env) = vault[m].env[i]
<1> DEFINE l == vault[m].env[i]
           a == Asked(m)[i]
           b == state[m].synced[i]
           o == Merged(m)[i]
<1>1. l \in Maybe /\ l = srv.recs[i] /\ a \in {None, l}
  BY MachineTypes DEF Converged, EnvMap, Maybe, Asked, Since
<1>2. o = MergeOne(l, a, b)
  BY MergedType
<1>3. CASE a = None
  BY <1>2, <1>3 DEF MergeOne, Agreed, OnlyLocal, Outcome, Adopt
<1>4. CASE a = l /\ l # None
  <2>1. l.rev \in Nat
    BY <1>1, <1>4, EnvelopeFacts DEF Maybe
  <2>2. /\ Agreed(l, l, b) /\ ~RolledBack(l, l, b) /\ ~RemoteAhead(l, l, b)
        /\ ~LocalAhead(l, l, b)
    BY <1>4, <2>1 DEF Agreed, SameBytes, RolledBack, RemoteAhead, LocalAhead
  <2>3. o = BothPresent(l, l, b)
    BY <1>2, <1>4 DEF MergeOne
  <2> HIDE DEF o, l, b
  <2>4. o = Outcome(l, l.rev, None, FALSE, FALSE)
    BY <2>2, <2>3 DEF BothPresent
  <2>5. o.parked = None /\ o.env = l
    BY <2>4 DEF Outcome
  <2>6. Adopt(l, o.env) = l
    BY <2>5 DEF Adopt
  <2> QED BY <2>5, <2>6 DEF o, l
<1> QED BY <1>1, <1>3, <1>4

(* With nothing parked, nothing is forked.                                 *)
LEMMA NothingForked ==
  ASSUME TypeOK, NEW v \in Vault, v.parked = {},
         NEW n \in 0 .. MaxIds - minted,
         NEW name \in Bijection(FreshIds(n), Forkable(v))
  PROVE  /\ Resolved(v, name).env = v.env /\ Resolved(v, name).parked = {}
         /\ Resolved(v, name) \in Vault
<1> DEFINE r == Resolved(v, name)
<1>1. Forkable(v) = {}
  BY DEF Forkable
<1>2. name \in [FreshIds(n) -> {}]
  BY <1>1 DEF Bijection, Injection
<1>3. FreshIds(n) = {}
  BY <1>2
<1>4. r \in Vault /\ \A i \in Ids \ FreshIds(n) : r.env[i] = v.env[i]
  BY ResolvedType
<1>5. r.parked = {}
  BY DEF Resolved, Vault
<1>6. r.env \in EnvMap /\ v.env \in EnvMap
  BY <1>4, VaultParts
<1> HIDE DEF r
<1>7. r.env = v.env
  BY <1>3, <1>4, <1>6 DEF EnvMap
<1> QED BY <1>4, <1>5, <1>7 DEF r

(* A step of machine m that leaves the server's records and its own list   *)
(* as they are, and nothing in the queue.                                  *)
StaysPut(m) ==
  /\ srv'.recs = srv.recs
  /\ \E v \in Vault : /\ vault' = [vault EXCEPT ![m] = v]
                      /\ v.env = vault[m].env /\ v.parked = {}

LEMMA SettledStays ==
  ASSUME TypeOK, Converged, NEW m \in Machines, StaysPut(m)
  PROVE  Converged'
<1>1. PICK v \in Vault : /\ vault' = [vault EXCEPT ![m] = v]
                         /\ v.env = vault[m].env /\ v.parked = {}
  BY DEF StaysPut
<1>2. \A k \in Machines : vault'[k].env = vault[k].env /\ vault'[k].parked = {}
  BY <1>1 DEF TypeOK, Converged
<1> QED BY <1>2 DEF Converged, StaysPut

(* The pull that changes nothing.                                          *)
LEMMA SettledPull ==
  ASSUME TypeOK, Converged, NEW m \in Machines, Pull(m)
  PROVE  StaysPut(m)
<1> DEFINE out == Merged(m)
           ap == Applying(vault[m], out)
           pk == Park(ap, Losers(out))
<1>1. pc[m] \in Pulls /\ vault[m] \in Vault /\ AllOutcomes(out) /\ vault[m].parked = {}
  BY MachineParts, MergedType DEF Pull, Converged
<1>2. \A i \in Ids : out[i].parked = None /\ Adopt(vault[m].env[i], out[i].env) = vault[m].env[i]
  BY <1>1, SettledMerge
<1>3. Contested(out) = {} /\ Losers(out) = {}
  BY <1>2 DEF Contested, Losers
<1>4. ap \in Vault /\ ap.env = vault[m].env /\ ap.parked = {}
  <2>1. ap \in Vault /\ \A i \in Ids : ap.env[i] = vault[m].env[i]
    BY <1>1, <1>2, ApplyingType
  <2>2. ap.parked = {}
    BY <1>1 DEF Applying, WithEnv, Vault
  <2>3. ap.env \in EnvMap /\ vault[m].env \in EnvMap
    BY <1>1, <2>1, VaultParts
  <2> HIDE DEF ap
  <2>4. ap.env = vault[m].env
    BY <2>1, <2>3 DEF EnvMap
  <2> QED BY <2>1, <2>2, <2>4
<1>5. pk \in Vault /\ pk.env = vault[m].env /\ pk.parked = {}
  BY <1>3, <1>4 DEF Park, Vault
<1>6. Kept(m, out) \in Vault /\ Kept(m, out).env = vault[m].env /\ Kept(m, out).parked = {}
  <2>1. Kept(m, out) \in Vault
    BY KeptType
  <2>2. Kept(m, out).parked = pk.parked
    BY <1>5 DEF Kept, Superseding, Vault
  <2>3. Kept(m, out).env = [i \in Ids |-> pk.env[i]]
    BY <1>3, <1>5 DEF Kept, Superseding, Vault
  <2>4. pk.env \in EnvMap
    BY <1>5, VaultParts
  <2> HIDE DEF pk
  <2>5. [i \in Ids |-> pk.env[i]] = pk.env
    BY <2>4 DEF EnvMap
  <2> QED BY <1>5, <2>1, <2>2, <2>3, <2>5
<1>7. CASE PullRefused(m, out)
  <2>1. srv' = srv /\ vault' = [vault EXCEPT ![m] = vault[m]]
    BY <1>7 DEF PullRefused, GiveUp
  <2> QED BY <1>1, <2>1 DEF StaysPut
<1>8. CASE PullLockedConflict(m, out)
  BY <1>3, <1>8 DEF PullLockedConflict
<1>9. CASE PullLocked(m, out)
  <2>1. srv' = srv /\ vault' = [vault EXCEPT ![m] = ap]
    BY <1>9 DEF PullLocked, AfterPull
  <2> HIDE DEF ap
  <2> QED BY <1>4, <2>1 DEF StaysPut
<1>10. CASE PullUnlocked(m, out)
  <2> DEFINE Took(n, name) ==
          AfterPull(m, Resolved(Kept(m, Merged(m)), name), Merged(m), FreshIds(n))
  <2>1. PICK n \in 0 .. MaxIds - minted :
          \E name \in Bijection(FreshIds(n), Forkable(Kept(m, out))) : Took(n, name)
    BY <1>10 DEF PullUnlocked
  <2>2. PICK name \in Bijection(FreshIds(n), Forkable(Kept(m, out))) : Took(n, name)
    BY <2>1
  <2> DEFINE v == Resolved(Kept(m, Merged(m)), name)
  <2>3. v \in Vault /\ v.env = Kept(m, out).env /\ v.parked = {}
    BY <1>6, NothingForked
  <2>4. srv' = srv /\ vault' = [vault EXCEPT ![m] = v]
    BY <2>2 DEF AfterPull
  <2> HIDE DEF v
  <2> QED BY <1>6, <2>3, <2>4 DEF StaysPut
<1> QED BY <1>7, <1>8, <1>9, <1>10 DEF Pull

(* What the server takes is what it has: of a record that is being sent the*)
(* machine shows what it sends, or what the server cannot have.            *)
LEMMA SettledPush ==
  ASSUME TypeOK, InTransit, Converged, NEW m \in Machines, pc[m] \in Pushes
  PROVE  Applied(srv, job[m].push).recs = srv.recs
<1>1. ASSUME NEW i \in Ids, job[m].push[i] # None PROVE job[m].push[i] = srv.recs[i]
  BY <1>1 DEF InTransit, SentOrOwn, Elsewhere, Converged
<1>2. srv.recs \in EnvMap
  BY DEF TypeOK, Store
<1>3. Applied(srv, job[m].push).recs = [i \in Ids |-> srv.recs[i]]
  BY <1>1 DEF Applied
<1> QED BY <1>2, <1>3 DEF EnvMap

LEMMA SettledStep ==
  ASSUME TypeOK, InTransit, Converged, NEW m \in Machines,
         Start(m) \/ SyncStep(m) \/ Unlock(m) \/ (Disturbance(m) /\ ~Crash(m))
  PROVE  StaysPut(m)
<1>1. vault[m] \in Vault /\ vault[m].parked = {}
  BY MachineParts DEF Converged
<1>2. ASSUME srv'.recs = srv.recs,
             vault' = vault \/ vault' = [vault EXCEPT ![m] = vault[m]]
      PROVE  StaysPut(m)
  <2>1. vault' = [vault EXCEPT ![m] = vault[m]]
    BY <1>2 DEF TypeOK
  <2> QED BY <1>1, <1>2, <2>1 DEF StaysPut
<1>3. CASE \/ Start(m) \/ PushRetried(m) \/ PushGivenUp(m) \/ VerifyRefused(m)
           \/ VerifyConfirmed(m) \/ SaveVault(m) \/ SaveState(m)
           \/ LoseRequest(m) \/ SettingsWrite(m)
  BY <1>2, <1>3 DEF Start, PushRetried, PushGivenUp, VerifyRefused, VerifyConfirmed,
     SaveVault, SaveState, LoseRequest, SettingsWrite, GiveUp
<1>4. CASE Pull(m)
  BY <1>4, SettledPull
<1>5. CASE PushAccepted(m)
  BY <1>2, <1>5, SettledPush DEF PushAccepted
<1>6. CASE LoseAck(m)
  BY <1>2, <1>6, SettledPush DEF LoseAck, GiveUp
<1>7. CASE Lock(m)
  <2> DEFINE v == [vault[m] EXCEPT !.locked = TRUE]
  <2>1. v \in Vault /\ v.env = vault[m].env /\ v.parked = {}
    BY <1>1 DEF Vault
  <2>2. srv' = srv /\ vault' = [vault EXCEPT ![m] = v]
    BY <1>7 DEF Lock
  <2> HIDE DEF v
  <2> QED BY <2>1, <2>2 DEF StaysPut
<1>8. CASE Unlock(m)
  <2> DEFINE Opens(name) ==
          vault' = [vault EXCEPT ![m] = [Resolved(vault[m], name) EXCEPT !.locked = FALSE]]
  <2>1. PICK n \in 0 .. MaxIds - minted :
          \E name \in Bijection(FreshIds(n), Forkable(vault[m])) : Opens(name)
    BY <1>8 DEF Unlock
  <2>2. PICK name \in Bijection(FreshIds(n), Forkable(vault[m])) : Opens(name)
    BY <2>1
  <2> DEFINE r == Resolved(vault[m], name)
             v == [r EXCEPT !.locked = FALSE]
  <2>3. r \in Vault /\ r.env = vault[m].env /\ r.parked = {}
    BY <1>1, NothingForked
  <2>4. srv' = srv /\ vault' = [vault EXCEPT ![m] = v]
    BY <1>8, <2>2 DEF Unlock
  <2> HIDE DEF r
  <2>5. v \in Vault /\ v.env = vault[m].env /\ v.parked = {}
    BY <2>3 DEF Vault
  <2> HIDE DEF v
  <2> QED BY <2>4, <2>5 DEF StaysPut
<1> QED BY <1>3, <1>4, <1>5, <1>6, <1>7, <1>8 DEF SyncStep, Disturbance

(* Once every machine and the server hold the same and nothing is parked,  *)
(* no sync, unlock, lost request or settings save ends it, even after a    *)
(* server was put back or a machine woke up half saved.                    *)
THEOREM AgreementIsStable == Spec => AgreementLasts
<1> DEFINE Lasts ==
      Converged =>
        \/ Converged'
        \/ ops' # ops \/ Restore \/ \E m \in Machines : Crash(m)
<1>1. TypeOK /\ InTransit /\ [Next]_vars => [Lasts]_vars
  <2> SUFFICES ASSUME TypeOK, InTransit, Next, Converged,
                      ops' = ops, ~Restore, ~(\E m \in Machines : Crash(m))
               PROVE  Converged'
    OBVIOUS
  <2>1. PICK m \in Machines :
          Start(m) \/ SyncStep(m) \/ UserStep(m) \/ Unlock(m) \/ Disturbance(m)
    BY DEF Next
  <2>2. ~UserStep(m)
    <3> SUFFICES ASSUME UserStep(m) PROVE FALSE
      OBVIOUS
    <3>1. \E op \in UserOps : ops' = Counting(ops, op)
      BY DEF UserStep, Add, Edit, Touch, Delete, Operate
    <3>2. ops'.n = ops.n + 1
      BY <3>1 DEF Counting
    <3> QED BY <3>2 DEF TypeOK, Tally
  <2> QED BY <2>1, <2>2, SettledStep, SettledStays
<1> QED BY <1>1, InTransitInvariant, PTL DEF Spec, AgreementLasts

=============================================================================
