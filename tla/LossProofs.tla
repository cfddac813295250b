----------------------------- MODULE LossProofs -----------------------------
(***************************************************************************)
(* What somebody wrote is not lost (NothingLostUnlocked).                  *)
(*                                                                         *)
(* A plaintext may leave a machine's list when the server has it, and the  *)
(* server when the machine that writes over it has taken it up, or has made*)
(* a record of its own of it.  So the inductive invariant follows, for     *)
(* each record, what each machine may rely on others to have: on the       *)
(* server, for what it was told is there; on itself, for what it has read. *)
(***************************************************************************)
EXTENDS LineageProofs

(* One record, as all the machines and the server have it, and when and    *)
(* what each has read and parked of it.                                    *)
Sights == [srv : Maybe, stamp : Nat, fresh : Nat,
           env : [Machines -> Maybe], base : [Machines -> Base],
           sent : [Machines -> Maybe], landed : [Machines -> BOOLEAN],
           seq : [Machines -> Nat], marks : [Machines -> SUBSET Envelopes]]

Sight(i) ==
  [srv |-> srv.recs[i], stamp |-> srv.stamp[i], fresh |-> fresh,
   env    |-> [k \in Machines |-> vault[k].env[i]],
   base   |-> [k \in Machines |-> state[k].synced[i]],
   sent   |-> [k \in Machines |-> InFlight(k, i)],
   landed |-> [k \in Machines |-> pc[k] = "verify"],
   seq    |-> [k \in Machines |-> state[k].seq],
   marks  |-> [k \in Machines |-> {e \in Envelopes : [id |-> i, env |-> e] \in vault[k].marks}]]

(* A record that carries b wherever it is, so that nobody can take b out of*)
(* it but by editing it; and the plaintexts there is no need to look after.*)
Whole(w, b) ==
  /\ w.srv = None \/ Carries(w.srv, b)
  /\ \A k \in Machines : /\ w.env[k] = None \/ Carries(w.env[k], b)
                         /\ w.sent[k] = None \/ Carries(w.sent[k], b)
  /\ \E k \in Machines : w.env[k] # None
Saved(b) == \E j \in Ids : Whole(Sight(j), b)
Safe == {b \in Nat : b \notin owed \/ Saved(b)}

(* Of the plaintexts there is need to look after, which are not in S:      *)
(* what the server has and k has read, k shows; what k was told the server *)
(* has, it has; what k sends, k shows, and it is there once it landed; and *)
(* what k is to write over, it has taken up.                               *)
Backed(w, k, S) ==
  /\ Live(w.srv) /\ w.stamp <= w.seq[k] =>
       w.srv.body \in S \/ Carries(w.env[k], w.srv.body)
  /\ Live(w.env[k]) /\ w.base[k] = w.env[k].rev =>
       w.env[k].body \in S \/ Carries(w.srv, w.env[k].body)
  /\ Live(w.sent[k]) =>
       \/ w.sent[k].body \in S
       \/ /\ Carries(w.env[k], w.sent[k].body)
          /\ w.landed[k] => Carries(w.srv, w.sent[k].body)
  /\ w.sent[k] # None /\ ~w.landed[k] /\ Live(w.srv) /\ w.stamp <= w.seq[k] =>
       w.srv.body \in S \/ Carries(w.sent[k], w.srv.body)
  /\ w.base[k] # None => w.srv.rev > w.base[k] \/ w.stamp <= w.seq[k]

(* What a machine has parked and forked never meets it again, to be parked *)
(* and refused for its mark.                                               *)
Marked(w, k) ==
  \A e \in w.marks[k] :
    /\ e.seal < w.fresh /\ w.env[k] \notin {None, e}
    /\ w.srv = e => w.stamp <= w.seq[k]
    /\ ~w.landed[k] => w.sent[k] # e
    /\ \A m \in Machines : m # k /\ e \in {w.env[m], w.sent[m]} =>
         w.srv # None /\ (w.srv = e \/ w.srv.rev > e.rev)

Guarded(w, S) == AllYoung(w) /\ \A k \in Machines : Backed(w, k, S) /\ Marked(w, k)
Shown(w, b) == Carries(w.srv, b) \/ \E k \in Machines : Carries(w.env[k], b)

(* As long as nobody has locked, restarted or put back anything.           *)
Unlocked == \A k \in Machines : ~vault[k].locked /\ vault[k].parked = {}
Safekeeping ==
  /\ Unlocked
  /\ \A i \in Ids : Guarded(Sight(i), Safe)
  /\ \A b \in owed : b < fresh /\ \E i \in Ids : Shown(Sight(i), b)
Opened == Met("lock") \/ Met("crash") \/ Met("restore")
Entrusted == Opened \/ Safekeeping

LEMMA SightType ==
  ASSUME TypeOK, NEW i \in Ids
  PROVE  Sight(i) \in Sights
<1>1. ASSUME NEW k \in Machines
      PROVE  /\ vault[k].env[i] \in Maybe /\ state[k].synced[i] \in Base
             /\ InFlight(k, i) \in Maybe /\ state[k].seq \in Nat
  BY MachineTypes DEF EnvMap, State, Base, Maybe, InFlight
<1>2. srv.recs[i] \in Maybe /\ fresh \in Nat /\ srv.stamp[i] \in Nat
  BY DEF TypeOK, Store, EnvMap, Maybe
<1> HIDE DEF InFlight
<1> QED BY <1>1, <1>2 DEF Sight, Sights

LEMMA SightTypeNext ==
  ASSUME TypeOK', NEW i \in Ids
  PROVE  Sight(i)' \in Sights
<1>1. ASSUME NEW k \in Machines
      PROVE  /\ vault'[k].env[i] \in Maybe /\ state'[k].synced[i] \in Base
             /\ InFlight(k, i)' \in Maybe /\ state'[k].seq \in Nat
  BY MachineTypesNext DEF EnvMap, State, Base, Maybe, InFlight
<1>2. srv'.recs[i] \in Maybe /\ fresh' \in Nat /\ srv'.stamp[i] \in Nat
  BY DEF TypeOK, Store, EnvMap, Maybe
<1> HIDE DEF InFlight
<1> QED BY <1>1, <1>2 DEF Sight, Sights

LEMMA SightParts ==
  ASSUME NEW w \in Sights, NEW k \in Machines
  PROVE  /\ w.srv \in Maybe /\ w.stamp \in Nat /\ w.fresh \in Nat /\ w.env[k] \in Maybe
         /\ w.base[k] \in Base /\ w.sent[k] \in Maybe
         /\ w.landed[k] \in BOOLEAN /\ w.seq[k] \in Nat /\ w.marks[k] \subseteq Envelopes
BY DEF Sights

(* What the agreement with the server says of one record.                  *)
Sound(w) ==
  /\ \A k \in Machines : Bounded(w.env[k], w.srv, w.base[k])
  /\ w.srv # None => w.srv.seal < w.fresh
  /\ \A k \in Machines : /\ w.env[k] # None => w.env[k].seal < w.fresh
                         /\ w.sent[k] # None => w.sent[k].seal < w.fresh
  /\ \A k, m \in Machines : k # m =>
       \A e \in {w.env[k], w.sent[k]} \cap {w.env[m], w.sent[m]} :
         e # None => w.srv # None /\ (w.srv = e \/ w.srv.rev > e.rev)

LEMMA CoherentSound ==
  ASSUME TypeOK, Coherent, NEW i \in Ids
  PROVE  Sound(Sight(i))
<1>1. ASSUME NEW k \in Machines
      PROVE  /\ Sight(i).env[k] = vault[k].env[i] /\ Sight(i).base[k] = state[k].synced[i]
             /\ Sight(i).sent[k] = InFlight(k, i)
  BY DEF Sight
<1>2. Sight(i).srv = srv.recs[i] /\ Sight(i).fresh = fresh
  BY DEF Sight
<1> HIDE DEF Sight
<1>3. ASSUME NEW k \in Machines
      PROVE  /\ Bounded(vault[k].env[i], srv.recs[i], state[k].synced[i])
             /\ \A e \in {vault[k].env[i], InFlight(k, i)} : e # None => e \in HeldBy(k, i)
  <2>1. Bounded(vault[k].env[i], srv.recs[i], state[k].synced[i])
    BY DEF Coherent, InMemory, Stands, StandsAt
  <2>2. \A e \in {vault[k].env[i], InFlight(k, i)} : e # None => e \in HeldBy(k, i)
    BY DEF InFlight, HeldBy
  <2> QED BY <2>1, <2>2
<1>4. srv.recs[i] # None => srv.recs[i].seal < fresh
  BY DEF Coherent, Seals, Held
<1>5. ASSUME NEW k \in Machines, NEW e \in {vault[k].env[i], InFlight(k, i)}, e # None
      PROVE  e.seal < fresh
  <2>1. e \in Held(i)
    BY <1>3, <1>5 DEF Held
  <2> QED BY <2>1 DEF Coherent, Seals
<1>6. ASSUME NEW k \in Machines, NEW m \in Machines, k # m,
             NEW e \in {vault[k].env[i], InFlight(k, i)} \cap {vault[m].env[i], InFlight(m, i)},
             e # None
      PROVE  srv.recs[i] # None /\ (srv.recs[i] = e \/ srv.recs[i].rev > e.rev)
  <2>1. e \in HeldBy(k, i) \cap HeldBy(m, i)
    BY <1>3, <1>6
  <2> QED BY <1>6, <2>1 DEF Coherent, Shared
<1> HIDE DEF InFlight
<1> QED BY <1>1, <1>2, <1>3, <1>4, <1>5, <1>6 DEF Sound

-----------------------------------------------------------------------------
(***************************************************************************)
(* One record's merge loses nothing unseen.                                *)
(***************************************************************************)
(* A live side that is not kept is parked, or the server had it and the    *)
(* machine knew; and what is remembered as agreed is the server's, or was. *)
MergeSaves(l, r, a, b, o, x) ==
  /\ Live(l) /\ x # l => l.rev = b \/ o.parked = l
  /\ Live(r) /\ a = r /\ x # r => o.parked = r
  /\ Live(x) /\ o.synced = x.rev =>
       x = r \/ (x = l /\ b = l.rev) \/ (o.parked # None /\ o.push)
  /\ o.parked # None =>
       /\ l # None /\ r # None /\ l # r
       /\ IF o.push THEN o.parked = r /\ x = l ELSE o.parked = l /\ x = r

LEMMA MergeOfSafe ==
  ASSUME NEW l \in Maybe, NEW r \in Maybe, NEW a \in {None, r}, NEW b \in Base,
         Bounded(l, r, b), l # None /\ r # None /\ l.seal = r.seal => l = r,
         a # None /\ b # None => r.rev > b
  PROVE  MergeSaves(l, r, a, b, MergeOne(l, a, b), Adopt(l, MergeOne(l, a, b).env))
<1> DEFINE o == MergeOne(l, a, b)
           x == Adopt(l, o.env)
<1>0. /\ l # None => l.rev \in Nat /\ l.deleted \in BOOLEAN
      /\ r # None => r.rev \in Nat /\ r.deleted \in BOOLEAN
      /\ None \notin Nat /\ (b # None => b \in Nat)
  BY EnvelopeFacts, NoneAssumption DEF Maybe, Base
<1>1. CASE a = None /\ l = None
  <2>1. o = Outcome(None, b, None, FALSE, FALSE)
    BY <1>1 DEF MergeOne
  <2>2. x = None /\ o.parked = None
    BY <1>1, <2>1 DEF Outcome, Adopt
  <2> HIDE DEF o, x
  <2>3. MergeSaves(l, r, a, b, o, x)
    BY <1>1, <2>2 DEF MergeSaves, Live
  <2> QED BY <2>3 DEF o, x
<1>2. CASE a = None /\ l # None
  <2>1. /\ o.parked = None /\ o.env = l /\ (o.synced = l.rev => b = l.rev)
    <3>1. CASE b = l.rev
      BY <1>2, <3>1 DEF MergeOne, Agreed, OnlyLocal, Outcome
    <3>2. CASE b # l.rev
      BY <1>2, <3>2 DEF MergeOne, Agreed, OnlyLocal, Outcome
    <3> QED BY <3>1, <3>2
  <2>2. x = l
    BY <2>1 DEF Adopt
  <2> HIDE DEF o, x
  <2>3. MergeSaves(l, r, a, b, o, x)
    BY <1>2, <2>1, <2>2 DEF MergeSaves, Live
  <2> QED BY <2>3 DEF o, x
<1>3. CASE a # None /\ l = None
  <2>1. o = Outcome(r, r.rev, None, FALSE, FALSE)
    BY <1>3 DEF MergeOne
  <2>2. x = r /\ o.parked = None
    BY <1>3, <2>1 DEF Outcome, Adopt
  <2> HIDE DEF o, x
  <2>3. MergeSaves(l, r, a, b, o, x)
    BY <1>3, <2>2 DEF MergeSaves, Live
  <2> QED BY <2>3 DEF o, x
<1>4. CASE a # None /\ l # None
  <2>1. a = r /\ r # None /\ o = BothPresent(l, r, b)
    BY <1>4 DEF MergeOne
  <2>2. ~RolledBack(l, r, b) /\ ~LocalAhead(l, r, b)
    BY <1>0, <1>4, <2>1 DEF RolledBack, LocalAhead, Bounded
  <2>3. CASE Agreed(l, r, b)
    <3>0. l = r
      BY <1>0, <1>4, <2>1, <2>3 DEF Agreed, SameBytes
    <3>1. o = Outcome(l, r.rev, None, FALSE, FALSE)
      BY <2>1, <2>3, <3>0, <1>0 DEF BothPresent, RolledBack, RemoteAhead, LocalAhead
    <3>2. x = l /\ o.parked = None
      BY <3>1 DEF Outcome, Adopt
    <3> HIDE DEF o, x
    <3>3. MergeSaves(l, r, a, b, o, x)
      BY <3>0, <3>2 DEF MergeSaves
    <3> QED BY <3>3 DEF o, x
  <2>4. CASE ~Agreed(l, r, b) /\ RemoteAhead(l, r, b)
    <3>0. r.rev > l.rev /\ b = l.rev
      BY <1>0, <1>4, <2>1, <2>4 DEF RemoteAhead
    <3>1. o = Outcome(r, r.rev, None, FALSE, FALSE)
      BY <2>1, <2>2, <2>4 DEF BothPresent
    <3>2. x = r /\ o.parked = None
      BY <1>0, <1>4, <2>1, <3>0, <3>1 DEF Outcome, Adopt
    <3> HIDE DEF o, x
    <3>3. MergeSaves(l, r, a, b, o, x)
      BY <3>0, <3>2 DEF MergeSaves
    <3> QED BY <3>3 DEF o, x
  <2>5. CASE ~Agreed(l, r, b) /\ ~RemoteAhead(l, r, b)
    <3>0. l # r
      BY <2>1, <2>5 DEF Agreed, SameBytes
    <3>1. o = Diverged(l, r, b)
      BY <2>1, <2>2, <2>5 DEF BothPresent
    <3>2. CASE Descendant(l, r, b)
      <4>1. o = Outcome(r, r.rev, l, FALSE, FALSE) /\ r.rev > l.rev
        BY <3>1, <3>2 DEF Diverged, Descendant
      <4>2. x = r /\ o.parked = l /\ ~o.push
        BY <1>0, <1>4, <2>1, <4>1 DEF Outcome, Adopt
      <4> HIDE DEF o, x
      <4>3. MergeSaves(l, r, a, b, o, x)
        BY <1>4, <2>1, <3>0, <4>2 DEF MergeSaves
      <4> QED BY <4>3 DEF o, x
    <3>3. CASE ~Descendant(l, r, b) /\ ~l.deleted /\ r.deleted
      <4>1. o = Outcome(r, r.rev, l, FALSE, FALSE)
        BY <3>1, <3>3 DEF Diverged
      <4>2. x = r /\ o.parked = l /\ ~o.push
        BY <3>3, <4>1 DEF Outcome, Adopt, Live
      <4> HIDE DEF o, x
      <4>3. MergeSaves(l, r, a, b, o, x)
        BY <1>4, <2>1, <3>0, <4>2 DEF MergeSaves
      <4> QED BY <4>3 DEF o, x
    <3>4. CASE ~Descendant(l, r, b) /\ (l.deleted \/ (~l.deleted /\ ~r.deleted))
      <4>1. \E s : o = Outcome(l, s, r, TRUE, FALSE)
        BY <3>1, <3>4 DEF Diverged
      <4>2. x = l /\ o.parked = r /\ o.push
        BY <4>1 DEF Outcome, Adopt
      <4> HIDE DEF o, x
      <4>3. MergeSaves(l, r, a, b, o, x)
        BY <1>4, <2>1, <3>0, <4>2 DEF MergeSaves
      <4> QED BY <4>3 DEF o, x
    <3> QED BY <1>0, <1>4, <2>1, <3>2, <3>3, <3>4
  <2> QED BY <2>3, <2>4, <2>5
<1> QED BY <1>1, <1>2, <1>3, <1>4

-----------------------------------------------------------------------------
(***************************************************************************)
(* What a step makes of a record, and that everything is still looked      *)
(* after.  S and T are the plaintexts there is no need to look after,      *)
(* before and after the step.                                              *)
(***************************************************************************)
Holding(w, S, T) ==
  Sound(w) /\ Guarded(w, S) /\ \A b \in S : b < w.fresh => b \in T
Heeded(w, v, T) ==
  Guarded(v, T) /\ \A b \in Nat : Shown(w, b) => b \in T \/ Shown(v, b)

Same(w, v, k) ==
  /\ v.env[k] = w.env[k] /\ v.base[k] = w.base[k] /\ v.sent[k] = w.sent[k]
  /\ v.landed[k] = w.landed[k] /\ v.seq[k] = w.seq[k] /\ v.marks[k] = w.marks[k]
Alongside(w, v, m) == \A k \in Machines : k # m => Same(w, v, k)

(* The bodies of live envelopes that are safe stay so.                     *)
LEMMA StaysSafe ==
  ASSUME NEW w \in Sights, NEW S, NEW T, Holding(w, S, T), NEW k \in Machines
  PROVE  /\ Live(w.srv) /\ w.srv.body \in S => w.srv.body \in T
         /\ Live(w.env[k]) /\ w.env[k].body \in S => w.env[k].body \in T
         /\ Live(w.sent[k]) /\ w.sent[k].body \in S => w.sent[k].body \in T
BY DEF Holding, Guarded, AllYoung, Young

LEMMA HoldingParts ==
  ASSUME NEW w \in Sights, NEW S, NEW T, Holding(w, S, T), NEW k \in Machines
  PROVE  /\ Backed(w, k, S) /\ Marked(w, k) /\ Bounded(w.env[k], w.srv, w.base[k])
         /\ Young(w.srv, w.fresh) /\ Young(w.env[k], w.fresh) /\ Young(w.sent[k], w.fresh)
         /\ w.srv # None => w.srv.seal < w.fresh
         /\ w.env[k] # None => w.env[k].seal < w.fresh
BY DEF Holding, Sound, Guarded, AllYoung

LEMMA GrowsOld ==
  ASSUME NEW w \in Sights, NEW v \in Sights, v.fresh >= w.fresh,
         NEW e \in Maybe, Young(e, w.fresh)
  PROVE  Young(e, v.fresh)
BY MaybeFacts DEF Young, Live, Sights

(* A machine for which nothing has changed, whatever others have made of   *)
(* what they had.                                                          *)
LEMMA Untouched ==
  ASSUME NEW w \in Sights, NEW v \in Sights, NEW S, NEW T, Holding(w, S, T),
         NEW k \in Machines, Same(w, v, k),
         v.srv = w.srv, v.stamp = w.stamp, v.fresh >= w.fresh,
         \A j \in Machines : j # k =>
           \A e \in {v.env[j], v.sent[j]} \cap w.marks[k] :
             e \in {w.env[j], w.sent[j], w.srv}
  PROVE  Backed(v, k, T) /\ Marked(v, k)
<1>1. Backed(w, k, S) /\ Marked(w, k)
  BY HoldingParts
<1>2. /\ v.env[k] = w.env[k] /\ v.base[k] = w.base[k] /\ v.sent[k] = w.sent[k]
      /\ v.landed[k] = w.landed[k] /\ v.seq[k] = w.seq[k] /\ v.marks[k] = w.marks[k]
  BY DEF Same
<1>3. Backed(v, k, T)
  BY <1>1, <1>2, StaysSafe DEF Backed
<1>4. ASSUME NEW e \in w.marks[k]
      PROVE  /\ e.seal < v.fresh /\ v.env[k] \notin {None, e}
             /\ v.srv = e => v.stamp <= v.seq[k]
             /\ ~v.landed[k] => v.sent[k] # e
             /\ e # None
  <2>1. e \in Envelopes /\ w.fresh \in Nat /\ v.fresh \in Nat
    BY SightParts
  <2>2. e.seal \in Nat /\ e # None
    BY <2>1, EnvelopeFacts DEF Envelopes, Envelope
  <2> QED BY <1>1, <1>2, <2>1, <2>2 DEF Marked
<1>5. ASSUME NEW e \in w.marks[k], NEW j \in Machines, j # k, e \in {v.env[j], v.sent[j]}
      PROVE  v.srv # None /\ (v.srv = e \/ v.srv.rev > e.rev)
  <2>1. e \in {w.env[j], w.sent[j], w.srv}
    BY <1>5
  <2>2. CASE e = w.srv
    BY <1>4, <2>2
  <2>3. CASE e \in {w.env[j], w.sent[j]}
    BY <1>1, <1>5, <2>3 DEF Marked
  <2> QED BY <2>1, <2>2, <2>3
<1>6. Marked(v, k)
  BY <1>2, <1>4, <1>5 DEF Marked
<1> QED BY <1>3, <1>6

(* A machine that keeps what it has of the record, its request perhaps     *)
(* given up.                                                               *)
Waits(w, v, m) ==
  /\ v.srv = w.srv /\ v.stamp = w.stamp /\ v.fresh >= w.fresh /\ Alongside(w, v, m)
  /\ v.env[m] = w.env[m] /\ v.base[m] = w.base[m]
  /\ v.seq[m] = w.seq[m] /\ v.marks[m] = w.marks[m]
  /\ \/ v.sent[m] = w.sent[m] /\ v.landed[m] = w.landed[m]
     \/ v.sent[m] = None

LEMMA WaitsHeeded ==
  ASSUME NEW w \in Sights, NEW v \in Sights, NEW S, NEW T, NEW m \in Machines,
         Holding(w, S, T), Waits(w, v, m)
  PROVE  Heeded(w, v, T)
<1>1. /\ v.srv = w.srv /\ v.stamp = w.stamp /\ v.fresh >= w.fresh
      /\ v.env[m] = w.env[m] /\ v.base[m] = w.base[m]
      /\ v.seq[m] = w.seq[m] /\ v.marks[m] = w.marks[m]
      /\ \/ v.sent[m] = w.sent[m] /\ v.landed[m] = w.landed[m]
         \/ v.sent[m] = None
  BY DEF Waits
<1>2. ASSUME NEW k \in Machines, k # m PROVE Same(w, v, k)
  BY <1>2 DEF Waits, Alongside
<1>3. ASSUME NEW k \in Machines, k # m PROVE Backed(v, k, T) /\ Marked(v, k)
  <2>1. ASSUME NEW j \in Machines, NEW e \in {v.env[j], v.sent[j]} \cap w.marks[k]
        PROVE  e \in {w.env[j], w.sent[j], w.srv}
    <3>1. e # None
      BY EnvelopeFacts, SightParts
    <3> QED BY <1>1, <1>2, <3>1 DEF Same
  <2> QED BY <1>1, <1>2, <1>3, <2>1, Untouched
<1>4. Backed(v, m, T)
  BY <1>1, HoldingParts, StaysSafe DEF Backed, Live
<1>5. Marked(v, m)
  <2>1. ASSUME NEW e \in w.marks[m] PROVE e # None /\ e.seal < v.fresh
    <3>1. e \in Envelopes /\ w.fresh \in Nat /\ v.fresh \in Nat /\ e.seal < w.fresh
      BY SightParts, HoldingParts DEF Marked
    <3>2. e.seal \in Nat /\ e # None
      BY <3>1, EnvelopeFacts DEF Envelopes, Envelope
    <3> QED BY <1>1, <3>1, <3>2
  <2> QED BY <1>1, <1>2, <2>1, HoldingParts DEF Marked, Same
<1>6. AllYoung(v)
  <2>1. Young(None, v.fresh)
    BY DEF Young, Live
  <2>2. ASSUME NEW k \in Machines
        PROVE  Young(v.srv, v.fresh) /\ Young(v.env[k], v.fresh) /\ Young(v.sent[k], v.fresh)
    <3>1. Young(w.srv, v.fresh) /\ Young(w.env[k], v.fresh) /\ Young(w.sent[k], v.fresh)
      BY <1>1, HoldingParts, SightParts, GrowsOld
    <3> QED BY <1>1, <1>2, <2>1, <3>1 DEF Same
  <2> QED BY <2>2 DEF AllYoung
<1>7. \A b : Shown(w, b) => Shown(v, b)
  BY <1>1, <1>2 DEF Shown, Same
<1> QED BY <1>3, <1>4, <1>5, <1>6, <1>7 DEF Heeded, Guarded

(* A person writes it, or deletes it: what it replaces is safe by then,    *)
(* because nobody owes it any more, or is what it replaces it by.          *)
Pens(w, v, m, T) ==
  /\ v.srv = w.srv /\ v.stamp = w.stamp /\ v.fresh > w.fresh /\ Alongside(w, v, m)
  /\ v.base[m] = w.base[m] /\ v.seq[m] = w.seq[m] /\ v.marks[m] = w.marks[m]
  /\ v.sent[m] = w.sent[m] /\ v.landed[m] = w.landed[m]
  /\ v.env[m] # None /\ v.env[m].seal = w.fresh /\ Young(v.env[m], v.fresh)
  /\ w.env[m] # None => v.env[m].rev > w.env[m].rev
  /\ \A b \in Nat : Carries(w.env[m], b) => Carries(v.env[m], b) \/ b \in T

LEMMA PensHeeded ==
  ASSUME NEW w \in Sights, NEW v \in Sights, NEW S, NEW T, NEW m \in Machines,
         Holding(w, S, T), Pens(w, v, m, T)
  PROVE  Heeded(w, v, T)
<1> DEFINE l == w.env[m]
           y == v.env[m]
<1>1. /\ v.srv = w.srv /\ v.stamp = w.stamp /\ v.fresh > w.fresh /\ v.fresh >= w.fresh
      /\ v.base[m] = w.base[m] /\ v.seq[m] = w.seq[m] /\ v.marks[m] = w.marks[m]
      /\ v.sent[m] = w.sent[m] /\ v.landed[m] = w.landed[m]
      /\ y # None /\ y.seal = w.fresh /\ Young(y, v.fresh)
      /\ l # None => y.rev > l.rev
      /\ \A b \in Nat : Carries(l, b) => Carries(y, b) \/ b \in T
  <2>1. v.fresh > w.fresh => v.fresh >= w.fresh
    BY DEF Sights
  <2> QED BY <2>1 DEF Pens
<1>2. ASSUME NEW k \in Machines, k # m PROVE Same(w, v, k)
  BY <1>2 DEF Pens, Alongside
<1>3. ASSUME NEW k \in Machines, NEW e \in w.marks[k]
      PROVE  e # y /\ e # None /\ e.seal < v.fresh
  <2>1. e \in Envelopes /\ w.fresh \in Nat /\ v.fresh \in Nat /\ e.seal < w.fresh
    BY SightParts, HoldingParts DEF Marked
  <2>2. e.seal \in Nat /\ e # None
    BY <2>1, EnvelopeFacts DEF Envelopes, Envelope
  <2> QED BY <1>1, <2>1, <2>2
<1>4. ASSUME NEW k \in Machines, k # m PROVE Backed(v, k, T) /\ Marked(v, k)
  <2>1. ASSUME NEW j \in Machines, NEW e \in {v.env[j], v.sent[j]} \cap w.marks[k]
        PROVE  e \in {w.env[j], w.sent[j], w.srv}
    BY <1>1, <1>2, <1>3 DEF Same
  <2> QED BY <1>1, <1>2, <1>4, <2>1, Untouched
<1>5. Backed(v, m, T)
  <2>0. Backed(w, m, S) /\ Bounded(l, w.srv, w.base[m])
    BY HoldingParts
  <2>1. y.rev \in Nat /\ None \notin Nat /\ w.base[m] \in Base /\ (l # None => l.rev \in Nat)
    BY <1>1, SightParts, MaybeFacts, NoneAssumption
  <2>2. w.base[m] # y.rev
    BY <1>1, <2>0, <2>1 DEF Bounded, Base
  <2>3. /\ Live(w.srv) => w.srv.body \in Nat
        /\ Live(w.sent[m]) => w.sent[m].body \in Nat
    BY SightParts, MaybeFacts DEF Live
  <2>4. Live(w.srv) /\ w.stamp <= w.seq[m] => w.srv.body \in T \/ Carries(y, w.srv.body)
    BY <1>1, <2>0, <2>3, StaysSafe DEF Backed
  <2>5. Live(w.sent[m]) =>
          \/ w.sent[m].body \in T
          \/ /\ Carries(y, w.sent[m].body)
             /\ w.landed[m] => Carries(w.srv, w.sent[m].body)
    BY <1>1, <2>0, <2>3, StaysSafe DEF Backed
  <2>6. /\ w.sent[m] # None /\ ~w.landed[m] /\ Live(w.srv) /\ w.stamp <= w.seq[m] =>
             w.srv.body \in T \/ Carries(w.sent[m], w.srv.body)
        /\ w.base[m] # None => w.srv.rev > w.base[m] \/ w.stamp <= w.seq[m]
    BY <2>0, StaysSafe DEF Backed
  <2> QED BY <1>1, <2>2, <2>4, <2>5, <2>6 DEF Backed
<1>6. Marked(v, m)
  BY <1>1, <1>2, <1>3, HoldingParts DEF Marked, Same
<1>7. AllYoung(v)
  <2>1. ASSUME NEW k \in Machines
        PROVE  Young(w.srv, v.fresh) /\ Young(w.env[k], v.fresh) /\ Young(w.sent[k], v.fresh)
    BY <1>1, HoldingParts, SightParts, GrowsOld
  <2> QED BY <1>1, <1>2, <2>1 DEF AllYoung, Same
<1>8. ASSUME NEW b \in Nat, Shown(w, b) PROVE b \in T \/ Shown(v, b)
  BY <1>1, <1>2, <1>8 DEF Shown, Same
<1> QED BY <1>4, <1>5, <1>6, <1>7, <1>8 DEF Heeded, Guarded

(* A parked envelope becomes a record of its own, where nothing stood.     *)
Sprouts(w, v, m) ==
  /\ v.srv = None /\ v.fresh >= w.fresh /\ Alongside(w, v, m)
  /\ w.srv = None /\ \A k \in Machines : w.env[k] = None /\ w.sent[k] = None
  /\ v.env[m] # None /\ Young(v.env[m], v.fresh) /\ ~v.landed[m]
  /\ v.sent[m] \in {None, v.env[m]} /\ v.base[m] = None /\ v.marks[m] = {}

LEMMA SproutsHeeded ==
  ASSUME NEW w \in Sights, NEW v \in Sights, NEW S, NEW T, NEW m \in Machines,
         Holding(w, S, T), Sprouts(w, v, m)
  PROVE  Heeded(w, v, T)
<1>1. ASSUME NEW k \in Machines, k # m
      PROVE  /\ v.env[k] = None /\ v.sent[k] = None /\ v.base[k] = None /\ v.marks[k] = {}
  <2>1. Marked(w, k) /\ Bounded(w.env[k], w.srv, w.base[k]) /\ w.env[k] = None /\ w.srv = None
    BY HoldingParts DEF Sprouts
  <2>2. w.marks[k] = {} /\ w.base[k] = None
    BY <2>1 DEF Marked, Bounded
  <2> QED BY <1>1, <2>1, <2>2 DEF Sprouts, Alongside, Same
<1>2. ASSUME NEW k \in Machines, k # m PROVE Backed(v, k, T) /\ Marked(v, k)
  BY <1>1, <1>2 DEF Backed, Marked, Live, Sprouts
<1>3. Backed(v, m, T)
  <2>1. v.env[m] # None /\ v.env[m].rev \in Nat /\ None \notin Nat
    BY SightParts, MaybeFacts, NoneAssumption DEF Sprouts
  <2> QED BY <2>1 DEF Backed, Live, Carries, Sprouts
<1>4. Marked(v, m)
  BY DEF Marked, Sprouts
<1>5. AllYoung(v)
  BY <1>1 DEF AllYoung, Young, Live, Sprouts
<1>6. \A b : ~Shown(w, b)
  BY DEF Sprouts, Shown, Carries, Live
<1> QED BY <1>2, <1>3, <1>4, <1>5, <1>6 DEF Heeded, Guarded

(* A pull leaves the local envelope, or takes the server's, or keeps the   *)
(* local one against the server's and seals it above both.  An envelope    *)
(* that loses, e, is shown besides or has become a record.                 *)
SettlesAs(w, v, m, e) ==
  LET l == w.env[m]
      r == w.srv
      y == v.env[m]
  IN  \/ /\ y = l /\ e = None
         /\ Live(r) => w.stamp <= w.seq[m] \/ l = r
         /\ Live(y) /\ v.base[m] = y.rev => y = r \/ w.base[m] = l.rev
      \/ /\ y = r /\ r # None /\ l # r /\ w.stamp > w.seq[m]
         /\ e \in {None, l}
         /\ Live(l) => l.rev = w.base[m] \/ e = l
      \/ /\ e = r /\ l # None /\ r # None /\ w.stamp > w.seq[m]
         /\ y # None /\ y.seal = w.fresh /\ y.deleted = l.deleted /\ y.body = l.body
         /\ v.base[m] # y.rev
Settles(w, v, m, e, T) ==
  /\ v.srv = w.srv /\ v.stamp = w.stamp /\ v.fresh >= w.fresh /\ Alongside(w, v, m)
  /\ w.sent[m] = None /\ ~w.landed[m] /\ ~v.landed[m] /\ v.sent[m] \in {None, v.env[m]}
  /\ v.stamp <= v.seq[m] /\ v.marks[m] = w.marks[m] \cup ({e} \ {None})
  /\ Live(e) => Carries(v.env[m], e.body) \/ e.body \in T
  /\ SettlesAs(w, v, m, e)

LEMMA SettlesHeeded ==
  ASSUME NEW w \in Sights, NEW v \in Sights, NEW S, NEW T, NEW m \in Machines, NEW e \in Maybe,
         Holding(w, S, T), Settles(w, v, m, e, T)
  PROVE  Heeded(w, v, T)
<1> DEFINE l == w.env[m]
           r == w.srv
           y == v.env[m]
<1>1. /\ v.srv = r /\ v.stamp = w.stamp /\ v.fresh >= w.fresh
      /\ w.sent[m] = None /\ ~w.landed[m] /\ ~v.landed[m] /\ v.sent[m] \in {None, y}
      /\ v.stamp <= v.seq[m] /\ v.marks[m] = w.marks[m] \cup ({e} \ {None})
      /\ Live(e) => Carries(y, e.body) \/ e.body \in T
  BY DEF Settles
<1>2. ASSUME NEW k \in Machines, k # m PROVE Same(w, v, k)
  BY <1>2 DEF Settles, Alongside
<1>3. SettlesAs(w, v, m, e)
  BY DEF Settles
<1>4. /\ l \in Maybe /\ r \in Maybe /\ y \in Maybe
      /\ w.fresh \in Nat /\ v.fresh \in Nat /\ w.stamp \in Nat /\ w.seq[m] \in Nat
  BY SightParts
<1>5. ASSUME NEW k \in Machines, NEW x \in w.marks[k]
      PROVE  /\ x # None /\ x.seal < w.fresh /\ x.seal < v.fresh
             /\ x.seal \in Nat /\ w.env[k] \notin {None, x}
             /\ r = x => w.stamp <= w.seq[k]
  <2>1. x \in Envelopes /\ Marked(w, k)
    BY SightParts, HoldingParts
  <2>2. x.seal \in Nat /\ x # None
    BY <2>1, EnvelopeFacts DEF Envelopes, Envelope
  <2> QED BY <1>1, <1>4, <2>1, <2>2 DEF Marked
<1>6. y = l \/ y = r \/ (y # None /\ y.seal = w.fresh)
  BY <1>3 DEF SettlesAs
<1>7. ASSUME NEW k \in Machines, k # m PROVE Backed(v, k, T) /\ Marked(v, k)
  <2>1. ASSUME NEW j \in Machines, NEW x \in {v.env[j], v.sent[j]} \cap w.marks[k]
        PROVE  x \in {w.env[j], w.sent[j], w.srv}
    <3>1. x # None /\ x.seal < w.fresh /\ x.seal \in Nat
      BY <1>5
    <3>2. CASE j # m
      BY <1>2, <3>2 DEF Same
    <3>3. CASE j = m
      <4>1. x = y
        BY <1>1, <3>1, <3>3
      <4> QED BY <1>4, <1>6, <3>1, <3>3, <4>1
    <3> QED BY <3>2, <3>3
  <2>2. Same(w, v, k)
    BY <1>2, <1>7
  <2> QED BY <1>1, <1>7, <2>1, <2>2, Untouched
(* What the server has is shown here, or safe.                             *)
<1>8. Live(r) => r.body \in T \/ Carries(y, r.body)
  <2>1. Live(r) /\ w.stamp <= w.seq[m] => r.body \in T \/ Carries(l, r.body)
    BY HoldingParts, StaysSafe DEF Backed
  <2>2. CASE y = l /\ (Live(r) => w.stamp <= w.seq[m] \/ l = r)
    BY <2>1, <2>2 DEF Carries
  <2>3. CASE y = r
    BY <2>3 DEF Carries
  <2>4. CASE e = r
    BY <1>1, <2>4
  <2> QED BY <1>3, <2>2, <2>3, <2>4 DEF SettlesAs
<1>9. Live(l) /\ w.base[m] = l.rev => l.body \in T \/ Carries(r, l.body)
  BY HoldingParts, StaysSafe DEF Backed
<1>10. Live(y) /\ v.base[m] = y.rev => y.body \in T \/ Carries(r, y.body)
  <2>1. CASE y = l /\ (Live(y) /\ v.base[m] = y.rev => y = r \/ w.base[m] = l.rev)
    BY <1>9, <2>1 DEF Carries
  <2>2. CASE y = r
    BY <2>2 DEF Carries
  <2>3. CASE v.base[m] # y.rev
    BY <2>3
  <2> QED BY <1>3, <2>1, <2>2, <2>3 DEF SettlesAs
<1>11. Backed(v, m, T)
  BY <1>1, <1>8, <1>10 DEF Backed, Carries, Live
<1>12. Marked(v, m)
  <2>1. ASSUME NEW x \in w.marks[m]
        PROVE  y \notin {None, x}
    <3>1. x # None /\ x.seal < w.fresh /\ x.seal \in Nat /\ l \notin {None, x}
          /\ (r = x => w.stamp <= w.seq[m])
      BY <1>5
    <3>2. CASE y = l
      BY <3>1, <3>2
    <3>3. CASE y = r /\ r # None /\ w.stamp > w.seq[m]
      BY <1>4, <3>1, <3>3
    <3>4. CASE y # None /\ y.seal = w.fresh
      BY <1>4, <3>1, <3>4
    <3> QED BY <1>3, <3>2, <3>3, <3>4 DEF SettlesAs
  <2>2. ASSUME e # None
        PROVE  /\ e \in {l, r} /\ e.seal < w.fresh /\ e.seal \in Nat /\ y \notin {None, e}
    <3>1. e \in {l, r}
      BY <1>3, <2>2 DEF SettlesAs
    <3>2. e.seal < w.fresh /\ e.seal \in Nat
      <4>1. e.seal < w.fresh
        BY <2>2, <3>1, HoldingParts
      <4> QED BY <2>2, <4>1, EnvelopeFacts DEF Maybe, Envelopes, Envelope
    <3>3. y \notin {None, e}
      BY <1>3, <1>4, <2>2, <3>2 DEF SettlesAs
    <3> QED BY <3>1, <3>2, <3>3
  <2>3. ASSUME NEW x \in v.marks[m]
        PROVE  /\ x # None /\ x.seal < v.fresh /\ y \notin {None, x}
               /\ \A j \in Machines : j # m /\ x \in {v.env[j], v.sent[j]} =>
                    r # None /\ (r = x \/ r.rev > x.rev)
    <3>1. CASE x \in w.marks[m]
      BY <1>2, <1>5, <2>1, <3>1, HoldingParts DEF Marked, Same
    <3>2. CASE x = e /\ e # None
      <4>1. x.seal < v.fresh
        BY <1>1, <1>4, <2>2, <3>2
      <4>2. ASSUME NEW j \in Machines, j # m, x \in {w.env[j], w.sent[j]}
            PROVE  r # None /\ (r = x \/ r.rev > x.rev)
        <5>1. CASE x = r
          BY <3>2, <5>1
        <5>2. CASE x = l
          BY <3>2, <4>2, <5>2 DEF Holding, Sound
        <5> QED BY <2>2, <3>2, <5>1, <5>2
      <4> QED BY <1>2, <2>2, <3>2, <4>1, <4>2 DEF Same
    <3> QED BY <1>1, <3>1, <3>2
  <2>4. ASSUME NEW x \in v.marks[m] PROVE v.sent[m] # x
    BY <1>1, <2>3
  <2> QED BY <1>1, <2>3, <2>4 DEF Marked
<1>13. AllYoung(v)
  <2>1. ASSUME NEW k \in Machines
        PROVE  Young(r, v.fresh) /\ Young(w.env[k], v.fresh) /\ Young(w.sent[k], v.fresh)
    BY <1>1, HoldingParts, SightParts, GrowsOld
  <2>2. Young(y, v.fresh) /\ Young(v.sent[m], v.fresh)
    <3>1. Young(y, v.fresh)
      BY <1>3, <1>4, <2>1, MaybeFacts DEF SettlesAs, Young, Live
    <3> QED BY <1>1, <3>1 DEF Young, Live
  <2> QED BY <1>1, <1>2, <2>1, <2>2 DEF AllYoung, Same
<1>14. ASSUME NEW b \in Nat, Carries(l, b) PROVE b \in T \/ Carries(r, b) \/ Carries(y, b)
  <2>1. Live(l) /\ l.body = b
    BY <1>14 DEF Carries
  <2>2. CASE y = l
    BY <1>14, <2>2
  <2>3. CASE Live(l) => l.rev = w.base[m] \/ e = l
    BY <1>1, <1>9, <2>1, <2>3
  <2>4. CASE y # None /\ y.deleted = l.deleted /\ y.body = l.body
    BY <1>4, <2>1, <2>4, MaybeFacts DEF Carries, Live
  <2> QED BY <1>3, <2>2, <2>3, <2>4 DEF SettlesAs
<1>15. ASSUME NEW b \in Nat, Shown(w, b) PROVE b \in T \/ Shown(v, b)
  BY <1>1, <1>2, <1>14, <1>15 DEF Shown, Same
<1> QED BY <1>7, <1>11, <1>12, <1>13, <1>15 DEF Heeded, Guarded

(* A push lands; its reply is read, or lost.                               *)
Lands(w, v, m) ==
  /\ v.fresh = w.fresh /\ Alongside(w, v, m) /\ ~w.landed[m] /\ w.stamp <= w.seq[m]
  /\ v.env[m] = w.env[m] /\ v.base[m] = w.base[m]
  /\ v.seq[m] = w.seq[m] /\ v.marks[m] = w.marks[m]
  /\ \/ v.sent[m] = w.sent[m] /\ v.landed[m]
     \/ v.sent[m] = None
  /\ IF w.sent[m] = None THEN v.srv = w.srv /\ v.stamp = w.stamp
     ELSE /\ v.srv = w.sent[m] /\ \A k \in Machines : v.stamp > v.seq[k]
          /\ w.srv # None => w.sent[m].rev > w.srv.rev

LEMMA LandsHeeded ==
  ASSUME NEW w \in Sights, NEW v \in Sights, NEW S, NEW T, NEW m \in Machines,
         Holding(w, S, T), Lands(w, v, m)
  PROVE  Heeded(w, v, T)
<1> DEFINE p == w.sent[m]
           r == w.srv
<1>1. /\ v.fresh = w.fresh /\ ~w.landed[m] /\ w.stamp <= w.seq[m]
      /\ v.env[m] = w.env[m] /\ v.base[m] = w.base[m]
      /\ v.seq[m] = w.seq[m] /\ v.marks[m] = w.marks[m]
      /\ (v.sent[m] = p /\ v.landed[m]) \/ v.sent[m] = None
  BY DEF Lands
<1>2. ASSUME NEW k \in Machines, k # m PROVE Same(w, v, k)
  BY <1>2 DEF Lands, Alongside
<1>3. CASE p = None
  <2>1. v.srv = r /\ v.stamp = w.stamp /\ v.sent[m] = None
    BY <1>1, <1>3 DEF Lands
  <2>2. w.fresh <= v.fresh
    BY <1>1, SightParts
  <2>3. Waits(w, v, m)
    BY <1>1, <2>1, <2>2, <1>2 DEF Waits, Alongside, Sights
  <2> QED BY <2>3, WaitsHeeded
<1>4. CASE p # None
  <2>1. /\ v.srv = p /\ (r # None => p.rev > r.rev)
        /\ \A k \in Machines : v.stamp > v.seq[k]
    BY <1>4 DEF Lands
  <2>2. /\ p \in Maybe /\ r \in Maybe /\ p.rev \in Nat /\ (r # None => r.rev \in Nat)
        /\ None \notin Nat
    BY <1>4, SightParts, MaybeFacts, NoneAssumption
  <2>3. ASSUME NEW k \in Machines
        PROVE  /\ v.env[k] = w.env[k] /\ v.base[k] = w.base[k] /\ v.seq[k] = w.seq[k]
               /\ v.marks[k] = w.marks[k] /\ v.stamp > w.seq[k] /\ ~(v.stamp <= v.seq[k])
               /\ v.seq[k] \in Nat /\ v.stamp \in Nat /\ w.base[k] \in Base
               /\ k # m => v.sent[k] = w.sent[k] /\ v.landed[k] = w.landed[k]
    BY <1>1, <1>2, <2>1, SightParts DEF Same
  (* What m writes over, it has taken up.                                  *)
  <2>4. ASSUME NEW b, Carries(r, b) PROVE b \in T \/ Carries(p, b)
    <3>1. Live(r) /\ r.body = b
      BY <2>4 DEF Carries
    <3> QED BY <1>1, <1>4, <3>1, HoldingParts, StaysSafe DEF Backed
  <2>5. ASSUME NEW k \in Machines PROVE Backed(v, k, T)
    <3>0. Backed(w, k, S) /\ Bounded(w.env[k], r, w.base[k])
      BY HoldingParts
    <3>1. Live(v.env[k]) /\ v.base[k] = v.env[k].rev =>
            v.env[k].body \in T \/ Carries(p, v.env[k].body)
      BY <2>3, <2>4, <3>0, StaysSafe DEF Backed
    <3>2. v.base[k] # None => p.rev > v.base[k]
      BY <2>1, <2>2, <2>3, <3>0 DEF Bounded, Base
    <3>3. Live(v.sent[k]) =>
            \/ v.sent[k].body \in T
            \/ /\ Carries(v.env[k], v.sent[k].body)
               /\ v.landed[k] => Carries(p, v.sent[k].body)
      <4>1. CASE k = m
        BY <1>1, <2>3, <3>0, <4>1, StaysSafe DEF Backed, Live, Carries
      <4>2. CASE k # m
        BY <2>3, <2>4, <3>0, <4>2, StaysSafe DEF Backed
      <4> QED BY <4>1, <4>2
    <3> QED BY <2>1, <2>3, <3>1, <3>2, <3>3 DEF Backed
  <2>6. ASSUME NEW k \in Machines, NEW e \in w.marks[k]
        PROVE  e # None /\ e # p /\ e.rev \in Nat
    <3>1. e \in Envelopes /\ Marked(w, k)
      BY SightParts, HoldingParts
    <3>2. e # None /\ e.rev \in Nat
      BY <3>1, EnvelopeFacts
    <3>3. e # p
      <4>1. CASE k = m
        BY <1>1, <3>1, <4>1 DEF Marked
      <4>2. CASE k # m
        BY <2>1, <2>2, <3>1, <3>2, <4>2 DEF Marked
      <4> QED BY <4>1, <4>2
    <3> QED BY <3>2, <3>3
  <2>7. ASSUME NEW k \in Machines PROVE Marked(v, k)
    <3>1. ASSUME NEW e \in w.marks[k]
          PROVE  /\ e.seal < v.fresh /\ v.env[k] \notin {None, e} /\ v.srv # e
                 /\ ~v.landed[k] => v.sent[k] # e
      <4>1. Marked(w, k)
        BY HoldingParts
      <4> QED BY <1>1, <2>1, <2>3, <2>6, <4>1 DEF Marked
    <3>2. ASSUME NEW e \in w.marks[k], NEW j \in Machines, j # k, e \in {v.env[j], v.sent[j]}
          PROVE  v.srv # None /\ (v.srv = e \/ v.srv.rev > e.rev)
      <4>1. e \in {w.env[j], w.sent[j]}
        BY <1>1, <2>3, <2>6, <3>2
      <4>2. r # None /\ (r = e \/ r.rev > e.rev)
        BY <3>2, <4>1, HoldingParts DEF Marked
      <4> QED BY <1>4, <2>1, <2>2, <2>6, <4>2
    <3> QED BY <2>3, <3>1, <3>2 DEF Marked
  <2>8. AllYoung(v)
    <3>1. ASSUME NEW k \in Machines
          PROVE  Young(p, v.fresh) /\ Young(v.env[k], v.fresh) /\ Young(v.sent[k], v.fresh)
      <4>1. Young(p, w.fresh) /\ Young(w.env[k], w.fresh) /\ Young(w.sent[k], w.fresh)
        BY HoldingParts
      <4> QED BY <1>1, <2>3, <4>1 DEF Young, Live
    <3> QED BY <2>1, <3>1 DEF AllYoung
  <2>9. ASSUME NEW b \in Nat, Shown(w, b) PROVE b \in T \/ Shown(v, b)
    BY <2>1, <2>3, <2>4, <2>9 DEF Shown
  <2> QED BY <2>5, <2>7, <2>8, <2>9 DEF Heeded, Guarded
<1> QED BY <1>3, <1>4

(* A push is confirmed: what was accepted is there, or was and the machine *)
(* has not read what followed; and nothing came between.                   *)
Learns(w, v, m) ==
  /\ v.srv = w.srv /\ v.stamp = w.stamp /\ v.fresh = w.fresh /\ Alongside(w, v, m)
  /\ v.env[m] = w.env[m] /\ v.marks[m] = w.marks[m] /\ v.sent[m] = None
  /\ w.landed[m] /\ v.seq[m] >= w.seq[m]
  /\ IF w.sent[m] = None
     THEN v.base[m] = w.base[m] /\ (v.stamp <= w.seq[m] \/ v.stamp > v.seq[m])
     ELSE /\ v.base[m] = w.sent[m].rev
          /\ \/ w.srv = w.sent[m] /\ v.stamp <= v.seq[m]
             \/ w.srv.rev > w.sent[m].rev /\ v.stamp > v.seq[m]
          /\ w.env[m] = w.sent[m] \/ w.env[m].rev > w.sent[m].rev

LEMMA LearnsHeeded ==
  ASSUME NEW w \in Sights, NEW v \in Sights, NEW S, NEW T, NEW m \in Machines,
         Holding(w, S, T), Learns(w, v, m)
  PROVE  Heeded(w, v, T)
<1> DEFINE p == w.sent[m]
           r == w.srv
           l == w.env[m]
<1>1. /\ v.srv = r /\ v.stamp = w.stamp /\ v.fresh = w.fresh
      /\ v.env[m] = l /\ v.marks[m] = w.marks[m] /\ v.sent[m] = None
      /\ w.landed[m] /\ v.seq[m] >= w.seq[m]
      /\ v.fresh \in Nat /\ v.fresh >= w.fresh
      /\ v.stamp \in Nat /\ v.seq[m] \in Nat /\ w.seq[m] \in Nat
  BY SightParts DEF Learns
<1>2. ASSUME NEW k \in Machines, k # m PROVE Same(w, v, k)
  BY <1>2 DEF Learns, Alongside
<1>3. ASSUME NEW k \in Machines, NEW e \in w.marks[k] PROVE e # None
  BY EnvelopeFacts, SightParts
<1>4. ASSUME NEW k \in Machines, k # m PROVE Backed(v, k, T) /\ Marked(v, k)
  <2>1. ASSUME NEW j \in Machines, NEW e \in {v.env[j], v.sent[j]} \cap w.marks[k]
        PROVE  e \in {w.env[j], w.sent[j], w.srv}
    BY <1>1, <1>2, <1>3 DEF Same
  <2>2. Same(w, v, k)
    BY <1>2, <1>4
  <2> QED BY <1>1, <1>4, <2>1, <2>2, Untouched
<1>5. Backed(v, m, T)
  <2>0. Backed(w, m, S)
    BY HoldingParts
  <2>1. CASE p = None
    <3>1. v.base[m] = w.base[m] /\ (v.stamp <= v.seq[m] <=> v.stamp <= w.seq[m])
      BY <1>1, <2>1 DEF Learns
    <3> QED BY <1>1, <2>0, <3>1, StaysSafe DEF Backed, Live
  <2>2. CASE p # None
    <3>1. /\ v.base[m] = p.rev
          /\ \/ r = p /\ v.stamp <= v.seq[m]
             \/ r.rev > p.rev /\ ~(v.stamp <= v.seq[m])
          /\ l = p \/ l.rev > p.rev
      BY <1>1, <2>2 DEF Learns
    <3>2. p.rev \in Nat /\ (l # None => l.rev \in Nat)
      BY <2>2, SightParts, MaybeFacts
    <3>3. Live(p) => p.body \in T \/ (Carries(l, p.body) /\ Carries(r, p.body))
      BY <1>1, <2>0, StaysSafe DEF Backed
    <3>4. Live(r) /\ v.stamp <= v.seq[m] => r.body \in T \/ Carries(l, r.body)
      BY <3>1, <3>3
    <3>5. Live(l) /\ v.base[m] = l.rev => l.body \in T \/ Carries(r, l.body)
      BY <3>1, <3>2, <3>3 DEF Live
    <3> QED BY <1>1, <3>1, <3>4, <3>5 DEF Backed, Live
  <2> QED BY <2>1, <2>2
<1>6. Marked(v, m)
  <2>1. Marked(w, m)
    BY HoldingParts
  <2>2. w.stamp <= w.seq[m] => v.stamp <= v.seq[m]
    BY <1>1
  <2> QED BY <1>1, <1>2, <1>3, <2>1, <2>2 DEF Marked, Same
<1>7. AllYoung(v)
  <2>1. ASSUME NEW k \in Machines
        PROVE  Young(r, w.fresh) /\ Young(w.env[k], w.fresh) /\ Young(w.sent[k], w.fresh)
    BY HoldingParts
  <2> QED BY <1>1, <1>2, <2>1 DEF AllYoung, Same, Young, Live
<1>8. \A b : Shown(w, b) => Shown(v, b)
  BY <1>1, <1>2 DEF Shown, Same
<1> QED BY <1>4, <1>5, <1>6, <1>7, <1>8 DEF Heeded, Guarded

-----------------------------------------------------------------------------
(***************************************************************************)
(* From one record to all of them.                                         *)
(***************************************************************************)
(* What a step of m makes of a record; O is what is owed after it.         *)
Tends(w, v, m, T, O) ==
  \/ Waits(w, v, m) \/ Sprouts(w, v, m) \/ Lands(w, v, m) \/ Learns(w, v, m)
  \/ \E e \in Maybe : Settles(w, v, m, e, T)
  \/ Pens(w, v, m, T) /\ \A b \in O : Whole(w, b) => Whole(v, b)

LEMMA TendsHeeded ==
  ASSUME NEW w \in Sights, NEW v \in Sights, NEW S, NEW T, NEW O, NEW m \in Machines,
         Holding(w, S, T), Tends(w, v, m, T, O)
  PROVE  Heeded(w, v, T)
<1>1. CASE Waits(w, v, m)
  BY <1>1, WaitsHeeded
<1>2. CASE Sprouts(w, v, m)
  BY <1>2, SproutsHeeded
<1>3. CASE Lands(w, v, m)
  BY <1>3, LandsHeeded
<1>4. CASE Learns(w, v, m)
  BY <1>4, LearnsHeeded
<1>5. ASSUME NEW e \in Maybe, Settles(w, v, m, e, T) PROVE Heeded(w, v, T)
  BY <1>5, SettlesHeeded
<1>6. CASE Pens(w, v, m, T)
  BY <1>6, PensHeeded
<1> QED BY <1>1, <1>2, <1>3, <1>4, <1>5, <1>6 DEF Tends

(* A record that carries b wherever it is goes on doing so.                *)
LEMMA WholeFrom ==
  ASSUME NEW w \in Sights, NEW v \in Sights, NEW m \in Machines, NEW b, Whole(w, b),
         Alongside(w, v, m),
         v.srv = None \/ Carries(v.srv, b),
         v.env[m] = None \/ Carries(v.env[m], b),
         v.sent[m] = None \/ Carries(v.sent[m], b),
         w.env[m] # None => v.env[m] # None
  PROVE  Whole(v, b)
<1>1. ASSUME NEW k \in Machines
      PROVE  /\ v.env[k] = None \/ Carries(v.env[k], b)
             /\ v.sent[k] = None \/ Carries(v.sent[k], b)
             /\ w.env[k] # None => v.env[k] # None
  BY DEF Whole, Alongside, Same
<1> QED BY <1>1 DEF Whole

LEMMA WholeStays ==
  ASSUME NEW w \in Sights, NEW v \in Sights, NEW T, NEW O, NEW m \in Machines,
         Tends(w, v, m, T, O), NEW b \in O, Whole(w, b)
  PROVE  Whole(v, b)
<1>0. /\ w.srv = None \/ Carries(w.srv, b)
      /\ w.env[m] = None \/ Carries(w.env[m], b)
      /\ w.sent[m] = None \/ Carries(w.sent[m], b)
      /\ \E k \in Machines : w.env[k] # None
  BY DEF Whole
<1>1. CASE Waits(w, v, m)
  BY <1>0, <1>1, WholeFrom DEF Waits
<1>2. CASE Sprouts(w, v, m)
  BY <1>0, <1>2 DEF Sprouts
<1>3. CASE Lands(w, v, m)
  <2>1. v.srv = None \/ Carries(v.srv, b)
    BY <1>0, <1>3 DEF Lands
  <2> QED BY <1>0, <1>3, <2>1, WholeFrom DEF Lands
<1>4. CASE Learns(w, v, m)
  BY <1>0, <1>4, WholeFrom DEF Learns
<1>5. ASSUME NEW e \in Maybe, Settles(w, v, m, e, T) PROVE Whole(v, b)
  <2>1. /\ v.srv = w.srv /\ Alongside(w, v, m) /\ v.sent[m] \in {None, v.env[m]}
        /\ SettlesAs(w, v, m, e)
    BY <1>5 DEF Settles
  <2>2. v.env[m] = None \/ Carries(v.env[m], b)
    BY <1>0, <2>1, SightParts, MaybeFacts DEF SettlesAs, Carries, Live
  <2>3. w.env[m] # None => v.env[m] # None
    BY <2>1 DEF SettlesAs
  <2> QED BY <1>0, <2>1, <2>2, <2>3, WholeFrom
<1>6. CASE Pens(w, v, m, T) /\ \A c \in O : Whole(w, c) => Whole(v, c)
  BY <1>6
<1> QED BY <1>1, <1>2, <1>3, <1>4, <1>5, <1>6 DEF Tends

(* When every record is seen to, so is everything that is owed.            *)
LEMMA StillSafekept ==
  ASSUME TypeOK, TypeOK', Coherent, Safekeeping, Unlocked', NEW m \in Machines,
         \A i \in Ids : Tends(Sight(i), Sight(i)', m, Safe', owed'),
         owed' \subseteq owed \cup {fresh},
         fresh \in owed' => fresh' > fresh /\ \E i \in Ids : Shown(Sight(i)', fresh)
  PROVE  Safekeeping'
<1>1. fresh \in Nat /\ fresh' \in Nat /\ owed \subseteq Nat /\ owed' \subseteq Nat
  BY DEF TypeOK
<1>2. ASSUME NEW i \in Ids
      PROVE  /\ Sight(i) \in Sights /\ Sight(i)' \in Sights /\ Sound(Sight(i))
             /\ Guarded(Sight(i), Safe) /\ Sight(i).fresh = fresh
             /\ Sight(i)'.fresh = fresh'
             /\ Tends(Sight(i), Sight(i)', m, Safe', owed')
  <2>1. Sight(i) \in Sights /\ Sight(i)' \in Sights /\ Sound(Sight(i))
    BY SightType, SightTypeNext, CoherentSound
  <2>2. Sight(i).fresh = fresh /\ Sight(i)'.fresh = fresh'
    BY DEF Sight
  <2> QED BY <2>1, <2>2 DEF Safekeeping
<1> HIDE DEF Sight
<1>3. ASSUME NEW b \in owed', NEW j \in Ids, Whole(Sight(j), b) PROVE Whole(Sight(j)', b)
  <2>1. Sight(j) \in Sights /\ Sight(j)' \in Sights /\ Tends(Sight(j), Sight(j)', m, Safe', owed')
    BY <1>2
  <2> QED BY ONLY <1>3, <2>1, WholeStays, m \in Machines
<1>4. ASSUME NEW b \in Safe, b < fresh PROVE b \in Safe'
  <2>1. b \in Nat
    BY DEF Safe
  <2>2. CASE b \notin owed
    <3>1. b \notin owed'
      BY <1>1, <1>4, <2>1, <2>2
    <3> QED BY <2>1, <3>1 DEF Safe
  <2>3. CASE b \in owed /\ b \in owed'
    <3>1. PICK j \in Ids : Whole(Sight(j), b)
      BY <2>3 DEF Safe, Saved
    <3>2. Whole(Sight(j)', b)
      BY <1>3, <2>3, <3>1
    <3>3. Saved(b)'
      BY <3>2 DEF Saved
    <3> QED BY <2>1, <3>3 DEF Safe
  <2>4. CASE b \notin owed'
    BY <2>1, <2>4 DEF Safe
  <2> QED BY <2>2, <2>3, <2>4
<1>5. ASSUME NEW i \in Ids PROVE Heeded(Sight(i), Sight(i)', Safe')
  <2>1. Holding(Sight(i), Safe, Safe')
    BY <1>2, <1>4 DEF Holding
  <2> QED BY <1>2, <2>1, TendsHeeded
<1>6. ASSUME NEW i \in Ids PROVE Guarded(Sight(i), Safe)'
  BY <1>5 DEF Heeded
<1>7. ASSUME NEW b \in owed'
      PROVE  b < fresh' /\ \E i \in Ids : Shown(Sight(i)', b)
  <2>1. CASE b = fresh
    BY <1>7, <2>1
  <2>2. CASE b \in owed
    <3>1. b < fresh
      BY <2>2 DEF Safekeeping
    <3>2. fresh' >= fresh
      <4>1. ASSUME NEW i \in Ids PROVE Sight(i)'.fresh >= Sight(i).fresh
        BY <1>1, <1>2 DEF Tends, Waits, Sprouts, Lands, Learns, Settles, Pens
      <4>2. PICK i \in Ids : Shown(Sight(i), b)
        BY <2>2 DEF Safekeeping
      <4> QED BY <1>2, <4>1, <4>2
    <3>3. PICK i \in Ids : Shown(Sight(i), b)
      BY <2>2 DEF Safekeeping
    <3>4. b \in Safe' \/ Shown(Sight(i)', b)
      BY <1>1, <1>5, <2>2, <3>3 DEF Heeded
    <3>5. CASE b \in Safe'
      <4>1. PICK j \in Ids : Whole(Sight(j)', b)
        BY <1>7, <3>5 DEF Safe, Saved
      <4>2. Shown(Sight(j)', b)
        BY <4>1 DEF Whole, Shown
      <4> QED BY <1>1, <3>1, <3>2, <4>2
    <3> QED BY <1>1, <3>1, <3>2, <3>4, <3>5
  <2> QED BY <2>1, <2>2
<1> QED BY <1>6, <1>7 DEF Safekeeping

-----------------------------------------------------------------------------
(***************************************************************************)
(* Each step of a machine, record by record.                               *)
(***************************************************************************)
LEMMA BesideSights ==
  ASSUME NEW m \in Machines, Beside(m), NEW i \in Ids
  PROVE  Alongside(Sight(i), Sight(i)', m)
BY DEF Beside, Alongside, Same, Sight, InFlight

(* A sight's fields, before and after.                                     *)
LEMMA SightFields ==
  ASSUME NEW k \in Machines, NEW i \in Ids
  PROVE  /\ Sight(i).srv = srv.recs[i] /\ Sight(i).fresh = fresh
         /\ Sight(i).stamp = srv.stamp[i] /\ Sight(i).seq[k] = state[k].seq
         /\ Sight(i).env[k] = vault[k].env[i] /\ Sight(i).base[k] = state[k].synced[i]
         /\ Sight(i).sent[k] = InFlight(k, i) /\ Sight(i).landed[k] = (pc[k] = "verify")
         /\ Sight(i)'.srv = srv'.recs[i] /\ Sight(i)'.fresh = fresh'
         /\ Sight(i)'.stamp = srv'.stamp[i] /\ Sight(i)'.seq[k] = state'[k].seq
         /\ Sight(i)'.env[k] = vault'[k].env[i] /\ Sight(i)'.base[k] = state'[k].synced[i]
         /\ Sight(i)'.sent[k] = InFlight(k, i)' /\ Sight(i)'.landed[k] = (pc'[k] = "verify")
BY DEF Sight

LEMMA SightMarks ==
  ASSUME NEW k \in Machines, NEW i \in Ids
  PROVE  /\ Sight(i).marks[k] =
              {e \in Envelopes : [id |-> i, env |-> e] \in vault[k].marks}
         /\ Sight(i)'.marks[k] =
              {e \in Envelopes : [id |-> i, env |-> e] \in vault'[k].marks}
BY DEF Sight

(* Steps that change no record, and give up at most a request.             *)
Rests(m) ==
  /\ UNCHANGED <<srv, vault, state, fresh, owed>> /\ Beside(m)
  /\ \/ pc'[m] = pc[m] /\ job'[m] = job[m]
     \/ pc'[m] \notin Pushes \cup {"verify"}

LEMMA RestsSafekept ==
  ASSUME TypeOK, TypeOK', Coherent, Safekeeping, NEW m \in Machines, Rests(m)
  PROVE  Safekeeping'
<1>1. /\ UNCHANGED <<srv, vault, state, fresh, owed>> /\ Beside(m)
      /\ \/ pc'[m] = pc[m] /\ job'[m] = job[m]
         \/ pc'[m] \notin Pushes \cup {"verify"}
  BY DEF Rests
<1>2. ASSUME NEW i \in Ids PROVE Tends(Sight(i), Sight(i)', m, Safe', owed')
  <2>1. Alongside(Sight(i), Sight(i)', m)
    BY <1>1, BesideSights
  <2>2. \/ InFlight(m, i)' = InFlight(m, i) /\ (pc'[m] = "verify") = (pc[m] = "verify")
        \/ InFlight(m, i)' = None
    BY <1>1 DEF InFlight
  <2>3. /\ Sight(i)'.srv = Sight(i).srv /\ Sight(i)'.stamp = Sight(i).stamp
        /\ Sight(i)'.fresh = Sight(i).fresh
        /\ Sight(i)'.env[m] = Sight(i).env[m] /\ Sight(i)'.base[m] = Sight(i).base[m]
        /\ Sight(i)'.seq[m] = Sight(i).seq[m] /\ Sight(i)'.marks[m] = Sight(i).marks[m]
    BY <1>1 DEF Sight
  <2> HIDE DEF InFlight
  <2>4. \/ /\ Sight(i)'.sent[m] = Sight(i).sent[m]
           /\ Sight(i)'.landed[m] = Sight(i).landed[m]
        \/ Sight(i)'.sent[m] = None
    BY <2>2, SightFields
  <2>5. Sight(i)'.fresh >= Sight(i).fresh
    <3>1. Sight(i)'.fresh = fresh /\ fresh \in Nat /\ Sight(i).fresh = fresh
      BY <1>1 DEF Sight, TypeOK
    <3> HIDE DEF Sight
    <3> QED BY <3>1
  <2> HIDE DEF Sight
  <2> QED BY <2>1, <2>3, <2>4, <2>5 DEF Waits, Tends
<1>3. Unlocked' /\ owed' \subseteq owed \cup {fresh} /\ fresh \notin owed'
  <2>1. Unlocked'
    BY <1>1 DEF Safekeeping, Unlocked
  <2>2. fresh \notin owed
    BY DEF Safekeeping, TypeOK
  <2> QED BY <1>1, <2>1, <2>2
<1> QED BY <1>2, <1>3, StillSafekept

LEMMA RestingSteps ==
  ASSUME TypeOK, Coherent, NEW m \in Machines,
         \/ Start(m) \/ PushRetried(m) \/ PushGivenUp(m) \/ VerifyRefused(m)
         \/ SaveVault(m) \/ SaveState(m) \/ SettingsWrite(m) \/ LoseRequest(m)
  PROVE  Rests(m)
<1>1. ASSUME UNCHANGED <<srv, vault, state, fresh, owed>>,
             job' = job \/ job' = [job EXCEPT ![m] = NoJob],
             \/ pc' = pc /\ job' = job
             \/ \E w \in {"idle", "pull", "pull409", "pull422", "saveState"} :
                     pc' = [pc EXCEPT ![m] = w]
      PROVE  Rests(m)
  <2>1. Beside(m)
    BY <1>1 DEF Beside, TypeOK
  <2>2. (pc' = pc /\ job' = job) \/ pc'[m] \notin Pushes \cup {"verify"}
    BY <1>1 DEF TypeOK, Pushes
  <2> QED BY <1>1, <2>1, <2>2 DEF Rests
<1>2. ASSUME GiveUp(m, vault[m]), srv' = srv PROVE Rests(m)
  <2>1. /\ vault' = vault /\ UNCHANGED <<srv, state, fresh, owed>>
        /\ pc' = [pc EXCEPT ![m] = "idle"] /\ job' = [job EXCEPT ![m] = NoJob]
    BY <1>2 DEF GiveUp, TypeOK
  <2> QED BY <1>1, <2>1
<1>3. CASE Start(m) \/ PushRetried(m) \/ SaveVault(m) \/ SaveState(m) \/ SettingsWrite(m)
  BY <1>1, <1>3 DEF Start, PushRetried, SaveVault, SaveState, SettingsWrite
<1>4. CASE PushGivenUp(m) \/ LoseRequest(m)
  BY <1>2, <1>4 DEF PushGivenUp, LoseRequest
<1>5. ~VerifyRefused(m)
  BY AcceptedServed, MachineTypes DEF VerifyRefused
<1> QED BY <1>3, <1>4, <1>5

(* A push that lands, whether or not its author hears of it.               *)
LEMMA LandedSafekept ==
  ASSUME TypeOK, TypeOK', Coherent, Safekeeping, NEW m \in Machines,
         LandedStep(m), owed' = owed
  PROVE  Safekeeping'
<1>1. /\ pc[m] \in Pushes /\ srv' = Applied(srv, job[m].push)
      /\ UNCHANGED <<vault, state, fresh>>
      /\ \/ job'[m].push = job[m].push /\ pc'[m] = "verify"
         \/ pc'[m] = "idle"
  BY DEF LandedStep, TypeOK, Job
<1>2. Beside(m)
  BY <1>1 DEF LandedStep, Beside, TypeOK
<1>3. Newer(srv, job[m].push) /\ state[m].seq = srv.seq
  BY NeverBackward DEF LandedStep
<1>4. ASSUME NEW i \in Ids PROVE Tends(Sight(i), Sight(i)', m, Safe', owed')
  <2> DEFINE p == job[m].push[i]
             s == InFlight(m, i)'
  <2>1. Alongside(Sight(i), Sight(i)', m)
    BY <1>2, BesideSights
  <2>2. /\ InFlight(m, i) = p /\ pc[m] # "verify"
        /\ (s = p /\ pc'[m] = "verify") \/ s = None
    BY <1>1 DEF InFlight, Pushes
  <2>3. /\ srv'.recs[i] = IF p # None THEN p ELSE srv.recs[i]
        /\ srv'.stamp[i] = IF p # None THEN srv.seq + 1 ELSE srv.stamp[i]
        /\ p # None /\ srv.recs[i] # None => p.rev > srv.recs[i].rev
    BY <1>1, <1>3 DEF Applied, Newer
  <2>4. ASSUME NEW k \in Machines PROVE srv.seq + 1 > state'[k].seq
    <3>1. state[k].seq <= srv.seq /\ state[k].seq \in Nat /\ srv.seq \in Nat
      BY MachineTypes DEF Coherent, Numbered
    <3> QED BY <1>1, <3>1
  <2>5. srv.stamp[i] <= state[m].seq
    BY <1>3 DEF Coherent, Stamps
  <2>6. /\ Sight(i)'.fresh = Sight(i).fresh
        /\ Sight(i)'.env[m] = Sight(i).env[m] /\ Sight(i)'.base[m] = Sight(i).base[m]
        /\ Sight(i)'.seq[m] = Sight(i).seq[m] /\ Sight(i)'.marks[m] = Sight(i).marks[m]
    BY <1>1 DEF Sight
  <2> HIDE DEF InFlight, p, s
  <2>7. /\ Sight(i).sent[m] = p /\ ~Sight(i).landed[m]
        /\ \/ Sight(i)'.sent[m] = p /\ Sight(i)'.landed[m]
           \/ Sight(i)'.sent[m] = None
        /\ Sight(i).stamp <= Sight(i).seq[m]
        /\ Sight(i).srv = srv.recs[i] /\ Sight(i)'.srv = srv'.recs[i]
        /\ Sight(i).stamp = srv.stamp[i] /\ Sight(i)'.stamp = srv'.stamp[i]
    BY <2>2, <2>5, SightFields DEF s
  <2>8. ASSUME p # None, NEW k \in Machines PROVE Sight(i)'.stamp > Sight(i)'.seq[k]
    BY <2>3, <2>4, <2>7, <2>8, SightFields
  <2> HIDE DEF Sight
  <2>9. Lands(Sight(i), Sight(i)', m)
    BY <2>1, <2>3, <2>6, <2>7, <2>8 DEF Lands
  <2> QED BY <2>9 DEF Tends
<1>5. Unlocked' /\ owed' \subseteq owed \cup {fresh} /\ fresh \notin owed'
  <2>1. Unlocked'
    BY <1>1 DEF Safekeeping, Unlocked
  <2>2. fresh \notin owed
    BY DEF Safekeeping, TypeOK
  <2> QED BY <2>1, <2>2
<1> QED BY <1>4, <1>5, StillSafekept

LEMMA ConfirmedSafekept ==
  ASSUME TypeOK, TypeOK', Coherent, Safekeeping, NEW m \in Machines, VerifyConfirmed(m)
  PROVE  Safekeeping'
<1>1. /\ pc[m] = "verify" /\ UNCHANGED <<srv, vault, fresh, owed>> /\ pc'[m] = "saveVault"
      /\ \A k \in Machines : k # m =>
           state'[k] = state[k] /\ job'[k] = job[k] /\ pc'[k] = pc[k]
  BY DEF VerifyConfirmed, TypeOK
<1>2. state'[m].seq = job[m].seq /\ state'[m].synced = ConfirmPushed(state[m].synced, job[m].push)
  <2> DEFINE st == [seq |-> job[m].seq, highest |-> Higher(state[m].highest, job[m].seq),
                    synced |-> ConfirmPushed(state[m].synced, job[m].push)]
  <2>1. state'[m] = st
    BY DEF VerifyConfirmed, TypeOK
  <2> QED BY <2>1
<1>3. Beside(m)
  BY <1>1 DEF Beside
<1>4. /\ Accepted(srv, job[m].push, job[m].seq, state[m].seq)
      /\ SentFrom(vault[m].env, job[m].push)
  BY <1>1 DEF Coherent, InMemory
<1>5. ASSUME NEW i \in Ids PROVE Tends(Sight(i), Sight(i)', m, Safe', owed')
  <2> DEFINE p == job[m].push[i]
  <2>1. Alongside(Sight(i), Sight(i)', m)
    BY <1>3, BesideSights
  <2>2. InFlight(m, i) = p /\ InFlight(m, i)' = None
    BY <1>1 DEF InFlight, Pushes
  <2>3. state'[m].synced[i] = IF p # None THEN p.rev ELSE state[m].synced[i]
    <3>1. DOMAIN state[m].synced = Ids
      BY MachineTypes DEF State
    <3> QED BY <1>2, <3>1 DEF ConfirmPushed
  <2>4. /\ state'[m].seq >= state[m].seq
        /\ p # None =>
             /\ \/ srv.recs[i] = p /\ srv.stamp[i] <= state'[m].seq
                \/ srv.recs[i].rev > p.rev /\ srv.stamp[i] > state'[m].seq
             /\ vault[m].env[i] = p \/ vault[m].env[i].rev > p.rev
        /\ p = None => srv.stamp[i] <= state[m].seq \/ srv.stamp[i] > state'[m].seq
    <3>1. job[m].seq \in Nat /\ state[m].seq \in Nat
      BY MachineTypes
    <3> QED BY <1>2, <1>4, <3>1 DEF Accepted, AcceptedAt, SentFrom, Outranks
  <2>5. /\ Sight(i)'.srv = Sight(i).srv /\ Sight(i)'.stamp = Sight(i).stamp
        /\ Sight(i)'.fresh = Sight(i).fresh
        /\ Sight(i)'.env[m] = Sight(i).env[m] /\ Sight(i)'.marks[m] = Sight(i).marks[m]
    BY <1>1 DEF Sight
  <2> HIDE DEF InFlight, p
  <2>6. /\ Sight(i).sent[m] = p /\ Sight(i)'.sent[m] = None /\ Sight(i).landed[m]
        /\ Sight(i).srv = srv.recs[i] /\ Sight(i).env[m] = vault[m].env[i]
        /\ Sight(i).stamp = srv.stamp[i]
        /\ Sight(i).seq[m] = state[m].seq /\ Sight(i)'.seq[m] = state'[m].seq
        /\ Sight(i).base[m] = state[m].synced[i] /\ Sight(i)'.base[m] = state'[m].synced[i]
    BY <1>1, <2>2, SightFields
  <2> HIDE DEF Sight
  <2>7. Learns(Sight(i), Sight(i)', m)
    BY <2>1, <2>3, <2>4, <2>5, <2>6 DEF Learns
  <2> QED BY <2>7 DEF Tends
<1>6. Unlocked' /\ owed' \subseteq owed \cup {fresh} /\ fresh \notin owed'
  <2>1. Unlocked'
    BY <1>1 DEF Safekeeping, Unlocked
  <2>2. fresh \notin owed
    BY DEF Safekeeping, TypeOK
  <2> QED BY <1>1, <2>1, <2>2
<1> QED BY <1>5, <1>6, StillSafekept

-----------------------------------------------------------------------------
(***************************************************************************)
(* A person writes one record.                                             *)
(***************************************************************************)
(* What anybody still owes of what it said, it goes on saying.             *)
Penned(m, i, v) ==
  LET l == vault[m].env[i]
      y == v.env[i]
  IN  /\ srv' = srv /\ state' = state /\ pc' = pc /\ job' = job /\ fresh' = fresh + 1
      /\ vault' = [vault EXCEPT ![m] = v]
      /\ v.parked = vault[m].parked /\ v.marks = vault[m].marks
      /\ v.locked = vault[m].locked
      /\ \A j \in Ids : j # i => v.env[j] = vault[m].env[j]
      /\ y # None /\ y.seal = fresh /\ Young(y, fresh + 1)
      /\ IF l = None THEN \A k \in Machines : vault[k].env[i] = None ELSE y.rev > l.rev
      /\ owed' \subseteq owed \cup {fresh} /\ (fresh \in owed' => Carries(y, fresh))
      /\ \A b \in owed' : Carries(l, b) => Carries(y, b)

LEMMA PennedSafekept ==
  ASSUME TypeOK, TypeOK', Coherent, Safekeeping, NEW m \in Machines, NEW i \in Ids,
         NEW v \in Vault, Penned(m, i, v)
  PROVE  Safekeeping'
<1>1. /\ srv' = srv /\ state' = state /\ pc' = pc /\ job' = job /\ fresh' = fresh + 1
      /\ vault'[m] = v /\ Beside(m) /\ fresh' > fresh /\ fresh' >= fresh
      /\ v.parked = vault[m].parked /\ v.marks = vault[m].marks
      /\ v.locked = vault[m].locked
  BY DEF Penned, Beside, TypeOK
<1>2. Unlocked'
  <2>1. ASSUME NEW k \in Machines
        PROVE  vault'[k].locked = vault[k].locked /\ vault'[k].parked = vault[k].parked
    BY <1>1 DEF Beside
  <2> QED BY <2>1 DEF Safekeeping, Unlocked
<1>3. ASSUME NEW j \in Ids
      PROVE  /\ Alongside(Sight(j), Sight(j)', m)
             /\ Sight(j)'.srv = Sight(j).srv /\ Sight(j)'.stamp = Sight(j).stamp
             /\ Sight(j)'.base[m] = Sight(j).base[m] /\ Sight(j)'.seq[m] = Sight(j).seq[m]
             /\ Sight(j)'.marks[m] = Sight(j).marks[m]
             /\ Sight(j)'.sent[m] = Sight(j).sent[m]
             /\ Sight(j)'.landed[m] = Sight(j).landed[m]
             /\ Sight(j).env[m] = vault[m].env[j] /\ Sight(j)'.env[m] = v.env[j]
             /\ Sight(j).fresh = fresh /\ Sight(j)'.fresh = fresh'
             /\ Sight(j) \in Sights /\ Sight(j)' \in Sights
             /\ \A k \in Machines : Sight(j).env[k] = vault[k].env[j]
  <2>1. Alongside(Sight(j), Sight(j)', m)
    BY <1>1, BesideSights
  <2>2. InFlight(m, j)' = InFlight(m, j) /\ (pc'[m] = "verify") = (pc[m] = "verify")
    BY <1>1 DEF InFlight
  <2>3. /\ Sight(j)'.base[m] = Sight(j).base[m] /\ Sight(j)'.seq[m] = Sight(j).seq[m]
        /\ Sight(j)'.marks[m] = Sight(j).marks[m]
    BY <1>1 DEF Sight
  <2>4. Sight(j) \in Sights /\ Sight(j)' \in Sights
    BY SightType, SightTypeNext
  <2> HIDE DEF InFlight
  <2>5. /\ Sight(j)'.srv = Sight(j).srv /\ Sight(j)'.stamp = Sight(j).stamp
        /\ Sight(j)'.sent[m] = Sight(j).sent[m] /\ Sight(j)'.landed[m] = Sight(j).landed[m]
        /\ Sight(j).env[m] = vault[m].env[j] /\ Sight(j)'.env[m] = v.env[j]
        /\ Sight(j).fresh = fresh /\ Sight(j)'.fresh = fresh'
        /\ \A k \in Machines : Sight(j).env[k] = vault[k].env[j]
    BY <1>1, <2>2, SightFields
  <2> QED BY <2>1, <2>3, <2>4, <2>5
<1> HIDE DEF Sight
<1>4. ASSUME NEW j \in Ids, j # i PROVE Tends(Sight(j), Sight(j)', m, Safe', owed')
  <2>1. v.env[j] = vault[m].env[j]
    BY <1>4 DEF Penned
  <2> QED BY <1>1, <1>3, <2>1 DEF Waits, Tends
<1>5. Tends(Sight(i), Sight(i)', m, Safe', owed')
  <2> DEFINE w == Sight(i)
             u == Sight(i)'
  <2>1. /\ u.env[m] # None /\ u.env[m].seal = w.fresh /\ Young(u.env[m], u.fresh)
        /\ IF w.env[m] = None THEN \A k \in Machines : w.env[k] = None
                              ELSE u.env[m].rev > w.env[m].rev
        /\ \A b \in owed' : Carries(w.env[m], b) => Carries(u.env[m], b)
    BY <1>1, <1>3 DEF Penned
  <2>2. ASSUME NEW b \in Nat, Carries(w.env[m], b) PROVE Carries(u.env[m], b) \/ b \in Safe'
    BY <2>1, <2>2 DEF Safe
  <2>3. Pens(w, u, m, Safe')
    BY <1>1, <1>3, <2>1, <2>2 DEF Pens
  <2>4. ASSUME NEW b \in owed', Whole(w, b) PROVE Whole(u, b)
    <3>1. w \in Sights /\ u \in Sights /\ Alongside(w, u, m)
      BY <1>3
    <3>2. /\ u.srv = None \/ Carries(u.srv, b)
          /\ u.sent[m] = None \/ Carries(u.sent[m], b)
          /\ Carries(w.env[m], b) /\ w.env[m] # None
      BY <1>3, <2>1, <2>4 DEF Whole
    <3> HIDE DEF w, u
    <3> QED BY <2>1, <2>4, <3>1, <3>2, WholeFrom
  <2> QED BY <2>3, <2>4 DEF Tends
<1>6. /\ owed' \subseteq owed \cup {fresh}
      /\ fresh \in owed' => fresh' > fresh /\ \E j \in Ids : Shown(Sight(j)', fresh)
  <2>1. owed' \subseteq owed \cup {fresh} /\ (fresh \in owed' => Carries(v.env[i], fresh))
    BY DEF Penned
  <2>2. Carries(v.env[i], fresh) => Shown(Sight(i)', fresh)
    BY <1>3 DEF Shown
  <2> QED BY <1>1, <2>1, <2>2
<1>7. \A j \in Ids : Tends(Sight(j), Sight(j)', m, Safe', owed')
  BY <1>4, <1>5
<1> QED BY <1>2, <1>6, <1>7, StillSafekept

(* What a person seals.                                                    *)
Anew(e, rev, body) ==
  /\ e \in Envelopes /\ e.seal = fresh /\ e.rev = rev /\ e.body = body /\ e # None
  /\ Young(e, fresh + 1)

LEMMA SealedLive ==
  ASSUME TypeOK, NEW rev \in Nat \ {0}, NEW body \in Nat, body < fresh + 1
  PROVE  Anew(Sealed(rev, body, FALSE), rev, body) /\ Carries(Sealed(rev, body, FALSE), body)
<1> DEFINE e == Sealed(rev, body, FALSE)
<1>1. e \in Envelopes
  BY SealedType
<1>2. e.seal = fresh /\ e.rev = rev /\ e.body = body /\ e.deleted = FALSE
  BY DEF Sealed
<1> HIDE DEF e
<1> QED BY <1>1, <1>2, EnvelopeFacts DEF Anew, Young, Carries, Live, e

LEMMA SealedDead ==
  ASSUME TypeOK, NEW rev \in Nat \ {0}
  PROVE  Anew(Sealed(rev, 0, TRUE), rev, 0)
<1> DEFINE e == Sealed(rev, 0, TRUE)
<1>1. e \in Envelopes
  BY SealedType
<1>2. e.seal = fresh /\ e.rev = rev /\ e.body = 0 /\ e.deleted = TRUE
  BY DEF Sealed
<1> HIDE DEF e
<1> QED BY <1>1, <1>2, EnvelopeFacts DEF Anew, Young, Live, e

LEMMA UserPens ==
  ASSUME TypeOK, Unminted, Safekeeping, NEW m \in Machines, UserStep(m)
  PROVE  \E v \in Vault, i \in Ids : Penned(m, i, v)
<1>1. /\ vault[m] \in Vault /\ vault[m].env \in EnvMap /\ fresh \in Nat
      /\ minted \in Nat /\ Ids \subseteq Nat /\ fresh \notin owed /\ owed \subseteq Nat
  BY MachineParts, VaultParts, IdsAssumption DEF TypeOK, Safekeeping
<1>2. ASSUME NEW i \in Ids PROVE Young(vault[m].env[i], fresh)
  <2>1. Young(Sight(i).env[m], Sight(i).fresh)
    BY DEF Safekeeping, Guarded, AllYoung
  <2> QED BY <2>1, SightFields
<1>3. CASE Add(m)
  <2> DEFINE e == Sealed(1, fresh, FALSE)
             map == [vault[m].env EXCEPT ![minted + 1] = e]
             v == [vault[m] EXCEPT !.env[minted + 1] = e]
  <2>1. /\ e \in Envelopes /\ e # None /\ minted + 1 \in Ids
        /\ e.seal = fresh /\ Young(e, fresh + 1) /\ Carries(e, fresh)
    <3>1. e \in Envelopes /\ e.body = fresh /\ e.seal = fresh /\ e.deleted = FALSE
      BY <1>1 DEF Sealed, Envelopes, Envelope
    <3>2. minted + 1 \in Ids
      BY <1>1, <1>3, IdsAssumption DEF Add
    <3> HIDE DEF e
    <3> QED BY <1>1, <3>1, <3>2, EnvelopeFacts DEF Young, Carries, Live
  <2>2. map \in EnvMap
    BY <1>1, <2>1 DEF EnvMap
  <2>3. /\ v \in Vault /\ v.env = map /\ v.parked = vault[m].parked
        /\ v.marks = vault[m].marks /\ v.locked = vault[m].locked
    BY <1>1, <2>2 DEF Vault
  <2>4. \A k \in Machines : vault[k].env[minted + 1] = None
    BY <1>1, <2>1 DEF Unminted, Unwritten
  <2>5. Operate(m, "add", v) /\ owed' = owed \cup {fresh}
    BY <1>3 DEF Add
  <2> HIDE DEF v, e
  <2>6. v.env[minted + 1] = e /\ \A j \in Ids : j # minted + 1 => v.env[j] = vault[m].env[j]
    BY <1>1, <2>1, <2>3 DEF EnvMap
  <2>7. \A b : ~Carries(vault[m].env[minted + 1], b)
    BY <2>4 DEF Carries, Live
  <2>8. Penned(m, minted + 1, v)
    BY <2>1, <2>3, <2>4, <2>5, <2>6, <2>7 DEF Operate, Penned
  <2> QED BY <2>1, <2>3, <2>8
<1>4. ASSUME NEW i \in Ids, NEW e, NEW v, Live(vault[m].env[i]),
             e \in Envelopes, e.seal = fresh, Young(e, fresh + 1),
             e.rev = vault[m].env[i].rev + 1,
             v \in Vault, v.env = [vault[m].env EXCEPT ![i] = e],
             v.parked = vault[m].parked, v.marks = vault[m].marks,
             v.locked = vault[m].locked,
             NEW op, Operate(m, op, v), owed' \subseteq owed \cup {fresh},
             fresh \in owed' => Carries(e, fresh),
             vault[m].env[i].body \in owed' => Carries(e, vault[m].env[i].body)
      PROVE  \E u \in Vault, j \in Ids : Penned(m, j, u)
  <2>1. v.env[i] = e /\ \A j \in Ids : j # i => v.env[j] = vault[m].env[j]
    BY <1>1, <1>4 DEF EnvMap
  <2>2. /\ vault[m].env[i] # None /\ vault[m].env[i].rev \in Nat /\ e # None
        /\ e.rev > vault[m].env[i].rev
    BY <1>1, <1>4, EnvelopeFacts DEF Live, EnvMap
  <2>3. \A b \in owed' : Carries(vault[m].env[i], b) => Carries(e, b)
    BY <1>4 DEF Carries
  <2>4. Penned(m, i, v)
    BY <1>4, <2>1, <2>2, <2>3 DEF Operate, Penned
  <2> QED BY <1>4, <2>4
<1>5. ASSUME NEW i \in Ids, Live(vault[m].env[i])
      PROVE  /\ vault[m].env[i] \in Envelopes /\ vault[m].env[i].rev \in Nat
             /\ vault[m].env[i].body \in Nat /\ vault[m].env[i].body < fresh
  <2>1. vault[m].env[i] \in Envelopes
    BY <1>1, <1>5 DEF Live, EnvMap
  <2> QED BY <1>2, <1>5, <2>1, EnvelopeFacts DEF Young
<1>6. ASSUME NEW i \in Ids, Edit(m, i)
      PROVE  \E u \in Vault, j \in Ids : Penned(m, j, u)
  <2> DEFINE l == vault[m].env[i]
             e == Sealed(l.rev + 1, fresh, FALSE)
             v == Rewrite(m, i, fresh)
  <2>1. Live(l) /\ l.rev + 1 \in Nat \ {0} /\ l.body < fresh /\ l.body \in Nat /\ fresh < fresh + 1
    BY <1>1, <1>5, <1>6 DEF Edit
  <2>2. e \in Envelopes /\ e.seal = fresh /\ e.rev = l.rev + 1 /\ Carries(e, fresh)
        /\ Young(e, fresh + 1)
    BY <1>1, <2>1, SealedLive DEF Anew
  <2>3. v = WithEnv(vault[m], [vault[m].env EXCEPT ![i] = e])
    BY DEF Rewrite
  <2> HIDE DEF e
  <2>4. [vault[m].env EXCEPT ![i] = e] \in EnvMap
    BY <1>1, <2>2 DEF EnvMap
  <2>5. v \in Vault /\ v.env = [vault[m].env EXCEPT ![i] = e]
    BY <1>1, <2>3, <2>4, WithEnvType
  <2>6. /\ v.parked = vault[m].parked /\ v.marks = vault[m].marks
        /\ v.locked = vault[m].locked
    BY <1>1, <2>3 DEF WithEnv, Vault
  <2>7. Operate(m, "edit", v) /\ owed' = (owed \ {l.body}) \cup {fresh}
    BY <1>6 DEF Edit
  <2> HIDE DEF v
  <2>8. l.body \notin owed'
    BY <1>1, <2>1, <2>7
  <2> QED BY <1>4, <2>1, <2>2, <2>5, <2>6, <2>7, <2>8
<1>7. ASSUME NEW i \in Ids, Touch(m, i)
      PROVE  \E u \in Vault, j \in Ids : Penned(m, j, u)
  <2> DEFINE l == vault[m].env[i]
             e == Sealed(l.rev + 1, l.body, FALSE)
             v == Rewrite(m, i, l.body)
  <2>1. Live(l) /\ l.rev + 1 \in Nat \ {0} /\ l.body < fresh + 1 /\ l.body \in Nat
    BY <1>1, <1>5, <1>7 DEF Touch
  <2>2. e \in Envelopes /\ e.seal = fresh /\ e.rev = l.rev + 1 /\ Carries(e, l.body)
        /\ Young(e, fresh + 1)
    BY <1>1, <2>1, SealedLive DEF Anew
  <2>3. v = WithEnv(vault[m], [vault[m].env EXCEPT ![i] = e])
    BY DEF Rewrite
  <2> HIDE DEF e
  <2>4. [vault[m].env EXCEPT ![i] = e] \in EnvMap
    BY <1>1, <2>2 DEF EnvMap
  <2>5. v \in Vault /\ v.env = [vault[m].env EXCEPT ![i] = e]
    BY <1>1, <2>3, <2>4, WithEnvType
  <2>6. /\ v.parked = vault[m].parked /\ v.marks = vault[m].marks
        /\ v.locked = vault[m].locked
    BY <1>1, <2>3 DEF WithEnv, Vault
  <2>7. Operate(m, "touch", v) /\ owed' = owed
    BY <1>7 DEF Touch
  <2> HIDE DEF v
  <2> QED BY <1>1, <1>4, <2>1, <2>2, <2>5, <2>6, <2>7
<1>8. ASSUME NEW i \in Ids, Delete(m, i)
      PROVE  \E u \in Vault, j \in Ids : Penned(m, j, u)
  <2> DEFINE l == vault[m].env[i]
             e == Sealed(l.rev + 1, 0, TRUE)
             map == [vault[m].env EXCEPT ![i] = e]
             v == [vault[m] EXCEPT !.env[i] = e]
  <2>1. Live(l) /\ l.rev + 1 \in Nat \ {0}
    BY <1>1, <1>5, <1>8 DEF Delete
  <2>2. e \in Envelopes /\ e.seal = fresh /\ e.rev = l.rev + 1 /\ Young(e, fresh + 1)
    BY <2>1, SealedDead DEF Anew
  <2>3. Operate(m, "delete", v) /\ owed' = owed \ {l.body}
    BY <1>8 DEF Delete
  <2> HIDE DEF e
  <2>4. map \in EnvMap
    BY <1>1, <2>2 DEF EnvMap
  <2>5. /\ v \in Vault /\ v.env = map /\ v.parked = vault[m].parked
        /\ v.marks = vault[m].marks /\ v.locked = vault[m].locked
    BY <1>1, <2>4 DEF Vault
  <2> HIDE DEF v
  <2>6. fresh \notin owed' /\ l.body \notin owed'
    BY <1>1, <2>3
  <2> QED BY <1>1, <1>4, <2>1, <2>2, <2>3, <2>5, <2>6
<1> QED BY <1>3, <1>6, <1>7, <1>8 DEF UserStep

-----------------------------------------------------------------------------
(***************************************************************************)
(* A pull that is taken, on an unlocked machine.                           *)
(***************************************************************************)
(* What the merge makes of a record, with nothing lost unseen.             *)
LEMMA MergedSafe ==
  ASSUME TypeOK, Coherent, NEW m \in Machines, pc[m] \in Pulls, NEW i \in Ids,
         NEW S, Backed(Sight(i), m, S)
  PROVE  LET l == vault[m].env[i]
             r == srv.recs[i]
             a == Asked(m)[i]
             b == state[m].synced[i]
             o == Merged(m)[i]
             x == Adopt(l, o.env)
         IN  /\ MergeSaves(l, r, a, b, o, x) /\ MergeLevels(l, r, a, b, o, x)
             /\ l \in Maybe /\ r \in Maybe /\ b \in Base /\ a \in {None, r}
             /\ o.synced \in Base
             /\ a = None => r = None \/ srv.stamp[i] <= state[m].seq
             /\ a # None => srv.stamp[i] > state[m].seq
<1> DEFINE l == vault[m].env[i]
           r == srv.recs[i]
           a == Asked(m)[i]
           b == state[m].synced[i]
           o == Merged(m)[i]
           x == Adopt(l, o.env)
<1>1. /\ MergeLevels(l, r, a, b, o, x)
      /\ srv.stamp[i] <= state[m].seq => a = None
      /\ l \in Maybe /\ r \in Maybe /\ a \in {None, r} /\ Bounded(l, r, b)
  BY PullMerges
<1>2. b \in Base /\ srv.stamp[i] \in Nat /\ state[m].seq \in Nat
  BY MachineTypes DEF State, Base, Store
<1>3. l # None /\ r # None /\ l.seal = r.seal => l = r
  <2>1. l # None /\ r # None => l \in Held(i) /\ r \in Held(i)
    BY DEF Held, HeldBy
  <2> QED BY <2>1 DEF Coherent, Seals
<1>4. o = MergeOne(l, a, b) /\ o.synced \in Base
  BY MergedType DEF AllOutcomes, Outcomes
<1>5. pc[m] # "pull422"
  BY DEF Coherent, InMemory
<1>6. a = IF r # None /\ srv.stamp[i] > state[m].seq THEN r ELSE None
  BY <1>5 DEF Asked, Since
<1>7. a = None => r = None \/ srv.stamp[i] <= state[m].seq
  BY <1>2, <1>6
<1>8. a # None => srv.stamp[i] > state[m].seq
  BY <1>6
<1>9. a # None /\ b # None => r.rev > b
  <2>1. b # None => r.rev > b \/ srv.stamp[i] <= state[m].seq
    BY SightFields DEF Backed
  <2> QED BY <1>1, <2>1
<1> HIDE DEF l, r, a, b, o
<1>10. MergeSaves(l, r, a, b, MergeOne(l, a, b), Adopt(l, MergeOne(l, a, b).env))
  BY <1>1, <1>2, <1>3, <1>9, MergeOfSafe
<1>11. MergeSaves(l, r, a, b, o, x)
  BY <1>4, <1>10
<1> QED BY <1>1, <1>2, <1>4, <1>7, <1>8, <1>11 DEF l, r, a, b, o

(* What the pull makes of a record that is not a fork, as SettlesAs has it.*)
SettledAt(m, y, i) ==
  LET l == vault[m].env[i]
      r == srv.recs[i]
      b == state[m].synced[i]
      o == Merged(m)[i]
  IN  \/ /\ y = l /\ o.parked = None
         /\ Live(r) => srv.stamp[i] <= state[m].seq \/ l = r
         /\ Live(y) /\ o.synced = y.rev => y = r \/ b = l.rev
      \/ /\ y = r /\ r # None /\ l # r /\ srv.stamp[i] > state[m].seq
         /\ o.parked \in {None, l}
         /\ Live(l) => l.rev = b \/ o.parked = l
      \/ /\ o.parked = r /\ l # None /\ r # None /\ srv.stamp[i] > state[m].seq
         /\ y # None /\ y.seal = fresh /\ y.deleted = l.deleted /\ y.body = l.body
         /\ o.synced # y.rev

LEMMA KeptSettles ==
  ASSUME TypeOK, Coherent, NEW m \in Machines, pc[m] \in Pulls, NEW i \in Ids,
         NEW S, Backed(Sight(i), m, S)
  PROVE  SettledAt(m, Kept(m, Merged(m)).env[i], i)
<1> DEFINE l == vault[m].env[i]
           r == srv.recs[i]
           a == Asked(m)[i]
           b == state[m].synced[i]
           o == Merged(m)[i]
           x == Adopt(l, o.env)
           y == Kept(m, Merged(m)).env[i]
<1>1. /\ MergeSaves(l, r, a, b, o, x) /\ MergeLevels(l, r, a, b, o, x)
      /\ l \in Maybe /\ r \in Maybe /\ b \in Base /\ a \in {None, r}
      /\ o.synced \in Base
      /\ a = None => r = None \/ srv.stamp[i] <= state[m].seq
      /\ a # None => srv.stamp[i] > state[m].seq
  BY MergedSafe
<1>2. y = IF o.parked # None /\ o.push
          THEN Sealed(Higher(x.rev, a.rev) + 1, x.body, x.deleted)
          ELSE x
  BY KeptAt
<1> HIDE DEF o, y, x
<1>3. CASE o.parked # None /\ o.push
  <2>1. /\ o.parked = r /\ x = l /\ l # None /\ r # None /\ a = r
        /\ (r.deleted => l.deleted) /\ (o.synced # None => o.synced <= r.rev)
    BY <1>1, <1>3 DEF MergeSaves, MergeLevels
  <2>2. l \in Envelopes /\ r \in Envelopes
    BY <1>1, <2>1 DEF Maybe
  <2>3. y = Sealed(Higher(l.rev, r.rev) + 1, l.body, l.deleted)
    BY <1>2, <1>3, <2>1
  <2>4. y \in Envelopes /\ y.seal = fresh /\ y.rev > r.rev
    BY <2>1, <2>2, <2>3, SupersededOutranks DEF Outranks
  <2>5. y.deleted = l.deleted /\ y.body = l.body
    BY <2>3 DEF Sealed
  <2>6. y # None /\ y.rev \in Nat /\ r.rev \in Nat /\ None \notin Nat
    BY <2>2, <2>4, EnvelopeFacts, NoneAssumption
  <2>7. o.synced # y.rev
    BY <1>1, <2>1, <2>4, <2>6 DEF Base
  <2> QED BY <1>1, <2>1, <2>4, <2>5, <2>6, <2>7 DEF SettledAt, o, y
<1>4. CASE ~(o.parked # None /\ o.push) /\ x = l
  <2>1. y = l
    BY <1>2, <1>4
  <2>2. o.parked = None
    BY <1>1, <1>4 DEF MergeSaves
  <2>3. Live(r) => srv.stamp[i] <= state[m].seq \/ l = r
    BY <1>1, <1>4, <2>2 DEF MergeSaves, Live
  <2>4. Live(y) /\ o.synced = y.rev => y = r \/ b = l.rev
    BY <1>1, <1>4, <2>1, <2>2 DEF MergeSaves
  <2> QED BY <2>1, <2>2, <2>3, <2>4 DEF SettledAt, o, y
<1>5. CASE ~(o.parked # None /\ o.push) /\ x # l
  <2>1. y = r /\ x = r /\ l # r /\ a # None /\ r # None
    BY <1>1, <1>2, <1>5 DEF MergeLevels
  <2>2. o.parked \in {None, l} /\ (Live(l) => l.rev = b \/ o.parked = l)
    BY <1>1, <1>5 DEF MergeSaves
  <2> QED BY <1>1, <2>1, <2>2 DEF SettledAt, o, y
<1> QED BY <1>3, <1>4, <1>5

(* The vault it leaves: the losers are parked, forked and marked.          *)
Forking(m, n, name, v) ==
  /\ v = Resolved(Kept(m, Merged(m)), name) /\ Pulled(m, v, FreshIds(n))
  /\ fresh' \in Nat /\ fresh' >= fresh /\ owed' = owed

Splits(m, n, name, k, v) ==
  /\ k \in Vault /\ v \in Vault /\ FreshIds(n) \in SUBSET Ids
  /\ k.parked = Losers(Merged(m)) \ vault[m].marks
  /\ v.parked = {} /\ ~v.locked
  /\ v.marks = vault[m].marks \cup Losers(Merged(m))
  /\ \A i \in Ids \ FreshIds(n) : v.env[i] = k.env[i]
  /\ \A i \in FreshIds(n) : /\ name[i] \in Forkable(k)
                            /\ v.env[i] = Sealed(1, name[i].env.body, FALSE)
  /\ \A e \in Forkable(k) : \E i \in FreshIds(n) : name[i] = e

LEMMA ForkingParts ==
  ASSUME TypeOK, Unlocked, NEW m \in Machines,
         NEW n \in 0 .. MaxIds - minted,
         NEW name \in Bijection(FreshIds(n), Forkable(Kept(m, Merged(m))))
  PROVE  Splits(m, n, name, Kept(m, Merged(m)), Resolved(Kept(m, Merged(m)), name))
<1> DEFINE k == Kept(m, Merged(m))
           v == Resolved(k, name)
<1>1. k \in Vault /\ k.locked = vault[m].locked
  BY KeptType
<1>2. k.parked = Losers(Merged(m)) \ vault[m].marks
  BY KeptParked DEF Unlocked
<1>3. k.marks = vault[m].marks
  BY MachineParts DEF Kept, Superseding, Park, Applying, WithEnv, Vault
<1> HIDE DEF k
<1>4. /\ v \in Vault /\ v.locked = k.locked /\ FreshIds(n) \in SUBSET Ids
      /\ \A i \in Ids \ FreshIds(n) : v.env[i] = k.env[i]
  BY <1>1, ResolvedType DEF k
<1>5. v.parked = {} /\ v.marks = k.marks \cup k.parked
  BY <1>1 DEF Resolved, Vault
<1>6. /\ DOMAIN name = FreshIds(n)
      /\ \A i \in FreshIds(n) : name[i] \in Forkable(k)
      /\ \A e \in Forkable(k) : \E i \in FreshIds(n) : name[i] = e
  BY DEF Bijection, Injection, Surjection, k
<1>7. \A i \in FreshIds(n) : v.env[i] = Sealed(1, name[i].env.body, FALSE)
  BY <1>1, <1>4, <1>6 DEF Resolved, Vault
<1> HIDE DEF v
<1>8. ~v.locked /\ v.marks = vault[m].marks \cup Losers(Merged(m))
  BY <1>1, <1>2, <1>3, <1>4, <1>5 DEF Unlocked
<1> QED BY <1>1, <1>2, <1>4, <1>5, <1>6, <1>7, <1>8 DEF Splits, k, v

(* What loses is one of the two sides, and no newer than the newest.       *)
LEMMA LosersKnown ==
  ASSUME TypeOK, Coherent, Safekeeping, NEW m \in Machines, pc[m] \in Pulls,
         NEW i \in Ids, Merged(m)[i].parked # None
  PROVE  LET e == Merged(m)[i].parked
         IN  /\ e \in {vault[m].env[i], srv.recs[i]} /\ e \in Envelopes /\ Young(e, fresh)
             /\ vault[m].env[i] # None /\ srv.recs[i] # None
             /\ [id |-> i, env |-> e] \notin vault[m].marks
<1> DEFINE e == Merged(m)[i].parked
           l == vault[m].env[i]
           r == srv.recs[i]
<1>1. Guarded(Sight(i), Safe) /\ Backed(Sight(i), m, Safe) /\ Marked(Sight(i), m)
  BY DEF Safekeeping, Guarded
<1>2. /\ MergeSaves(l, r, Asked(m)[i], state[m].synced[i], Merged(m)[i],
                    Adopt(l, Merged(m)[i].env))
      /\ MergeLevels(l, r, Asked(m)[i], state[m].synced[i], Merged(m)[i],
                     Adopt(l, Merged(m)[i].env))
      /\ l \in Maybe /\ r \in Maybe
      /\ Asked(m)[i] # None => srv.stamp[i] > state[m].seq
  BY <1>1, MergedSafe
<1>3. /\ e \in {l, r} /\ l # None /\ r # None /\ l # r
      /\ srv.stamp[i] > state[m].seq
  BY <1>2 DEF MergeSaves, MergeLevels
<1>4. e \in Envelopes
  BY <1>2, <1>3 DEF Maybe
<1>5. Young(l, fresh) /\ Young(r, fresh)
  <2>1. Young(Sight(i).env[m], Sight(i).fresh) /\ Young(Sight(i).srv, Sight(i).fresh)
    BY <1>1 DEF Guarded, AllYoung
  <2> QED BY <2>1, SightFields
<1>6. [id |-> i, env |-> e] \notin vault[m].marks
  <2> SUFFICES ASSUME [id |-> i, env |-> e] \in vault[m].marks
               PROVE  FALSE
    OBVIOUS
  <2>1. e \in Sight(i).marks[m]
    BY <1>4, SightMarks
  <2>2. l # e /\ (r = e => srv.stamp[i] <= state[m].seq)
    BY <1>1, <2>1, SightFields DEF Marked
  <2>3. srv.stamp[i] \in Nat /\ state[m].seq \in Nat
    BY MachineTypes DEF Store
  <2> QED BY <1>3, <2>2, <2>3
<1> QED BY <1>3, <1>4, <1>5, <1>6

(* What a mark of the pull says of one record.                             *)
LEMMA LosersAt ==
  ASSUME TypeOK, Unlocked, NEW m \in Machines, AllOutcomes(Merged(m)), NEW i \in Ids,
         vault'[m].marks = vault[m].marks \cup Losers(Merged(m))
  PROVE  Sight(i)'.marks[m] = Sight(i).marks[m] \cup ({Merged(m)[i].parked} \ {None})
<1>1. \A e : [id |-> i, env |-> e] \in Losers(Merged(m)) <=>
               e # None /\ e = Merged(m)[i].parked
  BY DEF Losers, Contested
<1>2. Merged(m)[i].parked # None => Merged(m)[i].parked \in Envelopes
  BY DEF AllOutcomes, Outcomes, Maybe
<1>3. /\ Sight(i).marks[m] = {e \in Envelopes : [id |-> i, env |-> e] \in vault[m].marks}
      /\ Sight(i)'.marks[m] = {e \in Envelopes : [id |-> i, env |-> e] \in vault'[m].marks}
  BY SightMarks
<1> DEFINE p == Merged(m)[i].parked
           old == Sight(i).marks[m]
           new == Sight(i)'.marks[m]
<1>4. ASSUME NEW e
      PROVE  e \in new <=> e \in old \/ (e # None /\ e = p)
  <2>1. [id |-> i, env |-> e] \in vault'[m].marks <=>
          [id |-> i, env |-> e] \in vault[m].marks \/ (e # None /\ e = p)
    BY <1>1
  <2> HIDE DEF p
  <2>2. e \in new <=> e \in Envelopes /\ [id |-> i, env |-> e] \in vault'[m].marks
    BY <1>3
  <2>3. e \in old <=> e \in Envelopes /\ [id |-> i, env |-> e] \in vault[m].marks
    BY <1>3
  <2>4. p # None => p \in Envelopes
    BY <1>2 DEF p
  <2> QED BY <2>1, <2>2, <2>3, <2>4
<1> HIDE DEF p, old, new
<1>5. new = old \cup ({p} \ {None})
  BY <1>4
<1> QED BY <1>5 DEF p, old, new

(* A fork stands where nothing did, and is the only one to say what it     *)
(* says: it carries it wherever it is.                                     *)
LEMMA ForkGrows ==
  ASSUME TypeOK, TypeOK', Unminted, Coherent, Safekeeping, NEW m \in Machines,
         pc[m] \in Pulls, NEW n \in 0 .. MaxIds - minted,
         NEW name \in Bijection(FreshIds(n), Forkable(Kept(m, Merged(m)))), NEW v,
         Forking(m, n, name, v), NEW j \in FreshIds(n)
  PROVE  Sprouts(Sight(j), Sight(j)', m) /\ Whole(Sight(j)', name[j].env.body)
<1>0. /\ v = Resolved(Kept(m, Merged(m)), name) /\ Pulled(m, v, FreshIds(n))
      /\ fresh' \in Nat /\ fresh' >= fresh /\ Unlocked /\ fresh \in Nat
  BY DEF Forking, Safekeeping, TypeOK
<1>1. /\ j \in Ids /\ srv.recs[j] = None
      /\ \A k \in Machines : vault[k].env[j] = None /\ InFlight(k, j) = None
  BY FreshIsBlank
<1>2. /\ name[j] \in Forkable(Kept(m, Merged(m)))
      /\ v.env[j] = Sealed(1, name[j].env.body, FALSE)
      /\ Kept(m, Merged(m)).parked = Losers(Merged(m)) \ vault[m].marks
      /\ v.marks = vault[m].marks \cup Losers(Merged(m))
  <2>1. Splits(m, n, name, Kept(m, Merged(m)), v)
    BY <1>0, ForkingParts
  <2> QED BY <2>1 DEF Splits
<1>3. /\ srv' = srv /\ vault'[m] = v /\ state'[m].synced[j] = Merged(m)[j].synced
      /\ job'[m].push[j] = v.env[j]
      /\ pc'[m] \in {"saveVault", "push", "push409"} /\ Beside(m)
  BY <1>0, <1>1 DEF Pulled, Beside
<1>4. name[j] \in Losers(Merged(m)) /\ ~name[j].env.deleted
  BY <1>2 DEF Forkable
<1>5. PICK i \in Ids : name[j].env = Merged(m)[i].parked /\ Merged(m)[i].parked # None
  BY <1>4 DEF Losers, Contested
<1>6. name[j].env \in Envelopes /\ Young(name[j].env, fresh)
  BY <1>5, LosersKnown
<1> DEFINE b == name[j].env.body
           e == Sealed(1, b, FALSE)
<1>7. b \in Nat /\ b < fresh
  BY <1>4, <1>6, EnvelopeFacts DEF Young, Live
<1> HIDE DEF b
<1>8. Anew(e, 1, b) /\ Carries(e, b)
  <2>1. 1 \in Nat \ {0} /\ b \in Nat /\ b < fresh + 1
    BY <1>0, <1>7
  <2> QED BY <2>1, SealedLive
<1>9. v.env[j] = e /\ e # None /\ Young(e, fresh')
  <2>1. v.env[j] = e
    BY <1>2 DEF b
  <2> HIDE DEF e
  <2>2. e # None /\ e.body = b /\ b < fresh'
    BY <1>0, <1>7, <1>8 DEF Anew
  <2> QED BY <2>1, <2>2 DEF Young
<1> HIDE DEF e
<1>10. Merged(m)[j].synced = None /\ Merged(m)[j].parked = None
  <2>1. Backed(Sight(j), m, Safe)
    BY <1>1 DEF Safekeeping, Guarded
  <2>2. /\ MergeLevels(vault[m].env[j], srv.recs[j], Asked(m)[j], state[m].synced[j],
                       Merged(m)[j], Adopt(vault[m].env[j], Merged(m)[j].env))
        /\ Asked(m)[j] \in {None, srv.recs[j]}
    BY <1>1, <2>1, MergedSafe
  <2>3. Bounded(vault[m].env[j], srv.recs[j], state[m].synced[j])
    BY <1>1 DEF Coherent, InMemory, Stands, StandsAt
  <2>4. Merged(m)[j].synced = state[m].synced[j] /\ Merged(m)[j].parked = None
    BY <1>1, <2>2 DEF MergeLevels
  <2> QED BY <1>1, <2>3, <2>4 DEF Bounded
<1>11. Sight(j).marks[m] = {} /\ Sight(j)'.marks[m] = {}
  <2>1. Marked(Sight(j), m) /\ Sight(j).env[m] = None
    BY <1>1, SightFields DEF Safekeeping, Guarded
  <2>2. Sight(j).marks[m] = {}
    BY <2>1 DEF Marked
  <2>3. AllOutcomes(Merged(m))
    BY MergedType
  <2>4. Sight(j)'.marks[m] = Sight(j).marks[m] \cup ({Merged(m)[j].parked} \ {None})
    BY <1>0, <1>1, <1>2, <1>3, <2>3, LosersAt
  <2> QED BY <1>10, <2>2, <2>4
<1>12. InFlight(m, j)' \in {None, e} /\ pc'[m] # "verify"
  BY <1>3, <1>9 DEF InFlight
<1>13. Alongside(Sight(j), Sight(j)', m)
  BY <1>1, <1>3, BesideSights
<1> HIDE DEF InFlight
<1>14. /\ Sight(j)'.srv = None /\ Sight(j).srv = None
       /\ Sight(j).fresh = fresh /\ Sight(j)'.fresh = fresh'
       /\ Sight(j)'.env[m] = e /\ Sight(j)'.base[m] = None
       /\ Sight(j)'.sent[m] \in {None, e} /\ ~Sight(j)'.landed[m]
  BY <1>1, <1>3, <1>9, <1>10, <1>12, SightFields
<1>15. \A k \in Machines : Sight(j).env[k] = None /\ Sight(j).sent[k] = None
  BY <1>1, SightFields
<1> HIDE DEF Sight
<1>16. Sprouts(Sight(j), Sight(j)', m)
  BY <1>0, <1>9, <1>11, <1>13, <1>14, <1>15 DEF Sprouts
<1>17. Whole(Sight(j)', b)
  <2>1. ASSUME NEW k \in Machines
        PROVE  /\ Sight(j)'.env[k] = None \/ Carries(Sight(j)'.env[k], b)
               /\ Sight(j)'.sent[k] = None \/ Carries(Sight(j)'.sent[k], b)
    <3>1. CASE k = m
      BY <1>8, <1>14, <3>1
    <3>2. CASE k # m
      BY <1>13, <1>15, <3>2 DEF Alongside, Same
    <3> QED BY <3>1, <3>2
  <2> QED BY <1>9, <1>14, <2>1 DEF Whole
<1> QED BY <1>16, <1>17 DEF b

(* A record that is not a fork: what lost there, if it was live, it shows  *)
(* or a fork does.                                                         *)
LEMMA PullSettles ==
  ASSUME TypeOK, TypeOK', Unminted, Coherent, Safekeeping, NEW m \in Machines,
         pc[m] \in Pulls, NEW n \in 0 .. MaxIds - minted,
         NEW name \in Bijection(FreshIds(n), Forkable(Kept(m, Merged(m)))), NEW v,
         Forking(m, n, name, v), NEW i \in Ids \ FreshIds(n)
  PROVE  \E e \in Maybe : Settles(Sight(i), Sight(i)', m, e, Safe')
<1> DEFINE o == Merged(m)[i]
           k == Kept(m, Merged(m))
           y == v.env[i]
           e == o.parked
<1>0. /\ v = Resolved(k, name) /\ Pulled(m, v, FreshIds(n))
      /\ fresh' \in Nat /\ fresh' >= fresh /\ Unlocked
  BY DEF Forking, Safekeeping
<1>1. Splits(m, n, name, k, v)
  BY <1>0, ForkingParts
<1>2. y = k.env[i]
  BY <1>1 DEF Splits
<1>3. SettledAt(m, y, i)
  <2>1. Backed(Sight(i), m, Safe)
    BY DEF Safekeeping, Guarded
  <2> QED BY <1>2, <2>1, KeptSettles
<1>4. /\ srv' = srv /\ vault'[m] = v /\ state'[m].synced[i] = o.synced
      /\ state'[m].seq = srv.seq
      /\ job'[m].push[i] = IF o.push \/ i \in FreshIds(n) THEN y ELSE None
      /\ pc'[m] \in {"saveVault", "push", "push409"} /\ Beside(m)
  BY <1>0 DEF Pulled, Beside
<1>5. AllOutcomes(Merged(m)) /\ e \in Maybe
  <2>1. AllOutcomes(Merged(m))
    BY MergedType
  <2> QED BY <2>1 DEF AllOutcomes, Outcomes
<1>6. Sight(i)'.marks[m] = Sight(i).marks[m] \cup ({e} \ {None})
  <2>1. vault'[m].marks = vault[m].marks \cup Losers(Merged(m))
    BY <1>1, <1>4 DEF Splits
  <2> QED BY <1>0, <1>5, <2>1, LosersAt
<1>7. Live(e) => Carries(y, e.body) \/ e.body \in Safe'
  <2> SUFFICES ASSUME Live(e), ~Carries(y, e.body)
               PROVE  e.body \in Safe'
    OBVIOUS
  <2> DEFINE x == [id |-> i, env |-> e]
  <2>1. e # None /\ ~e.deleted /\ e.body \in Nat
    BY <1>5, MaybeFacts DEF Live
  <2>2. x \in Losers(Merged(m)) /\ x \notin vault[m].marks
    BY <2>1, LosersKnown DEF Losers, Contested
  <2>3. x \in k.parked
    BY <1>1, <2>2 DEF Splits
  <2>4. x.id = i /\ x.env = e
    OBVIOUS
  <2> HIDE DEF x, k, o
  <2>5. x \in Forkable(k)
    BY <1>2, <2>1, <2>3, <2>4 DEF Forkable, Carries
  <2>6. PICK j \in FreshIds(n) : name[j] = x
    BY <1>1, <2>5 DEF Splits
  <2>7. Whole(Sight(j)', name[j].env.body)
    BY ForkGrows
  <2>8. j \in Ids
    BY <1>1 DEF Splits
  <2>9. PICK c : c = e.body
    OBVIOUS
  <2>10. Whole(Sight(j)', c)
    BY <2>4, <2>6, <2>7, <2>9
  <2> HIDE DEF Sight
  <2>11. Saved(c)'
    BY <2>8, <2>10 DEF Saved
  <2>12. c \in Safe'
    BY <2>1, <2>9, <2>11 DEF Safe
  <2> QED BY <2>9, <2>12
<1>8. srv.stamp[i] <= srv.seq
  BY DEF Coherent, Stamps
<1>9. /\ InFlight(m, i) = None /\ pc[m] # "verify"
      /\ InFlight(m, i)' \in {None, y} /\ pc'[m] # "verify"
  BY <1>4 DEF InFlight, Pulls, Pushes
<1>10. Alongside(Sight(i), Sight(i)', m)
  BY <1>4, BesideSights
<1> HIDE DEF InFlight, o, k, y, e
<1>11. /\ Sight(i).srv = srv.recs[i] /\ Sight(i)'.srv = srv.recs[i]
       /\ Sight(i).stamp = srv.stamp[i] /\ Sight(i)'.stamp = srv.stamp[i]
       /\ Sight(i).fresh = fresh /\ Sight(i)'.fresh = fresh'
       /\ Sight(i).env[m] = vault[m].env[i] /\ Sight(i)'.env[m] = y
       /\ Sight(i).base[m] = state[m].synced[i] /\ Sight(i)'.base[m] = o.synced
       /\ Sight(i).seq[m] = state[m].seq /\ Sight(i)'.seq[m] = srv.seq
       /\ Sight(i).sent[m] = None /\ Sight(i)'.sent[m] \in {None, y}
       /\ ~Sight(i).landed[m] /\ ~Sight(i)'.landed[m]
  BY <1>4, <1>9, SightFields DEF y
<1> HIDE DEF Sight
<1>12. SettlesAs(Sight(i), Sight(i)', m, e)
  BY <1>3, <1>11 DEF SettledAt, SettlesAs, o, e
<1>13. Settles(Sight(i), Sight(i)', m, e, Safe')
  BY <1>0, <1>6, <1>7, <1>8, <1>10, <1>11, <1>12 DEF Settles
<1> QED BY <1>5, <1>13

LEMMA PullSafekept ==
  ASSUME TypeOK, TypeOK', Unminted, Coherent, Safekeeping, NEW m \in Machines, Pull(m)
  PROVE  Safekeeping'
<1>1. pc[m] \in Pulls /\ pc[m] \in {"pull", "pull409"}
  BY DEF Pull, Coherent, InMemory, Pulls
<1>2. PullUnlocked(m, Merged(m))
  <2>1. ~vault[m].locked /\ ~GoneBackwards(m, Merged(m))
    BY <1>1, PullNeverBackwards DEF Safekeeping, Unlocked
  <2> QED BY <2>1 DEF Pull, PullRefused, PullLockedConflict, PullLocked
<1> DEFINE Chose(n, name) ==
             /\ AfterPull(m, Resolved(Kept(m, Merged(m)), name), Merged(m), FreshIds(n))
             /\ minted' = minted + n
<1>3. PICK n \in 0 .. MaxIds - minted :
        \E name \in Bijection(FreshIds(n), Forkable(Kept(m, Merged(m)))) : Chose(n, name)
  BY <1>2 DEF PullUnlocked
<1>4. PICK name \in Bijection(FreshIds(n), Forkable(Kept(m, Merged(m)))) : Chose(n, name)
  BY <1>3
<1> DEFINE v == Resolved(Kept(m, Merged(m)), name)
<1>5. fresh' = IF minted' # minted \/ (\E i \in Contested(Merged(m)) : Merged(m)[i].push)
               THEN fresh + 1 ELSE fresh
  BY <1>2 DEF PullUnlocked
<1>6. minted \in Nat /\ n \in Nat /\ fresh \in Nat
  BY DEF TypeOK
<1>7. n # 0 => minted' # minted
  BY <1>4, <1>6
<1>8. /\ fresh' \in Nat /\ fresh' >= fresh /\ (n # 0 => fresh' > fresh)
      /\ (\E i \in Contested(Merged(m)) : Merged(m)[i].push) => fresh' > fresh
  BY <1>5, <1>6, <1>7
<1>9. \A i \in Ids : PulledAt(m, v, FreshIds(n), i)
  BY <1>1, <1>8, PulledUnlocked
<1>10. v \in Vault /\ FreshIds(n) \in SUBSET Ids
  BY KeptType, ResolvedType
<1>11. owed' = owed
  BY <1>4 DEF AfterPull
<1> HIDE DEF v
<1>12. PulledStep(m, v, FreshIds(n))
  BY <1>1, <1>4, <1>8, <1>9 DEF PulledStep, v
<1>13. Pulled(m, v, FreshIds(n))
  BY <1>10, <1>12, PulledParts
<1>14. Forking(m, n, name, v)
  BY <1>8, <1>11, <1>13 DEF Forking, v
<1>15. ASSUME NEW i \in Ids PROVE Tends(Sight(i), Sight(i)', m, Safe', owed')
  <2>1. CASE i \in FreshIds(n)
    BY <1>1, <1>14, <2>1, ForkGrows DEF Tends
  <2>2. CASE i \notin FreshIds(n)
    BY <1>1, <1>14, <2>2, PullSettles DEF Tends
  <2> QED BY <2>1, <2>2
<1>16. Unlocked'
  <2>1. vault'[m] = v /\ \A k \in Machines : k # m => vault'[k] = vault[k]
    BY <1>13 DEF Pulled
  <2>2. v.parked = {} /\ ~v.locked
    BY ForkingParts DEF Safekeeping, Splits, v
  <2> QED BY <2>1, <2>2 DEF Safekeeping, Unlocked
<1>17. owed' \subseteq owed \cup {fresh} /\ fresh \notin owed'
  BY <1>11 DEF Safekeeping, TypeOK
<1> QED BY <1>15, <1>16, <1>17, StillSafekept

-----------------------------------------------------------------------------
(***************************************************************************)
(* The invariant.                                                          *)
(***************************************************************************)
(* A machine that has the record, or has read nothing.                     *)
LEMMA FirstBacked ==
  ASSUME NEW w, NEW k \in Machines, NEW S, w.sent[k] = None,
         \/ w.env[k] = w.srv /\ w.stamp <= w.seq[k]
         \/ /\ w.env[k] = None /\ w.base[k] = None
            /\ Live(w.srv) => ~(w.stamp <= w.seq[k])
  PROVE  Backed(w, k, S)
BY DEF Backed, Carries, Live

LEMMA InitSafekeeping == Init => Safekeeping
<1> SUFFICES ASSUME Init PROVE Safekeeping
  OBVIOUS
<1>1. /\ srv = FirstStore /\ fresh = 2 /\ owed = {1}
      /\ \A m \in Machines : /\ vault[m] = disk[m].vault /\ state[m] = disk[m].state
                             /\ disk[m] \in {Synced, Blank} /\ pc[m] = "idle"
  BY DEF Init
<1>2. ASSUME NEW m \in Machines
      PROVE  /\ vault[m].parked = {} /\ ~vault[m].locked /\ vault[m].marks = {}
             /\ \/ /\ vault[m].env = FirstMap /\ state[m].seq = 2
                   /\ state[m].synced = [i \in Ids |-> IF i = 1 THEN 1 ELSE None]
                \/ vault[m].env = EmptyMap /\ state[m].synced = EmptyMap /\ state[m].seq = 0
  BY <1>1 DEF Synced, Blank, NewVault
<1>3. Unlocked
  BY <1>2 DEF Unlocked
<1>4. /\ FirstRecord # None /\ FirstRecord.rev = 1 /\ FirstRecord.body = 1
      /\ Live(FirstRecord)
  <2>1. /\ FirstRecord \in Envelopes /\ FirstRecord.rev = 1 /\ FirstRecord.body = 1
        /\ FirstRecord.deleted = FALSE
    BY DEF FirstRecord, Envelopes, Envelope
  <2> QED BY <2>1, EnvelopeFacts DEF Live
<1>5. ASSUME NEW i \in Ids
      PROVE  /\ Guarded(Sight(i), Safe)
             /\ i = 1 => Shown(Sight(i), 1)
  <2> DEFINE f == IF i = 1 THEN FirstRecord ELSE None
  <2>1. /\ Sight(i).srv = f /\ Sight(i).fresh = 2
        /\ Sight(i).stamp = IF i = 1 THEN 2 ELSE 0
    BY <1>1 DEF Sight, FirstStore, FirstMap
  <2>2. ASSUME NEW k \in Machines
        PROVE  /\ Sight(i).sent[k] = None /\ Sight(i).marks[k] = {}
               /\ \/ /\ Sight(i).env[k] = f /\ Sight(i).seq[k] = 2
                     /\ Sight(i).base[k] = IF i = 1 THEN 1 ELSE None
                  \/ /\ Sight(i).env[k] = None /\ Sight(i).seq[k] = 0
                     /\ Sight(i).base[k] = None
    <3>1. Sight(i).sent[k] = None
      BY <1>1 DEF Sight, InFlight, Pushes
    <3>2. Sight(i).marks[k] = {}
      BY <1>2 DEF Sight
    <3>3. CASE /\ vault[k].env = FirstMap /\ state[k].seq = 2
               /\ state[k].synced = [j \in Ids |-> IF j = 1 THEN 1 ELSE None]
      BY <3>1, <3>2, <3>3 DEF Sight, FirstMap
    <3>4. CASE vault[k].env = EmptyMap /\ state[k].synced = EmptyMap /\ state[k].seq = 0
      BY <3>1, <3>2, <3>4 DEF Sight, EmptyMap
    <3> QED BY <1>2, <3>3, <3>4
  <2> HIDE DEF Sight
  <2>3. Young(f, 2) /\ (f # None => i = 1 /\ Live(f) /\ f.body = 1 /\ f.rev = 1)
    BY <1>4 DEF Young, Live
  <2>4. AllYoung(Sight(i))
    BY <2>1, <2>2, <2>3 DEF AllYoung, Young, Live
  <2>5. i = 1 => Carries(f, 1)
    BY <1>4 DEF Carries
  <2> HIDE DEF f
  <2>6. ASSUME NEW k \in Machines PROVE Backed(Sight(i), k, Safe) /\ Marked(Sight(i), k)
    <3>1. Marked(Sight(i), k)
      BY <2>2 DEF Marked
    <3>2. \/ /\ Sight(i).env[k] = f /\ Sight(i).stamp <= Sight(i).seq[k]
          \/ /\ Sight(i).env[k] = None /\ Sight(i).base[k] = None
             /\ Live(f) => ~(Sight(i).stamp <= Sight(i).seq[k])
      BY <2>1, <2>2, <2>3 DEF Live
    <3>3. Backed(Sight(i), k, Safe)
      BY <2>1, <2>2, <3>2, FirstBacked
    <3> QED BY <3>1, <3>3
  <2>7. i = 1 => Shown(Sight(i), 1)
    BY <2>1, <2>5 DEF Shown
  <2> QED BY <2>4, <2>6, <2>7 DEF Guarded
<1>6. 1 \in Ids
  BY IdsAssumption
<1> QED BY <1>1, <1>3, <1>5, <1>6 DEF Safekeeping

LEMMA MachineSafekept ==
  ASSUME TypeOK, TypeOK', Unminted, Coherent, Safekeeping, ~Opened', NEW m \in Machines,
         Start(m) \/ SyncStep(m) \/ UserStep(m) \/ Unlock(m) \/ Disturbance(m)
  PROVE  Safekeeping'
<1>1. CASE Pull(m)
  BY <1>1, PullSafekept
<1>2. CASE PushAccepted(m) \/ LoseAck(m)
  <2>1. ASSUME PushAccepted(m) PROVE LandedStep(m) /\ owed' = owed
    BY <2>1 DEF PushAccepted, LandedStep
  <2>2. ASSUME LoseAck(m) PROVE LandedStep(m) /\ owed' = owed
    <3>1. vault' = vault
      BY <2>2 DEF LoseAck, GiveUp, TypeOK
    <3> QED BY <2>2, <3>1 DEF LoseAck, LandedStep, GiveUp
  <2> QED BY <1>2, <2>1, <2>2, LandedSafekept
<1>3. CASE VerifyConfirmed(m)
  BY <1>3, ConfirmedSafekept
<1>4. CASE UserStep(m)
  BY <1>4, UserPens, PennedSafekept
<1>5. ~Unlock(m)
  BY DEF Unlock, Safekeeping, Unlocked
<1>6. ~Lock(m) /\ ~Crash(m)
  BY DisturbMet DEF Lock, Crash, Opened
<1>7. CASE \/ Start(m) \/ PushRetried(m) \/ PushGivenUp(m) \/ VerifyRefused(m)
           \/ SaveVault(m) \/ SaveState(m) \/ SettingsWrite(m) \/ LoseRequest(m)
  BY <1>7, RestingSteps, RestsSafekept
<1> QED BY <1>1, <1>2, <1>3, <1>4, <1>5, <1>6, <1>7 DEF SyncStep, Disturbance

LEMMA EntrustedStep ==
  ASSUME TypeOK, TypeOK', Unminted, Agreement, Entrusted, [Next]_vars
  PROVE  Entrusted'
<1>1. CASE Opened
  BY <1>1, HappenedStays DEF Entrusted, Opened
<1>2. CASE Opened'
  BY <1>2 DEF Entrusted
<1>3. CASE Safekeeping /\ ~Opened /\ ~Opened'
  <2>1. Coherent
    BY <1>3 DEF Agreement, HalfSaved, Opened
  <2>2. ASSUME NEW m \in Machines,
               Start(m) \/ SyncStep(m) \/ UserStep(m) \/ Unlock(m) \/ Disturbance(m)
        PROVE  Safekeeping'
    BY <1>3, <2>1, <2>2, MachineSafekept
  <2>3. ~Restore
    BY <1>3, DisturbMet DEF Restore, Opened
  <2>4. CASE UNCHANGED vars
    <3>1. UNCHANGED <<srv, vault, state, pc, job, fresh, owed>>
      BY <2>4 DEF vars
    <3>2. ASSUME NEW i \in Ids PROVE Sight(i)' = Sight(i)
      BY <3>1 DEF Sight, InFlight
    <3>3. Safe' = Safe
      BY <3>1, <3>2 DEF Safe, Saved
    <3>4. Unlocked'
      BY <1>3, <3>1 DEF Safekeeping, Unlocked
    <3> HIDE DEF Sight
    <3>5. ASSUME NEW i \in Ids PROVE Guarded(Sight(i), Safe)'
      BY <1>3, <3>2, <3>3 DEF Safekeeping
    <3>6. ASSUME NEW b \in owed' PROVE b < fresh' /\ \E i \in Ids : Shown(Sight(i)', b)
      BY <1>3, <3>1, <3>2, <3>6 DEF Safekeeping
    <3>7. Safekeeping'
      BY <3>4, <3>5, <3>6 DEF Safekeeping
    <3> QED BY <3>7 DEF Entrusted
  <2> QED BY <2>2, <2>3, <2>4 DEF Next, Entrusted
<1> QED BY <1>1, <1>2, <1>3 DEF Entrusted

(* Until somebody locks, restarts or puts a copy of the server back: of    *)
(* each record, what the server has and a machine has read, that machine   *)
(* shows, and what a machine was told the server has, the server has, but  *)
(* for plaintexts nobody is owed any more and those with a record of their *)
(* own; and every plaintext that is owed is shown somewhere.               *)
THEOREM SafekeepingInvariant == Spec => [](TypeOK /\ Entrusted)
<1>1. Init => Entrusted
  BY InitSafekeeping DEF Entrusted
<1>2. TypeOK /\ TypeOK' /\ Unminted /\ Agreement /\ Entrusted /\ [Next]_vars => Entrusted'
  BY EntrustedStep
<1> QED BY <1>1, <1>2, AgreementInvariant, PTL DEF Spec

(* No silent loss: whatever the interleaving of the machines' syncs, their *)
(* users, lost requests and replies and settings saves, a plaintext nobody *)
(* has replaced or deleted is still live on some machine or on the server  *)
(* (test/model.test.js, invariant A).                                      *)
THEOREM NothingIsLost == Spec => []NothingLostUnlocked
<1>1. ASSUME TypeOK, Entrusted PROVE NothingLostUnlocked
  <2> SUFFICES ASSUME Safekeeping, NEW b \in owed
               PROVE  \/ \E m \in Machines : b \in Reachable(vault[m])
                      \/ \E i \in Ids : Live(srv.recs[i]) /\ srv.recs[i].body = b
    BY <1>1 DEF Entrusted, Opened, NothingLostUnlocked, NoSilentLoss
  <2>1. PICK i \in Ids : Shown(Sight(i), b)
    BY DEF Safekeeping
  <2>2. CASE Carries(Sight(i).srv, b)
    BY <2>2, SightFields DEF Carries, Sight
  <2>3. CASE \E k \in Machines : Carries(Sight(i).env[k], b)
    <3>1. PICK k \in Machines : Carries(Sight(i).env[k], b)
      BY <2>3
    <3>2. Carries(vault[k].env[i], b)
      BY <3>1, SightFields
    <3> QED BY <3>2 DEF Carries, Reachable, LiveBodies
  <2> QED BY <2>1, <2>2, <2>3 DEF Shown
<1> QED BY <1>1, SafekeepingInvariant, PTL

=============================================================================
