--------------------------- MODULE LineageProofs ---------------------------
(***************************************************************************)
(* Which plaintext was made from which.                                    *)
(*                                                                         *)
(* A record never shows a plaintext its machine had moved past             *)
(* (NoRevertUndisturbed).  Revisions alone do not say so: the merge may    *)
(* keep an older body against a newer one and seal it above both.  What    *)
(* does is the inductive invariant Forward: a body that somebody is still  *)
(* about to send, or shows without the server having it, is one that no    *)
(* other machine has ever shown or sent.                                   *)
(***************************************************************************)
EXTENDS SyncProofs

Carries(e, b) == Live(e) /\ e.body = b

-----------------------------------------------------------------------------
(***************************************************************************)
(* One record of the vault, as all the machines and the server have it.    *)
(***************************************************************************)
(* What a machine has sent, or is about to, and has not been answered for. *)
InFlight(m, i) ==
  IF pc[m] \in Pushes \cup {"verify"} THEN job[m].push[i] ELSE None

Views == [srv : Maybe, fresh : Nat,
          env : [Machines -> Maybe], past : [Machines -> SUBSET Nat],
          base : [Machines -> Base],
          sent : [Machines -> Maybe], landed : [Machines -> BOOLEAN]]

View(i) ==
  [srv |-> srv.recs[i], fresh |-> fresh,
   env    |-> [k \in Machines |-> vault[k].env[i]],
   past   |-> [k \in Machines |-> {b \in Nat : <<i, b>> \in vault[k].past}],
   base   |-> [k \in Machines |-> state[k].synced[i]],
   sent   |-> [k \in Machines |-> InFlight(k, i)],
   landed |-> [k \in Machines |-> pc[k] = "verify"]]

(* A plaintext of k's alone: not on the server, and nobody else has shown  *)
(* it there or is sending it.                                              *)
Apart(w, k, b) ==
  /\ ~Carries(w.srv, b)
  /\ \A m \in Machines : m # k =>
       /\ b \notin w.past[m]
       /\ ~Carries(w.env[m], b) /\ ~Carries(w.sent[m], b)

(* Of e here and r on the server, with b the ancestor: the server had these*)
(* very bytes, and the machine knows.                                      *)
Known(e, r, b) == b = e.rev /\ r # None /\ (r = e \/ r.rev > e.rev)

(* A live record is known to be the server's, is being confirmed, or is    *)
(* its machine's alone.                                                    *)
Placed(w, k) ==
  Live(w.env[k]) => \/ Known(w.env[k], w.srv, w.base[k])
                    \/ w.landed[k] /\ w.sent[k] = w.env[k]
                    \/ Apart(w, k, w.env[k].body)

(* What is sent is its machine's alone until it lands; what the machine    *)
(* shows by then is that, or newer and of another body.                    *)
Sending(w, k) ==
  w.sent[k] # None =>
    /\ ~w.landed[k] /\ Live(w.sent[k]) => Apart(w, k, w.sent[k].body)
    /\ w.env[k] # None
    /\ \/ w.env[k] = w.sent[k]
       \/ /\ Outranks(w.env[k], w.sent[k])
          /\ Live(w.sent[k]) => ~Carries(w.env[k], w.sent[k].body)
    /\ w.base[k] = None \/ w.base[k] < w.sent[k].rev

(* A body is on both sides in one envelope only; the server may hold one   *)
(* that the machine moved past, but then below what the machine shows; and *)
(* the machine does not show one.                                          *)
Straight(w, k) ==
  /\ Live(w.env[k]) /\ Carries(w.srv, w.env[k].body) => w.env[k] = w.srv
  /\ Live(w.srv) /\ w.srv.body \in w.past[k] => w.srv.rev < w.env[k].rev
  /\ Live(w.env[k]) => w.env[k].body \notin w.past[k]
  /\ \A b \in w.past[k] : b < w.fresh /\ w.env[k] # None

(* No body is newer than the newest.                                       *)
Young(e, n) == Live(e) => e.body < n
AllYoung(w) ==
  /\ Young(w.srv, w.fresh)
  /\ \A k \in Machines : Young(w.env[k], w.fresh) /\ Young(w.sent[k], w.fresh)

Line(w) ==
  AllYoung(w) /\ \A k \in Machines : Placed(w, k) /\ Sending(w, k) /\ Straight(w, k)

YoungParked == \A k \in Machines : \A x \in vault[k].parked : Young(x.env, fresh)
Forward == YoungParked /\ \A i \in Ids : Line(View(i))

(* A fill, a sync cut short before its state is adopted and a server put   *)
(* back are what it does not cover.                                        *)
Cut == Met("request") \/ Met("ack") \/ Met("crash") \/ Met("restore")
Lineage == Did("touch") \/ Cut \/ Forward

LEMMA ViewType ==
  ASSUME TypeOK, NEW i \in Ids
  PROVE  View(i) \in Views
<1>1. ASSUME NEW k \in Machines
      PROVE  /\ vault[k].env[i] \in Maybe /\ state[k].synced[i] \in Base
             /\ InFlight(k, i) \in Maybe
  BY MachineTypes DEF EnvMap, State, Base, Maybe, InFlight
<1>2. srv.recs[i] \in Maybe /\ fresh \in Nat
  BY DEF TypeOK, Store, EnvMap, Maybe
<1> HIDE DEF InFlight
<1> QED BY <1>1, <1>2 DEF View, Views

LEMMA ViewTypeNext ==
  ASSUME TypeOK', NEW i \in Ids
  PROVE  View(i)' \in Views
<1>1. ASSUME NEW k \in Machines
      PROVE  /\ vault'[k].env[i] \in Maybe /\ state'[k].synced[i] \in Base
             /\ InFlight(k, i)' \in Maybe
  BY MachineTypesNext DEF EnvMap, State, Base, Maybe, InFlight
<1>2. srv'.recs[i] \in Maybe /\ fresh' \in Nat
  BY DEF TypeOK, Store, EnvMap, Maybe
<1> HIDE DEF InFlight
<1> QED BY <1>1, <1>2 DEF View, Views

LEMMA ViewParts ==
  ASSUME NEW w \in Views, NEW k \in Machines
  PROVE  /\ w.srv \in Maybe /\ w.fresh \in Nat /\ w.env[k] \in Maybe
         /\ w.past[k] \subseteq Nat /\ w.base[k] \in Base /\ w.sent[k] \in Maybe
         /\ w.landed[k] \in BOOLEAN
BY DEF Views

(* Revisions and bodies are numbers.                                       *)
LEMMA MaybeFacts ==
  ASSUME NEW e \in Maybe
  PROVE  e # None => /\ e \in Envelopes /\ e.rev \in Nat /\ e.body \in Nat
                     /\ e.deleted \in BOOLEAN
BY EnvelopeFacts DEF Maybe

-----------------------------------------------------------------------------
(***************************************************************************)
(* One record's merge.                                                     *)
(***************************************************************************)
(* What replaces the local envelope is the server's, not sent back, and not*)
(* below it when live; what is sent uncontested is above its ancestor; and *)
(* what is known to be the server's is neither sent nor parked.            *)
MergeTakes(l, r, b, o, x) ==
  /\ x # l => /\ x = r /\ ~o.push /\ o.synced = r.rev
              /\ Live(r) /\ l # None => r.rev >= l.rev
  /\ o.push /\ o.parked = None => o.synced = None \/ o.synced < l.rev
  /\ x = l /\ Live(l) /\ Known(l, r, b) =>
       ~o.push /\ o.parked = None /\ o.synced = l.rev

LEMMA MergeOfLine ==
  ASSUME NEW l \in Maybe, NEW r \in Maybe, NEW a \in {None, r}, NEW b \in Base,
         Bounded(l, r, b), l # None /\ r # None /\ l.seal = r.seal => l = r
  PROVE  MergeTakes(l, r, b, MergeOne(l, a, b), Adopt(l, MergeOne(l, a, b).env))
<1> DEFINE o == MergeOne(l, a, b)
           x == Adopt(l, o.env)
<1>0. /\ l # None => l.rev \in Nat /\ l.deleted \in BOOLEAN
      /\ r # None => r.rev \in Nat /\ r.deleted \in BOOLEAN
      /\ None \notin Nat /\ (b # None => b \in Nat)
  BY EnvelopeFacts, NoneAssumption DEF Maybe, Base
<1>1. CASE a = None /\ l = None
  <2>1. o = Outcome(None, b, None, FALSE, FALSE)
    BY <1>1 DEF MergeOne
  <2> QED BY <1>1, <2>1 DEF Outcome, Adopt, MergeTakes, Live
<1>2. CASE a = None /\ l # None
  <2>1. CASE b = l.rev
    <3>1. o = Outcome(l, b, None, FALSE, FALSE)
      BY <1>2, <2>1 DEF MergeOne, Agreed, OnlyLocal
    <3>2. x = l
      BY <3>1 DEF Outcome, Adopt
    <3> QED BY <1>2, <2>1, <3>1, <3>2 DEF Outcome, MergeTakes
  <2>2. CASE b # l.rev
    <3>1. o = Outcome(l, b, None, TRUE, FALSE)
      BY <1>2, <2>2 DEF MergeOne, Agreed, OnlyLocal
    <3>2. x = l
      BY <3>1 DEF Outcome, Adopt
    <3>3. b # None => b < l.rev
      BY <1>0, <1>2, <2>2 DEF Bounded
    <3> QED BY <2>2, <3>1, <3>2, <3>3 DEF Outcome, MergeTakes, Known
  <2> QED BY <2>1, <2>2
<1>3. CASE a # None /\ l = None
  <2>1. o = Outcome(r, r.rev, None, FALSE, FALSE)
    BY <1>3 DEF MergeOne
  <2>2. x = r /\ r # None
    BY <1>3, <2>1 DEF Outcome, Adopt
  <2> QED BY <1>3, <2>1, <2>2 DEF Outcome, MergeTakes, Live
<1>4. CASE a # None /\ l # None
  <2>1. a = r /\ r # None /\ o = BothPresent(l, r, b)
    BY <1>4 DEF MergeOne
  <2>2. CASE Agreed(l, r, b)
    <3>0. l = r
      BY <1>0, <1>4, <2>1, <2>2 DEF Agreed, SameBytes
    <3>1. o = Outcome(l, r.rev, None, FALSE, FALSE)
      BY <2>1, <2>2, <3>0, <1>0 DEF BothPresent, RolledBack, RemoteAhead, LocalAhead
    <3>2. x = l
      BY <3>1 DEF Outcome, Adopt
    <3> QED BY <3>0, <3>1, <3>2 DEF Outcome, MergeTakes
  <2>3. ~RolledBack(l, r, b)
    BY <1>0, <2>1 DEF RolledBack, Bounded
  <2>4. CASE ~Agreed(l, r, b) /\ RemoteAhead(l, r, b)
    <3>0. r.rev > l.rev /\ ~LocalAhead(l, r, b)
      BY <1>0, <1>4, <2>1, <2>4 DEF RemoteAhead, LocalAhead
    <3>1. o = Outcome(r, r.rev, None, FALSE, FALSE)
      BY <2>1, <2>3, <2>4, <3>0 DEF BothPresent
    <3>2. x = r
      BY <1>0, <1>4, <2>1, <3>0, <3>1 DEF Outcome, Adopt
    <3>3. x # l /\ r.rev >= l.rev
      BY <1>0, <1>4, <2>1, <3>0, <3>2
    <3> QED BY <3>1, <3>2, <3>3 DEF Outcome, MergeTakes
  <2>5. CASE ~Agreed(l, r, b) /\ ~RemoteAhead(l, r, b) /\ LocalAhead(l, r, b)
    <3>1. o = Outcome(l, b, None, TRUE, FALSE)
      BY <2>1, <2>3, <2>5 DEF BothPresent
    <3>2. x = l
      BY <3>1 DEF Outcome, Adopt
    <3>3. b < l.rev
      BY <1>0, <1>4, <2>1, <2>5 DEF LocalAhead, Bounded
    <3>4. ~Known(l, r, b)
      BY <1>0, <1>4, <2>1, <3>3 DEF Known
    <3> QED BY <3>1, <3>2, <3>3, <3>4 DEF Outcome, MergeTakes
  <2>6. CASE ~Agreed(l, r, b) /\ ~RemoteAhead(l, r, b) /\ ~LocalAhead(l, r, b)
    <3>1. o = Diverged(l, r, b)
      BY <2>1, <2>3, <2>6 DEF BothPresent
    <3>0. ASSUME Live(l) PROVE ~Known(l, r, b)
      <4>1. r # l
        BY <2>1, <2>6 DEF Agreed, SameBytes
      <4> QED BY <1>0, <1>4, <2>6, <3>0, <4>1 DEF Known, RemoteAhead, Live
    <3>2. CASE Descendant(l, r, b)
      <4>1. o = Outcome(r, r.rev, l, FALSE, FALSE) /\ r.rev > l.rev
        BY <3>1, <3>2 DEF Diverged, Descendant
      <4>2. x = r
        BY <1>0, <1>4, <2>1, <4>1 DEF Outcome, Adopt
      <4>3. r # l /\ r.rev >= l.rev
        BY ONLY <1>0, <1>4, <2>1, <4>1
      <4> QED BY <4>1, <4>2, <4>3 DEF Outcome, MergeTakes
    <3>3. CASE ~Descendant(l, r, b) /\ l.deleted
      <4>1. o = Outcome(l, r.rev, r, TRUE, FALSE)
        BY <3>1, <3>3 DEF Diverged
      <4>2. x = l
        BY <4>1 DEF Outcome, Adopt
      <4> QED BY <2>1, <3>0, <4>1, <4>2 DEF Outcome, MergeTakes
    <3>4. CASE ~Descendant(l, r, b) /\ ~l.deleted /\ r.deleted
      <4>1. o = Outcome(r, r.rev, l, FALSE, FALSE)
        BY <3>1, <3>4 DEF Diverged
      <4>2. x = r /\ r # l /\ ~Live(r)
        BY <3>4, <4>1 DEF Outcome, Adopt, Live
      <4> QED BY <1>4, <2>1, <4>1, <4>2 DEF Outcome, MergeTakes
    <3>5. CASE ~Descendant(l, r, b) /\ ~l.deleted /\ ~r.deleted
      <4>1. o = Outcome(l, b, r, TRUE, FALSE)
        BY <3>1, <3>5 DEF Diverged
      <4>2. x = l
        BY <4>1 DEF Outcome, Adopt
      <4> QED BY <2>1, <3>0, <4>1, <4>2 DEF Outcome, MergeTakes
    <3> QED BY <3>2, <3>3, <3>4, <3>5
  <2> QED BY <2>2, <2>4, <2>5, <2>6
<1> QED BY <1>1, <1>2, <1>3, <1>4

-----------------------------------------------------------------------------
(***************************************************************************)
(* What a step makes of a record, and that the line holds.                 *)
(***************************************************************************)
(* A machine that keeps what it has of the record, its request perhaps     *)
(* given up before it was accepted.                                        *)
Keeps(w, v, k) ==
  /\ v.env[k] = w.env[k] /\ v.base[k] = w.base[k] /\ v.past[k] = w.past[k]
  /\ \/ v.sent[k] = w.sent[k] /\ v.landed[k] = w.landed[k]
     \/ v.sent[k] = None /\ ~v.landed[k] /\ ~w.landed[k]
Others(w, v, m) ==
  \A k \in Machines : k # m =>
    /\ v.env[k] = w.env[k] /\ v.base[k] = w.base[k] /\ v.past[k] = w.past[k]
    /\ v.sent[k] = w.sent[k] /\ v.landed[k] = w.landed[k]

Steady(w, v) ==
  /\ v.srv = w.srv /\ v.fresh >= w.fresh
  /\ \A k \in Machines : Keeps(w, v, k)

LEMMA SteadyLine ==
  ASSUME NEW w \in Views, NEW v \in Views, Line(w), Steady(w, v)
  PROVE  Line(v)
<1>1. ASSUME NEW e \in Maybe, Young(e, w.fresh) PROVE Young(e, v.fresh)
  BY <1>1, MaybeFacts DEF Young, Live, Views, Steady
<1>2. ASSUME NEW k \in Machines
      PROVE  /\ v.env[k] = w.env[k] /\ v.base[k] = w.base[k] /\ v.past[k] = w.past[k]
             /\ \/ v.sent[k] = w.sent[k] /\ v.landed[k] = w.landed[k]
                \/ v.sent[k] = None /\ ~v.landed[k] /\ ~w.landed[k]
  BY DEF Steady, Keeps
<1>3. v.srv = w.srv /\ v.fresh >= w.fresh
  BY DEF Steady
<1>4. ASSUME NEW k \in Machines, NEW b, Apart(w, k, b) PROVE Apart(v, k, b)
  BY <1>2, <1>3, <1>4 DEF Apart, Carries, Live
<1>5. AllYoung(v)
  <2>1. Young(None, v.fresh)
    BY DEF Young, Live
  <2>2. ASSUME NEW k \in Machines
        PROVE  Young(w.srv, v.fresh) /\ Young(w.env[k], v.fresh) /\ Young(w.sent[k], v.fresh)
    BY <1>1, ViewParts DEF Line, AllYoung
  <2>3. ASSUME NEW k \in Machines
        PROVE  Young(v.env[k], v.fresh) /\ Young(v.sent[k], v.fresh)
    BY <1>2, <2>1, <2>2
  <2>4. Young(v.srv, v.fresh)
    BY <1>1, <1>3 DEF Line, AllYoung, Views
  <2> QED BY <2>3, <2>4 DEF AllYoung
<1>6. ASSUME NEW k \in Machines PROVE Placed(v, k) /\ Sending(v, k) /\ Straight(v, k)
  <2>1. Placed(w, k) /\ Sending(w, k) /\ Straight(w, k)
    BY DEF Line
  <2>2. Placed(v, k)
    BY <1>2, <1>3, <1>4, <2>1 DEF Placed
  <2>3. Sending(v, k)
    BY <1>2, <1>3, <1>4, <2>1 DEF Sending
  <2>4. Straight(v, k)
    BY <1>2, <1>3, <2>1, ViewParts DEF Straight
  <2> QED BY <2>2, <2>3, <2>4
<1> QED BY <1>5, <1>6 DEF Line

(* A person writes it, or deletes it.                                      *)
Authored(w, v, m) ==
  /\ v.srv = w.srv /\ v.fresh > w.fresh /\ Others(w, v, m)
  /\ v.base[m] = w.base[m] /\ v.sent[m] = w.sent[m] /\ v.landed[m] = w.landed[m]
  /\ v.env[m] # None /\ (Live(v.env[m]) => v.env[m].body = w.fresh)
  /\ IF w.env[m] = None THEN w.srv = None ELSE Outranks(v.env[m], w.env[m])
  /\ \A b \in v.past[m] : b \in w.past[m] \/ Carries(w.env[m], b)

LEMMA AuthoredLine ==
  ASSUME NEW w \in Views, NEW v \in Views, NEW m \in Machines, Line(w), Authored(w, v, m)
  PROVE  Line(v)
<1> DEFINE l == w.env[m]
           y == v.env[m]
<1>1. /\ v.srv = w.srv /\ v.fresh > w.fresh /\ v.fresh \in Nat /\ w.fresh \in Nat
      /\ v.base[m] = w.base[m] /\ v.sent[m] = w.sent[m] /\ v.landed[m] = w.landed[m]
      /\ y # None /\ (Live(y) => y.body = w.fresh) /\ (l = None => w.srv = None)
      /\ l # None => Outranks(y, l)
      /\ \A b \in v.past[m] : b \in w.past[m] \/ Carries(l, b)
  BY ViewParts DEF Authored
<1>2. ASSUME NEW k \in Machines, k # m
      PROVE  /\ v.env[k] = w.env[k] /\ v.base[k] = w.base[k] /\ v.past[k] = w.past[k]
             /\ v.sent[k] = w.sent[k] /\ v.landed[k] = w.landed[k]
  BY <1>2 DEF Authored, Others
<1>3. ASSUME NEW k \in Machines
      PROVE  /\ Placed(w, k) /\ Sending(w, k) /\ Straight(w, k)
             /\ Young(w.srv, w.fresh) /\ Young(w.env[k], w.fresh) /\ Young(w.sent[k], w.fresh)
  BY DEF Line, AllYoung
<1>4. ASSUME NEW e \in Maybe, Young(e, w.fresh)
      PROVE  Young(e, v.fresh) /\ ~Carries(e, w.fresh)
  BY <1>1, <1>4, MaybeFacts DEF Young, Live, Carries
<1>5. AllYoung(v)
  <2>1. Young(y, v.fresh)
    BY <1>1 DEF Young
  <2>2. \A k \in Machines : Young(v.sent[k], v.fresh) /\ (k # m => Young(v.env[k], v.fresh))
    BY <1>1, <1>2, <1>3, <1>4, ViewParts
  <2> QED BY <1>1, <1>3, <1>4, <2>1, <2>2, ViewParts DEF AllYoung
(* Nobody else has the new body, and what was another's alone still is.    *)
<1>6. Apart(v, m, w.fresh)
  <2>1. ~Carries(v.srv, w.fresh)
    BY <1>1, <1>3, <1>4, ViewParts
  <2>2. ASSUME NEW k \in Machines, k # m
        PROVE  /\ w.fresh \notin v.past[k]
               /\ ~Carries(v.env[k], w.fresh) /\ ~Carries(v.sent[k], w.fresh)
    <3>1. w.fresh \notin w.past[k]
      BY <1>1, <1>3 DEF Straight
    <3> QED BY <1>2, <1>3, <1>4, <2>2, <3>1, ViewParts
  <2> QED BY <2>1, <2>2 DEF Apart
<1>7. ASSUME NEW k \in Machines, NEW b \in Nat, b < w.fresh, Apart(w, k, b)
      PROVE  Apart(v, k, b)
  <2>1. ~Carries(v.srv, b)
    BY <1>1, <1>7 DEF Apart
  <2>2. ASSUME NEW j \in Machines, j # k
        PROVE  b \notin v.past[j] /\ ~Carries(v.env[j], b) /\ ~Carries(v.sent[j], b)
    <3>1. b \notin w.past[j] /\ ~Carries(w.env[j], b) /\ ~Carries(w.sent[j], b)
      BY <1>7, <2>2 DEF Apart
    <3>2. CASE j # m
      BY <1>2, <3>1, <3>2
    <3>3. CASE j = m
      <4>1. b \notin v.past[m]
        BY <1>1, <3>1, <3>3
      <4>2. ~Carries(y, b)
        BY <1>1, <1>7 DEF Carries
      <4> QED BY <1>1, <3>1, <3>3, <4>1, <4>2
    <3> QED BY <3>2, <3>3
  <2> QED BY <2>1, <2>2 DEF Apart
<1>8. ASSUME NEW k \in Machines
      PROVE  /\ Live(w.env[k]) => w.env[k].body \in Nat /\ w.env[k].body < w.fresh
             /\ Live(w.sent[k]) => w.sent[k].body \in Nat /\ w.sent[k].body < w.fresh
  BY <1>3, ViewParts, MaybeFacts DEF Young, Live
<1>9. ASSUME NEW k \in Machines, k # m
      PROVE  Placed(v, k) /\ Sending(v, k) /\ Straight(v, k)
  <2>1. Placed(v, k)
    BY <1>1, <1>2, <1>3, <1>7, <1>8, <1>9 DEF Placed
  <2>2. Sending(v, k)
    BY <1>1, <1>2, <1>3, <1>7, <1>8, <1>9 DEF Sending
  <2>3. Straight(v, k)
    BY <1>1, <1>2, <1>3, <1>9, ViewParts DEF Straight
  <2> QED BY <2>1, <2>2, <2>3
<1>10. Placed(v, m)
  BY <1>1, <1>6 DEF Placed
<1>11. Sending(v, m)
  <2> SUFFICES ASSUME w.sent[m] # None PROVE Sending(v, m)
    BY <1>1 DEF Sending
  <2> DEFINE p == w.sent[m]
  <2>1. /\ ~w.landed[m] /\ Live(p) => Apart(w, m, p.body)
        /\ l # None /\ (l = p \/ Outranks(l, p))
        /\ w.base[m] = None \/ w.base[m] < p.rev
    BY <1>3 DEF Sending
  <2>2. y \in Envelopes /\ l \in Envelopes /\ p \in Envelopes
    BY <1>1, <2>1, ViewParts DEF Maybe
  <2>3. Outranks(y, p)
    BY <1>1, <2>1, <2>2, OutranksTransitive
  <2>4. Live(p) => ~Carries(y, p.body)
    BY <1>1, <1>8 DEF Carries
  <2>5. ~w.landed[m] /\ Live(p) => Apart(v, m, p.body)
    BY <1>7, <1>8, <2>1
  <2> QED BY <1>1, <2>1, <2>3, <2>4, <2>5 DEF Sending
<1>12. Straight(v, m)
  <2>1. Live(y) => ~Carries(v.srv, y.body)
    BY <1>1, <1>3, <1>4, ViewParts
  <2>2. ASSUME Live(v.srv), v.srv.body \in v.past[m] PROVE v.srv.rev < y.rev
    <3>1. l # None
      BY <1>1, <2>2 DEF Live
    <3>2. v.srv.rev \in Nat /\ l.rev \in Nat /\ y.rev \in Nat /\ y.rev > l.rev
      BY <1>1, <2>2, <3>1, ViewParts, MaybeFacts DEF Live, Outranks
    <3>3. CASE v.srv.body \in w.past[m]
      BY <1>1, <1>3, <2>2, <3>2, <3>3 DEF Straight
    <3>4. CASE Carries(l, v.srv.body)
      <4>1. l = w.srv
        BY <1>1, <1>3, <2>2, <3>4 DEF Straight, Carries
      <4> QED BY <1>1, <3>2, <4>1
    <3> QED BY <1>1, <2>2, <3>3, <3>4
  <2>3. \A b \in v.past[m] : b < w.fresh
    BY <1>1, <1>3, <1>8 DEF Straight, Carries
  <2>4. Live(y) => y.body \notin v.past[m]
    BY <1>1, <2>3
  <2>5. \A b \in v.past[m] : b < v.fresh
    BY <1>1, <2>3, ViewParts
  <2> QED BY <1>1, <2>1, <2>2, <2>4, <2>5 DEF Straight
<1> QED BY <1>5, <1>9, <1>10, <1>11, <1>12 DEF Line

(* A parked envelope becomes a record of its own, where nothing stood.     *)
Forked(w, v, m) ==
  /\ v.srv = None /\ w.srv = None /\ v.fresh >= w.fresh /\ Others(w, v, m)
  /\ \A k \in Machines : w.env[k] = None /\ w.sent[k] = None
  /\ v.env[m] # None /\ Young(v.env[m], v.fresh) /\ v.past[m] = w.past[m]
  /\ v.sent[m] \in {None, v.env[m]} /\ v.base[m] = None

LEMMA ForkedLine ==
  ASSUME NEW w \in Views, NEW v \in Views, NEW m \in Machines, Line(w), Forked(w, v, m)
  PROVE  Line(v)
<1>1. ASSUME NEW k \in Machines
      PROVE  /\ k # m => v.env[k] = None /\ v.sent[k] = None
             /\ v.past[k] = {}
  <2>1. w.past[k] = {}
    BY DEF Line, Straight, Forked
  <2> QED BY <2>1 DEF Forked, Others
<1>2. AllYoung(v)
  BY <1>1 DEF Forked, AllYoung, Young, Live
<1>3. \A b : Apart(v, m, b)
  BY <1>1 DEF Apart, Forked, Carries, Live
<1>4. ASSUME NEW k \in Machines, k # m
      PROVE  Placed(v, k) /\ Sending(v, k) /\ Straight(v, k)
  BY <1>1, <1>4 DEF Placed, Sending, Straight, Live, Forked
<1>5. Placed(v, m) /\ Sending(v, m) /\ Straight(v, m)
  BY <1>1, <1>3 DEF Placed, Sending, Straight, Live, Carries, Forked
<1> QED BY <1>2, <1>4, <1>5 DEF Line

(* A pull leaves the local envelope, or takes the server's, or keeps the   *)
(* local one against the server's and seals it above both.                 *)
LeftAsIs(w, v, m) ==
  /\ v.env[m] = w.env[m]
  /\ Live(w.env[m]) /\ Known(w.env[m], w.srv, w.base[m]) =>
       v.sent[m] = None /\ v.base[m] = w.base[m]
  /\ v.sent[m] # None => v.base[m] = None \/ v.base[m] < w.env[m].rev
Replaced(w, v, m) ==
  /\ v.env[m] = w.srv /\ w.srv # None /\ v.sent[m] = None /\ v.base[m] = w.srv.rev
  /\ Live(w.srv) /\ w.env[m] # None => w.srv.rev >= w.env[m].rev
Resealed(w, v, m) ==
  /\ w.env[m] # None /\ w.srv # None /\ v.env[m] # None
  /\ ~(Live(w.env[m]) /\ Known(w.env[m], w.srv, w.base[m]))
  /\ v.env[m].rev > w.env[m].rev /\ v.env[m].rev > w.srv.rev
  /\ v.env[m].deleted = w.env[m].deleted /\ v.env[m].body = w.env[m].body
  /\ v.base[m] = None \/ v.base[m] < v.env[m].rev

Took(w, v, m) ==
  /\ v.srv = w.srv /\ v.fresh >= w.fresh /\ Others(w, v, m)
  /\ w.sent[m] = None /\ ~w.landed[m] /\ ~v.landed[m]
  /\ v.sent[m] \in {None, v.env[m]}
  /\ LeftAsIs(w, v, m) \/ Replaced(w, v, m) \/ Resealed(w, v, m)
  /\ \A b \in v.past[m] :
       b \in w.past[m] \/ (Carries(w.env[m], b) /\ ~Carries(v.env[m], b))

LEMMA TookLine ==
  ASSUME NEW w \in Views, NEW v \in Views, NEW m \in Machines, Line(w), Took(w, v, m)
  PROVE  Line(v)
<1> DEFINE l == w.env[m]
           r == w.srv
           y == v.env[m]
<1>1. /\ v.srv = r /\ v.fresh >= w.fresh /\ v.fresh \in Nat /\ w.fresh \in Nat
      /\ w.sent[m] = None /\ ~w.landed[m] /\ ~v.landed[m] /\ v.sent[m] \in {None, y}
      /\ \A b \in v.past[m] : b \in w.past[m] \/ (Carries(l, b) /\ ~Carries(y, b))
      /\ l \in Maybe /\ r \in Maybe /\ y \in Maybe /\ w.base[m] \in Base /\ v.base[m] \in Base
  BY ViewParts DEF Took
<1>2. ASSUME NEW k \in Machines, k # m
      PROVE  /\ v.env[k] = w.env[k] /\ v.base[k] = w.base[k] /\ v.past[k] = w.past[k]
             /\ v.sent[k] = w.sent[k] /\ v.landed[k] = w.landed[k]
  BY <1>2 DEF Took, Others
<1>3. ASSUME NEW k \in Machines
      PROVE  /\ Placed(w, k) /\ Sending(w, k) /\ Straight(w, k)
             /\ Young(r, w.fresh) /\ Young(w.env[k], w.fresh) /\ Young(w.sent[k], w.fresh)
  BY DEF Line, AllYoung
<1>4. LeftAsIs(w, v, m) \/ Replaced(w, v, m) \/ Resealed(w, v, m)
  BY DEF Took
<1>5. ASSUME NEW b, Carries(y, b) PROVE Carries(l, b) \/ Carries(r, b)
  BY <1>1, <1>4, <1>5 DEF LeftAsIs, Replaced, Resealed, Carries, Live
<1>6. ASSUME NEW e \in Maybe, Young(e, w.fresh) PROVE Young(e, v.fresh)
  BY <1>1, <1>6, MaybeFacts DEF Young, Live
<1>7. AllYoung(v)
  <2>1. Young(y, v.fresh)
    BY <1>1, <1>3, <1>5, <1>6 DEF Young, Carries
  <2>2. Young(v.sent[m], v.fresh)
    BY <1>1, <2>1 DEF Young, Live
  <2>3. ASSUME NEW k \in Machines, k # m
        PROVE  Young(v.env[k], v.fresh) /\ Young(v.sent[k], v.fresh)
    BY <1>2, <1>3, <1>6, <2>3, ViewParts
  <2> QED BY <1>1, <1>3, <1>6, <2>1, <2>2, <2>3 DEF AllYoung
(* What was a machine's alone still is: nobody has got more than the       *)
(* server and m had already.                                               *)
<1>8. ASSUME NEW k \in Machines, NEW b, Apart(w, k, b) PROVE Apart(v, k, b)
  <2>1. ASSUME m # k PROVE ~Carries(y, b) /\ ~Carries(v.sent[m], b) /\ b \notin v.past[m]
    <3>1. ~Carries(r, b) /\ ~Carries(l, b) /\ b \notin w.past[m]
      BY <1>8, <2>1 DEF Apart
    <3>2. ~Carries(y, b)
      BY <1>5, <3>1
    <3> QED BY <1>1, <3>1, <3>2 DEF Carries, Live
  <2> QED BY <1>1, <1>2, <1>8, <2>1 DEF Apart
<1>9. ASSUME NEW k \in Machines, k # m
      PROVE  Placed(v, k) /\ Sending(v, k) /\ Straight(v, k)
  <2>1. Placed(v, k)
    BY <1>1, <1>2, <1>3, <1>8, <1>9 DEF Placed
  <2>2. Sending(v, k)
    BY <1>1, <1>2, <1>3, <1>8, <1>9 DEF Sending
  <2>3. Straight(v, k)
    BY <1>1, <1>2, <1>3, <1>9, ViewParts DEF Straight
  <2> QED BY <2>1, <2>2, <2>3
<1>10. ASSUME Live(l), ~Known(l, r, w.base[m]) PROVE Apart(v, m, l.body)
  BY <1>1, <1>3, <1>8, <1>10 DEF Placed
<1>11. /\ l # None => l.rev \in Nat /\ l.deleted \in BOOLEAN
       /\ r # None => r.rev \in Nat
       /\ y # None => y.rev \in Nat /\ y.deleted \in BOOLEAN
  BY <1>1, MaybeFacts
<1>12. CASE LeftAsIs(w, v, m)
  <2>1. Placed(v, m)
    BY <1>1, <1>10, <1>12 DEF LeftAsIs, Placed
  <2>2. Sending(v, m)
    BY <1>1, <1>10, <1>12 DEF LeftAsIs, Sending
  <2>3. v.past[m] \subseteq w.past[m]
    BY <1>1, <1>12 DEF LeftAsIs
  <2>4. Straight(v, m)
    BY <1>1, <1>3, <1>12, <2>3, ViewParts DEF LeftAsIs, Straight
  <2> QED BY <1>7, <1>9, <2>1, <2>2, <2>4 DEF Line
<1>13. CASE Replaced(w, v, m)
  <2>1. Placed(v, m)
    BY <1>1, <1>13 DEF Replaced, Placed, Known
  <2>2. Sending(v, m)
    BY <1>13 DEF Replaced, Sending
  <2>3. Live(r) => r.body \notin w.past[m]
    BY <1>3, <1>11, <1>13 DEF Replaced, Straight, Live
  <2>4. Live(r) => r.body \notin v.past[m]
    BY <1>1, <1>13, <2>3 DEF Replaced, Carries
  <2>5. ASSUME NEW b \in v.past[m] PROVE b < v.fresh /\ y # None
    <3>1. b < w.fresh /\ b \in Nat
      BY <1>1, <1>3, <2>5, MaybeFacts, ViewParts DEF Straight, Carries, Young
    <3> QED BY <1>1, <1>13, <3>1 DEF Replaced
  <2>6. Straight(v, m)
    BY <1>1, <1>13, <2>4, <2>5 DEF Replaced, Straight
  <2> QED BY <1>7, <1>9, <2>1, <2>2, <2>6 DEF Line
<1>14. CASE Resealed(w, v, m)
  <2>1. Live(y) <=> Live(l)
    BY <1>11, <1>14 DEF Resealed, Live
  <2>2. Live(y) => Apart(v, m, y.body)
    BY <1>10, <1>14, <2>1 DEF Resealed
  <2>3. Placed(v, m) /\ Sending(v, m)
    BY <1>1, <1>14, <2>2 DEF Resealed, Placed, Sending
  <2>4. v.past[m] \subseteq w.past[m]
    BY <1>1, <1>14, <2>1 DEF Resealed, Carries
  <2>5. Straight(v, m)
    BY <1>1, <1>3, <1>11, <1>14, <2>1, <2>2, <2>4, ViewParts
       DEF Resealed, Straight, Apart, Live
  <2> QED BY <1>7, <1>9, <2>3, <2>5 DEF Line
<1> QED BY <1>4, <1>12, <1>13, <1>14

(* A push lands.                                                           *)
Landing(w, v, m) ==
  /\ v.srv = (IF w.sent[m] # None THEN w.sent[m] ELSE w.srv)
  /\ w.sent[m] # None /\ w.srv # None => w.sent[m].rev > w.srv.rev
  /\ v.fresh = w.fresh /\ Others(w, v, m)
  /\ v.env[m] = w.env[m] /\ v.base[m] = w.base[m] /\ v.past[m] = w.past[m]
  /\ v.sent[m] = w.sent[m] /\ ~w.landed[m] /\ v.landed[m]

LEMMA LandingLine ==
  ASSUME NEW w \in Views, NEW v \in Views, NEW m \in Machines, Line(w), Landing(w, v, m)
  PROVE  Line(v)
<1> DEFINE p == w.sent[m]
           l == w.env[m]
<1>1. /\ v.srv = (IF p # None THEN p ELSE w.srv) /\ v.fresh = w.fresh
      /\ p # None /\ w.srv # None => p.rev > w.srv.rev
      /\ ~w.landed[m] /\ v.landed[m]
  BY DEF Landing
<1>2. ASSUME NEW k \in Machines
      PROVE  /\ v.env[k] = w.env[k] /\ v.base[k] = w.base[k] /\ v.past[k] = w.past[k]
             /\ v.sent[k] = w.sent[k] /\ (k # m => v.landed[k] = w.landed[k])
  BY <1>2 DEF Landing, Others
<1>3. ASSUME NEW k \in Machines
      PROVE  Placed(w, k) /\ Sending(w, k) /\ Straight(w, k)
  BY DEF Line
<1>4. AllYoung(v)
  BY <1>1, <1>2 DEF Line, AllYoung
<1>5. ASSUME NEW k \in Machines
      PROVE  /\ w.env[k] # None => w.env[k].rev \in Nat
             /\ w.sent[k] # None => w.sent[k].rev \in Nat
             /\ w.srv # None => w.srv.rev \in Nat
             /\ w.base[k] # None => w.base[k] \in Nat
             /\ None \notin Nat
  BY ViewParts, MaybeFacts, NoneAssumption DEF Base
<1>6. ASSUME p = None PROVE Line(v)
  <2>1. ASSUME NEW k \in Machines, NEW b, Apart(w, k, b) PROVE Apart(v, k, b)
    BY <1>1, <1>2, <1>6, <2>1 DEF Apart
  <2>2. ASSUME NEW k \in Machines PROVE Placed(v, k) /\ Sending(v, k) /\ Straight(v, k)
    <3>1. Placed(v, k)
      BY <1>1, <1>2, <1>3, <1>6, <2>1 DEF Placed
    <3>2. Sending(v, k)
      BY <1>1, <1>2, <1>3, <1>6, <2>1 DEF Sending
    <3>3. Straight(v, k)
      BY <1>1, <1>2, <1>3, <1>6 DEF Straight
    <3> QED BY <3>1, <3>2, <3>3
  <2> QED BY <1>4, <2>2 DEF Line
<1>7. CASE p # None
  (* What was another's alone was not what m sent.                         *)
  <2>1. ASSUME NEW k \in Machines, NEW b, Apart(w, k, b), k # m \/ ~Carries(p, b)
        PROVE  Apart(v, k, b)
    BY <1>1, <1>2, <1>7, <2>1 DEF Apart
  <2>2. Live(p) => Apart(w, m, p.body)
    BY <1>1, <1>3, <1>7 DEF Sending
  <2>3. ASSUME NEW k \in Machines, k # m
        PROVE  Placed(v, k) /\ Sending(v, k) /\ Straight(v, k)
    <3>1. Known(w.env[k], w.srv, w.base[k]) /\ Live(w.env[k])
            => Known(v.env[k], v.srv, v.base[k])
      BY <1>1, <1>2, <1>5, <1>7 DEF Known, Live
    <3>2. Placed(v, k)
      BY <1>2, <1>3, <2>1, <2>3, <3>1 DEF Placed
    <3>3. Sending(v, k)
      BY <1>2, <1>3, <2>1, <2>3 DEF Sending
    <3>4. Straight(v, k)
      <4>1. /\ ~(Live(w.env[k]) /\ Carries(p, w.env[k].body))
            /\ ~(Live(p) /\ p.body \in w.past[k])
        BY <2>2, <2>3 DEF Apart, Carries
      <4> QED BY <1>1, <1>2, <1>3, <1>7, <4>1 DEF Straight
    <3> QED BY <3>2, <3>3, <3>4
  <2>4. /\ l # None /\ (w.base[m] = None \/ w.base[m] < p.rev)
        /\ \/ l = p
           \/ Outranks(l, p) /\ (Live(p) => ~Carries(l, p.body))
    BY <1>3, <1>7 DEF Sending
  <2>5. Placed(v, m)
    <3>1. CASE l = p
      BY <1>1, <1>2, <3>1 DEF Placed
    <3>2. CASE Live(l) /\ Outranks(l, p) /\ (Live(p) => ~Carries(l, p.body))
      <4>1. ~Known(l, w.srv, w.base[m])
        BY <1>5, <1>7, <2>4, <3>2 DEF Known, Outranks
      <4>2. Apart(w, m, l.body)
        BY <1>1, <1>3, <3>2, <4>1 DEF Placed
      <4>3. ~Carries(p, l.body)
        BY <3>2 DEF Carries
      <4> QED BY <1>2, <2>1, <4>2, <4>3 DEF Placed
    <3> QED BY <1>2, <2>4, <3>1, <3>2 DEF Placed
  <2>6. Sending(v, m)
    BY <1>1, <1>2, <1>3 DEF Sending
  <2>7. Straight(v, m)
    <3>1. Live(l) /\ Carries(p, l.body) => l = p
      BY <2>4 DEF Carries
    <3>2. Live(p) /\ p.body \in w.past[m] => p.rev < l.rev
      <4>1. Live(l) => l.body \notin w.past[m]
        BY <1>3 DEF Straight
      <4> QED BY <1>5, <1>7, <2>4, <4>1 DEF Outranks
    <3> QED BY <1>1, <1>2, <1>3, <1>7, <3>1, <3>2 DEF Straight
  <2> QED BY <1>4, <2>3, <2>5, <2>6, <2>7 DEF Line
<1> QED BY <1>6, <1>7

(* A push is confirmed.                                                    *)
Confirming(w, v, m) ==
  /\ v.srv = w.srv /\ v.fresh = w.fresh /\ Others(w, v, m)
  /\ v.env[m] = w.env[m] /\ v.past[m] = w.past[m]
  /\ v.sent[m] = None /\ ~v.landed[m]
  /\ v.base[m] = (IF w.sent[m] # None THEN w.sent[m].rev ELSE w.base[m])
  /\ w.sent[m] # None =>
       w.srv # None /\ (w.srv = w.sent[m] \/ w.srv.rev > w.sent[m].rev)

LEMMA ConfirmingLine ==
  ASSUME NEW w \in Views, NEW v \in Views, NEW m \in Machines, Line(w), Confirming(w, v, m)
  PROVE  Line(v)
<1> DEFINE p == w.sent[m]
           l == w.env[m]
<1>1. /\ v.srv = w.srv /\ v.fresh = w.fresh /\ v.sent[m] = None /\ ~v.landed[m]
      /\ v.base[m] = (IF p # None THEN p.rev ELSE w.base[m])
      /\ p # None => w.srv # None /\ (w.srv = p \/ w.srv.rev > p.rev)
  BY DEF Confirming
<1>2. ASSUME NEW k \in Machines
      PROVE  /\ v.env[k] = w.env[k] /\ v.past[k] = w.past[k]
             /\ k # m => /\ v.base[k] = w.base[k] /\ v.sent[k] = w.sent[k]
                         /\ v.landed[k] = w.landed[k]
  BY <1>2 DEF Confirming, Others
<1>3. ASSUME NEW k \in Machines
      PROVE  Placed(w, k) /\ Sending(w, k) /\ Straight(w, k)
  BY DEF Line
<1>4. AllYoung(v)
  BY <1>1, <1>2 DEF Line, AllYoung, Young, Live
<1>5. ASSUME NEW k \in Machines, NEW b, Apart(w, k, b) PROVE Apart(v, k, b)
  BY <1>1, <1>2, <1>5 DEF Apart, Carries, Live
<1>6. ASSUME NEW k \in Machines, k # m
      PROVE  Placed(v, k) /\ Sending(v, k)
  BY <1>1, <1>2, <1>3, <1>5, <1>6 DEF Placed, Sending
<1>7. ASSUME NEW k \in Machines PROVE Straight(v, k)
  BY <1>1, <1>2, <1>3 DEF Straight
<1>8. Sending(v, m)
  BY <1>1 DEF Sending
<1>9. Placed(v, m)
  <2> SUFFICES ASSUME Live(l)
               PROVE  Known(l, v.srv, v.base[m]) \/ Apart(v, m, l.body)
    BY <1>2 DEF Placed
  <2>1. CASE p = None
    BY <1>1, <1>3, <1>5, <2>1 DEF Placed, Live
  <2>2. CASE p # None /\ l = p
    BY <1>1, <2>2 DEF Known
  <2>3. CASE p # None /\ l # p
    <3>1. Outranks(l, p) /\ (w.base[m] = None \/ w.base[m] < p.rev)
      BY <1>3, <2>3 DEF Sending
    <3>2. l.rev \in Nat /\ p.rev \in Nat /\ None \notin Nat /\ w.base[m] \in Base
      BY <2>3, ViewParts, MaybeFacts, NoneAssumption DEF Live
    <3>3. ~Known(l, w.srv, w.base[m])
      BY <3>1, <3>2 DEF Known, Outranks, Base
    <3> QED BY <1>3, <1>5, <2>3, <3>3 DEF Placed
  <2> QED BY <2>1, <2>2, <2>3
<1> QED BY <1>4, <1>6, <1>7, <1>8, <1>9 DEF Line

-----------------------------------------------------------------------------
(***************************************************************************)
(* Each step of a machine, record by record.                               *)
(***************************************************************************)
(* The rest of the machines, in a step of m.                               *)
Beside(m) ==
  \A k \in Machines : k # m =>
    /\ vault'[k] = vault[k] /\ state'[k] = state[k]
    /\ job'[k] = job[k] /\ pc'[k] = pc[k]

LEMMA BesideOthers ==
  ASSUME NEW m \in Machines, Beside(m), NEW i \in Ids
  PROVE  Others(View(i), View(i)', m)
BY DEF Beside, Others, View, InFlight

(* A view's fields, before and after.                                      *)
LEMMA ViewFields ==
  ASSUME NEW k \in Machines, NEW i \in Ids
  PROVE  /\ View(i).srv = srv.recs[i] /\ View(i).fresh = fresh
         /\ View(i).env[k] = vault[k].env[i] /\ View(i).base[k] = state[k].synced[i]
         /\ View(i).past[k] = {b \in Nat : <<i, b>> \in vault[k].past}
         /\ View(i).sent[k] = InFlight(k, i) /\ View(i).landed[k] = (pc[k] = "verify")
         /\ View(i)'.srv = srv'.recs[i] /\ View(i)'.fresh = fresh'
         /\ View(i)'.env[k] = vault'[k].env[i] /\ View(i)'.base[k] = state'[k].synced[i]
         /\ View(i)'.past[k] = {b \in Nat : <<i, b>> \in vault'[k].past}
         /\ View(i)'.sent[k] = InFlight(k, i)' /\ View(i)'.landed[k] = (pc'[k] = "verify")
BY DEF View

(* What a machine's step leaves of its record i, and of its request.       *)
SameFlight(m, i) ==
  \/ pc'[m] = pc[m] /\ job'[m].push[i] = job[m].push[i]
  \/ pc[m] # "verify" /\ pc'[m] \notin Pushes \cup {"verify"}
SteadyAt(m, i) ==
  /\ vault'[m].env[i] = vault[m].env[i] /\ state'[m].synced[i] = state[m].synced[i]
  /\ \A b \in Nat : <<i, b>> \in vault'[m].past <=> <<i, b>> \in vault[m].past
  /\ SameFlight(m, i)

LEMMA SteadyView ==
  ASSUME NEW m \in Machines, NEW i \in Ids, Beside(m), SteadyAt(m, i),
         srv'.recs[i] = srv.recs[i], fresh' >= fresh
  PROVE  Steady(View(i), View(i)')
<1>1. Others(View(i), View(i)', m)
  BY BesideOthers
<1>2. \/ InFlight(m, i)' = InFlight(m, i) /\ (pc'[m] = "verify") = (pc[m] = "verify")
      \/ InFlight(m, i)' = None /\ pc'[m] # "verify" /\ pc[m] # "verify"
  BY DEF SteadyAt, SameFlight, InFlight
<1> HIDE DEF InFlight
<1>3. Keeps(View(i), View(i)', m)
  BY <1>2, ViewFields DEF Keeps, SteadyAt
<1>4. View(i)'.srv = View(i).srv /\ View(i)'.fresh >= View(i).fresh
  BY ViewFields
<1> HIDE DEF View
<1> QED BY <1>1, <1>3, <1>4 DEF Steady, Keeps, Others

(* What is parked is not newer than the newest.                            *)
LEMMA ParkedStaysYoung ==
  ASSUME TypeOK, YoungParked, NEW m \in Machines, NEW v \in Vault,
         vault' = [vault EXCEPT ![m] = v], fresh' \in Nat, fresh' >= fresh,
         \A x \in v.parked : Young(x.env, fresh)
  PROVE  YoungParked'
<1> SUFFICES ASSUME NEW k \in Machines, NEW x \in vault'[k].parked
             PROVE  Young(x.env, fresh')
  BY DEF YoungParked
<1>1. x.env \in Maybe /\ Young(x.env, fresh)
  <2>1. CASE k = m
    BY <2>1, VaultParts DEF TypeOK, Parked, Maybe
  <2>2. CASE k # m
    <3>1. x \in vault[k].parked /\ vault[k] \in Vault
      BY <2>2 DEF TypeOK
    <3> QED BY <3>1, VaultParts DEF YoungParked, Parked, Maybe
  <2> QED BY <2>1, <2>2
<1>2. fresh \in Nat
  BY DEF TypeOK
<1> QED BY <1>1, <1>2, MaybeFacts DEF Young, Live

(* Steps that change no record.                                            *)
Quiet(m, v) ==
  /\ srv' = srv /\ state' = state /\ fresh' = fresh
  /\ vault' = [vault EXCEPT ![m] = v]
  /\ v.env = vault[m].env /\ v.past = vault[m].past
  /\ \A x \in v.parked : Young(x.env, fresh)
  /\ \/ pc' = pc /\ job' = job
     \/ /\ pc[m] # "verify"
        /\ \E w \in {"idle", "pull", "pull409", "pull422", "saveState"} :
             pc' = [pc EXCEPT ![m] = w]
        /\ job' = job \/ job' = [job EXCEPT ![m] = NoJob]

LEMMA QuietForward ==
  ASSUME TypeOK, TypeOK', Forward, NEW m \in Machines, NEW v \in Vault, Quiet(m, v)
  PROVE  Forward'
<1>1. fresh' \in Nat /\ fresh' >= fresh /\ srv' = srv
  BY DEF TypeOK, Quiet
<1>2. YoungParked'
  <2>1. /\ vault' = [vault EXCEPT ![m] = v] /\ YoungParked
        /\ \A x \in v.parked : Young(x.env, fresh)
    BY DEF Quiet, Forward
  <2> QED BY <1>1, <2>1, ParkedStaysYoung
<1>3. Beside(m) /\ vault'[m] = v /\ state'[m] = state[m]
  BY DEF Quiet, Beside, TypeOK
<1>4. \/ pc'[m] = pc[m] /\ job'[m] = job[m]
      \/ pc[m] # "verify" /\ pc'[m] \notin Pushes \cup {"verify"}
  BY DEF Quiet, TypeOK, Pushes
<1>5. ASSUME NEW i \in Ids PROVE Line(View(i))'
  <2>1. SteadyAt(m, i)
    BY <1>3, <1>4 DEF Quiet, SteadyAt, SameFlight
  <2>2. Steady(View(i), View(i)')
    BY <1>1, <1>3, <2>1, SteadyView
  <2>3. View(i) \in Views /\ View(i)' \in Views
    BY ViewType, ViewTypeNext
  <2>4. Line(View(i))
    BY DEF Forward
  <2> HIDE DEF View
  <2> QED BY <2>2, <2>3, <2>4, SteadyLine
<1> QED BY <1>2, <1>5 DEF Forward

-----------------------------------------------------------------------------
(* What a merge parks is one of the two sides.                             *)
LEMMA MergeParks ==
  ASSUME NEW l \in Maybe, NEW r \in Maybe, NEW b \in Base
  PROVE  MergeOne(l, r, b).parked \in {None, l, r}
<1>1. Diverged(l, r, b).parked \in {None, l, r}
  BY DEF Diverged, Outcome
<1>2. BothPresent(l, r, b).parked \in {None, l, r}
  BY <1>1 DEF BothPresent, Outcome
<1>3. l = None \/ (r = None => Agreed(l, r, b) \/ OnlyLocal(l, r, b))
  BY DEF Agreed, OnlyLocal
<1>4. CASE l = None
  BY <1>4 DEF MergeOne, Outcome
<1>5. CASE l # None /\ r = None
  BY <1>3, <1>5 DEF MergeOne, Outcome
<1>6. CASE l # None /\ r # None
  BY <1>2, <1>6 DEF MergeOne
<1> QED BY <1>4, <1>5, <1>6

LEMMA LosersYoung ==
  ASSUME TypeOK, Forward, NEW m \in Machines, NEW x \in Losers(Merged(m))
  PROVE  Young(x.env, fresh)
<1>1. PICK i \in Contested(Merged(m)) : x = [id |-> i, env |-> Merged(m)[i].parked]
  BY DEF Losers
<1>2. i \in Ids /\ x.env = Merged(m)[i].parked
  BY <1>1 DEF Contested
<1>3. Merged(m)[i] = MergeOne(vault[m].env[i], Asked(m)[i], state[m].synced[i])
  BY <1>2, MergedType
<1>4. /\ vault[m].env[i] \in Maybe /\ Asked(m)[i] \in Maybe /\ state[m].synced[i] \in Base
      /\ Asked(m)[i] \in {None, srv.recs[i]}
  BY <1>2, AskedType, MachineTypes DEF EnvMap, Maybe, State, Base
<1>5. x.env \in {None, vault[m].env[i], srv.recs[i]}
  <2>1. MergeOne(vault[m].env[i], Asked(m)[i], state[m].synced[i]).parked
           \in {None, vault[m].env[i], Asked(m)[i]}
    BY <1>4, MergeParks
  <2> QED BY <1>2, <1>3, <1>4, <2>1
<1>6. Young(srv.recs[i], fresh) /\ Young(vault[m].env[i], fresh)
  <2>1. AllYoung(View(i))
    BY <1>2 DEF Forward, Line
  <2> QED BY <1>2, <2>1, ViewFields DEF AllYoung
<1> QED BY <1>5, <1>6 DEF Young, Live

LEMMA QuietSteps ==
  ASSUME TypeOK, Coherent, Forward, NEW m \in Machines,
         \/ Start(m) \/ PushRetried(m) \/ PushGivenUp(m) \/ VerifyRefused(m)
         \/ SaveVault(m) \/ SaveState(m) \/ SettingsWrite(m) \/ Lock(m)
         \/ pc[m] \in Pulls /\ PullRefused(m, Merged(m))
         \/ pc[m] \in Pulls /\ PullLockedConflict(m, Merged(m))
  PROVE  \E v \in Vault : Quiet(m, v)
<1>1. /\ vault[m] \in Vault /\ [vault EXCEPT ![m] = vault[m]] = vault
      /\ \A x \in vault[m].parked : Young(x.env, fresh)
  BY MachineParts DEF TypeOK, Forward, YoungParked
<1>2. ASSUME UNCHANGED <<srv, vault, state, fresh>>,
             \/ pc' = pc /\ job' = job
             \/ /\ pc[m] # "verify"
                /\ \E w \in {"idle", "pull", "pull409", "pull422", "saveState"} :
                     pc' = [pc EXCEPT ![m] = w]
                /\ job' = job \/ job' = [job EXCEPT ![m] = NoJob]
      PROVE  Quiet(m, vault[m])
  BY <1>1, <1>2 DEF Quiet
<1>3. ASSUME NEW v \in Vault, GiveUp(m, v), srv' = srv, pc[m] # "verify",
             v.env = vault[m].env, v.past = vault[m].past,
             \A x \in v.parked : Young(x.env, fresh)
      PROVE  Quiet(m, v)
  BY <1>3 DEF GiveUp, Quiet
<1>4. CASE Start(m)
  BY <1>1, <1>2, <1>4 DEF Start
<1>5. CASE PushRetried(m)
  <2>1. pc[m] # "verify"
    BY <1>5 DEF PushRetried
  <2> QED BY <1>1, <1>2, <1>5, <2>1 DEF PushRetried
<1>6. CASE PushGivenUp(m)
  <2>1. pc[m] # "verify"
    BY <1>6 DEF PushGivenUp
  <2> QED BY <1>1, <1>3, <1>6, <2>1 DEF PushGivenUp
<1>7. ~VerifyRefused(m)
  BY AcceptedServed, MachineTypes DEF VerifyRefused
<1>8. CASE SaveVault(m)
  BY <1>1, <1>2, <1>8 DEF SaveVault
<1>9. CASE SaveState(m)
  BY <1>1, <1>2, <1>9 DEF SaveState
<1>10. CASE SettingsWrite(m)
  BY <1>1, <1>2, <1>10 DEF SettingsWrite
<1>11. CASE Lock(m)
  <2> DEFINE v == [vault[m] EXCEPT !.locked = TRUE]
  <2>1. /\ v \in Vault /\ v.env = vault[m].env /\ v.past = vault[m].past
        /\ v.parked = vault[m].parked
    BY <1>1 DEF Vault
  <2>2. vault' = [vault EXCEPT ![m] = v] /\ UNCHANGED <<srv, state, pc, job, fresh>>
    BY <1>11 DEF Lock
  <2> HIDE DEF v
  <2> QED BY <1>1, <2>1, <2>2 DEF Quiet
<1>12. CASE pc[m] \in Pulls /\ PullRefused(m, Merged(m))
  <2>1. pc[m] # "verify"
    BY <1>12 DEF Pulls
  <2> QED BY <1>1, <1>3, <1>12, <2>1 DEF PullRefused
<1>13. CASE pc[m] \in Pulls /\ PullLockedConflict(m, Merged(m))
  <2> DEFINE v == Park(vault[m], Losers(Merged(m)))
  <2>1. v \in Vault /\ v.env = vault[m].env
    BY <1>1, MergedType, LosersType, ParkType
  <2>2. v.past = vault[m].past /\ v.parked \subseteq vault[m].parked \cup Losers(Merged(m))
    BY <1>1 DEF Park, Vault
  <2>3. GiveUp(m, v) /\ srv' = srv /\ pc[m] # "verify"
    BY <1>13 DEF PullLockedConflict, Pulls
  <2> HIDE DEF v
  <2>4. \A x \in v.parked : Young(x.env, fresh)
    BY <1>1, <2>2, LosersYoung
  <2> QED BY <1>3, <2>1, <2>2, <2>3, <2>4
<1> QED BY <1>4, <1>5, <1>6, <1>7, <1>8, <1>9, <1>10, <1>11, <1>12, <1>13

(* A person writes one record.                                             *)
Wrote(m, i, v) ==
  /\ srv' = srv /\ state' = state /\ pc' = pc /\ job' = job /\ fresh' = fresh + 1
  /\ vault' = [vault EXCEPT ![m] = v] /\ v.parked = vault[m].parked
  /\ \A j \in Ids : j # i =>
       /\ v.env[j] = vault[m].env[j]
       /\ \A b \in Nat : <<j, b>> \in v.past <=> <<j, b>> \in vault[m].past
  /\ v.env[i] # None /\ (Live(v.env[i]) => v.env[i].body = fresh)
  /\ IF vault[m].env[i] = None THEN srv.recs[i] = None
                               ELSE Outranks(v.env[i], vault[m].env[i])
  /\ \A b \in Nat : <<i, b>> \in v.past =>
       <<i, b>> \in vault[m].past \/ Carries(vault[m].env[i], b)

LEMMA WroteForward ==
  ASSUME TypeOK, TypeOK', Forward, NEW m \in Machines, NEW i \in Ids, NEW v \in Vault,
         Wrote(m, i, v)
  PROVE  Forward'
<1>1. fresh' \in Nat /\ fresh' > fresh /\ fresh' >= fresh /\ srv' = srv
  BY DEF TypeOK, Wrote
<1>2. YoungParked'
  <2>1. /\ vault' = [vault EXCEPT ![m] = v] /\ YoungParked
        /\ \A x \in v.parked : Young(x.env, fresh)
    BY DEF Wrote, Forward, YoungParked
  <2> QED BY <1>1, <2>1, ParkedStaysYoung
<1>3. /\ Beside(m) /\ vault'[m] = v /\ state'[m] = state[m]
      /\ pc'[m] = pc[m] /\ job'[m] = job[m]
  BY DEF Wrote, Beside, TypeOK
<1>4. ASSUME NEW j \in Ids PROVE Line(View(j))'
  <2>1. View(j) \in Views /\ View(j)' \in Views /\ Line(View(j))
    BY ViewType, ViewTypeNext DEF Forward
  <2>2. CASE j # i
    <3>1. SteadyAt(m, j)
      BY <1>3, <2>2 DEF Wrote, SteadyAt, SameFlight
    <3>2. Steady(View(j), View(j)')
      BY <1>1, <1>3, <3>1, SteadyView
    <3> HIDE DEF View
    <3> QED BY <2>1, <3>2, SteadyLine
  <2>3. CASE j = i
    <3>1. Others(View(i), View(i)', m)
      BY <1>3, BesideOthers
    <3>2. InFlight(m, i)' = InFlight(m, i)
      BY <1>3 DEF InFlight
    <3> HIDE DEF InFlight
    <3>3. \A b \in View(i)'.past[m] : b \in View(i).past[m] \/ Carries(View(i).env[m], b)
      <4> SUFFICES ASSUME NEW b \in View(i)'.past[m]
                   PROVE  b \in View(i).past[m] \/ Carries(View(i).env[m], b)
        OBVIOUS
      <4>1. b \in Nat /\ <<i, b>> \in v.past
        BY <1>3, ViewFields
      <4>2. <<i, b>> \in vault[m].past \/ Carries(vault[m].env[i], b)
        BY <4>1 DEF Wrote
      <4> HIDE DEF View
      <4> QED BY <4>1, <4>2, ViewFields
    <3>4. Authored(View(i), View(i)', m)
      BY <1>1, <1>3, <3>1, <3>2, <3>3, ViewFields DEF Wrote, Authored
    <3> HIDE DEF View
    <3> QED BY <2>1, <2>3, <3>4, AuthoredLine
  <2> QED BY <2>2, <2>3
<1> QED BY <1>2, <1>4 DEF Forward

(* What a machine moves past when its list changes.                        *)
LEMMA MovedPastAt ==
  ASSUME NEW v \in Vault, NEW map \in EnvMap, NEW j \in Ids, NEW b
  PROVE  <<j, b>> \in WithEnv(v, map).past <=>
           \/ <<j, b>> \in v.past
           \/ Carries(v.env[j], b) /\ Live(map[j]) /\ map[j].body # b
<1>1. <<j, b>> \in MovedPast(v.env, map) <=>
        Carries(v.env[j], b) /\ Live(map[j]) /\ map[j].body # b
  BY DEF MovedPast, Carries
<1>2. WithEnv(v, map).past = v.past \cup MovedPast(v.env, map)
  BY DEF WithEnv, Vault
<1> QED BY <1>1, <1>2

LEMMA UserWrites ==
  ASSUME TypeOK, Unminted, NEW m \in Machines, UserStep(m), ~Did("touch")'
  PROVE  \E v \in Vault, i \in Ids : Wrote(m, i, v)
<1>1. /\ vault[m] \in Vault /\ vault[m].env \in EnvMap /\ fresh \in Nat
      /\ minted \in Nat /\ Ids \subseteq Nat
  BY MachineParts, VaultParts, IdsAssumption DEF TypeOK
<1>2. CASE Add(m)
  <2> DEFINE e == Sealed(1, fresh, FALSE)
             map == [vault[m].env EXCEPT ![minted + 1] = e]
             v == [vault[m] EXCEPT !.env[minted + 1] = e]
  <2>1. e \in Envelopes /\ e # None /\ e.body = fresh /\ minted + 1 \in Ids
    <3>1. e \in Envelopes /\ e.body = fresh
      BY <1>1 DEF Sealed, Envelopes, Envelope
    <3>2. minted + 1 \in Ids
      BY <1>1, <1>2, IdsAssumption DEF Add
    <3> QED BY <3>1, <3>2, EnvelopeFacts
  <2>2. map \in EnvMap
    BY <1>1, <2>1 DEF EnvMap
  <2>3. v \in Vault /\ v.env = map /\ v.past = vault[m].past /\ v.parked = vault[m].parked
    BY <1>1, <2>2 DEF Vault
  <2>4. vault[m].env[minted + 1] = None /\ srv.recs[minted + 1] = None
    BY <1>1, <2>1 DEF Unminted, Unwritten
  <2>5. Operate(m, "add", v)
    BY <1>2 DEF Add
  <2> HIDE DEF v, e
  <2>6. v.env[minted + 1] = e /\ \A j \in Ids : j # minted + 1 => v.env[j] = vault[m].env[j]
    BY <1>1, <2>1, <2>3 DEF EnvMap
  <2>7. Wrote(m, minted + 1, v)
    BY <2>1, <2>3, <2>4, <2>5, <2>6 DEF Operate, Wrote
  <2> QED BY <2>1, <2>3, <2>7
<1>3. ASSUME NEW i \in Ids, Edit(m, i) PROVE \E v \in Vault : Wrote(m, i, v)
  <2> DEFINE l == vault[m].env[i]
             e == Sealed(l.rev + 1, fresh, FALSE)
             map == [vault[m].env EXCEPT ![i] = e]
             v == Rewrite(m, i, fresh)
  <2>1. l # None /\ l.rev \in Nat /\ l.deleted = FALSE
    BY <1>1, <1>3, EnvelopeFacts DEF Edit, Live, EnvMap
  <2>2. e \in Envelopes /\ e.body = fresh /\ e.rev = l.rev + 1 /\ e # None
    <3>1. e \in Envelopes
      BY <1>1, <2>1 DEF Sealed, Envelopes, Envelope
    <3>2. e.body = fresh /\ e.rev = l.rev + 1
      BY DEF Sealed
    <3> QED BY <3>1, <3>2, EnvelopeFacts
  <2> HIDE DEF e
  <2>3. map \in EnvMap /\ map[i] = e /\ \A j \in Ids : j # i => map[j] = vault[m].env[j]
    BY <1>1, <2>2 DEF EnvMap
  <2>4. v = WithEnv(vault[m], map)
    BY DEF Rewrite, e
  <2> HIDE DEF map
  <2>5. v \in Vault /\ v.env = map /\ v.parked = vault[m].parked
    <3>1. v \in Vault /\ v.env = map
      BY <1>1, <2>3, <2>4, WithEnvType
    <3>2. v.parked = vault[m].parked
      BY <1>1, <2>4 DEF WithEnv, Vault
    <3> QED BY <3>1, <3>2
  <2>6. ASSUME NEW j \in Ids, NEW b \in Nat
        PROVE  <<j, b>> \in v.past <=>
                 \/ <<j, b>> \in vault[m].past
                 \/ Carries(vault[m].env[j], b) /\ Live(map[j]) /\ map[j].body # b
    BY <1>1, <2>3, <2>4, MovedPastAt
  <2>7. Operate(m, "edit", v)
    BY <1>3 DEF Edit
  <2> HIDE DEF v
  <2>8. \A j \in Ids : j # i => /\ v.env[j] = vault[m].env[j]
                                 /\ \A b \in Nat : <<j, b>> \in v.past <=> <<j, b>> \in vault[m].past
    BY <2>3, <2>5, <2>6 DEF Carries
  <2>9. \A b \in Nat : <<i, b>> \in v.past =>
          <<i, b>> \in vault[m].past \/ Carries(vault[m].env[i], b)
    BY <2>6
  <2>10. Outranks(e, l) /\ e # None /\ e.body = fresh /\ v.env[i] = e
    BY <2>1, <2>2, <2>3, <2>5 DEF Outranks
  <2> QED BY <2>1, <2>5, <2>7, <2>8, <2>9, <2>10 DEF Operate, Wrote
<1>4. ASSUME NEW i \in Ids, Delete(m, i) PROVE \E v \in Vault : Wrote(m, i, v)
  <2> DEFINE l == vault[m].env[i]
             e == Sealed(l.rev + 1, 0, TRUE)
             map == [vault[m].env EXCEPT ![i] = e]
             v == [vault[m] EXCEPT !.env[i] = e]
  <2>1. l # None /\ l.rev \in Nat /\ l.deleted = FALSE
    BY <1>1, <1>4, EnvelopeFacts DEF Delete, Live, EnvMap
  <2>2. e \in Envelopes /\ e.deleted = TRUE /\ e.rev = l.rev + 1 /\ e # None
    <3>1. e \in Envelopes
      BY <1>1, <2>1 DEF Sealed, Envelopes, Envelope
    <3>2. e.deleted = TRUE /\ e.rev = l.rev + 1
      BY DEF Sealed
    <3> QED BY <3>1, <3>2, EnvelopeFacts
  <2> HIDE DEF e
  <2>3. map \in EnvMap /\ map[i] = e /\ \A j \in Ids : j # i => map[j] = vault[m].env[j]
    BY <1>1, <2>2 DEF EnvMap
  <2>4. v \in Vault /\ v.env = map /\ v.parked = vault[m].parked /\ v.past = vault[m].past
    BY <1>1, <2>3 DEF Vault
  <2>5. Operate(m, "delete", v)
    BY <1>4 DEF Delete, e
  <2> HIDE DEF v
  <2>6. Outranks(e, l) /\ ~Live(e) /\ v.env[i] = e
    BY <2>1, <2>2, <2>3, <2>4 DEF Outranks, Live
  <2>7. \A j \in Ids : j # i => v.env[j] = vault[m].env[j]
    BY <2>3, <2>4
  <2> QED BY <2>1, <2>2, <2>4, <2>5, <2>6, <2>7 DEF Operate, Wrote
<1>5. ASSUME NEW i \in Ids PROVE ~Touch(m, i)
  BY DEF Touch, Operate, Counting, Did
<1> QED BY <1>2, <1>3, <1>4, <1>5 DEF UserStep

(* Forks are of what is parked.                                            *)
LEMMA ForksYoung ==
  ASSUME TypeOK, NEW v \in Vault, NEW n \in 0 .. MaxIds - minted,
         NEW name \in Bijection(FreshIds(n), Forkable(v)),
         \A x \in v.parked : Young(x.env, fresh), NEW i \in FreshIds(n)
  PROVE  /\ Young(Resolved(v, name).env[i], fresh)
         /\ Resolved(v, name).env[i] # None
<1>1. i \in Ids /\ DOMAIN name = FreshIds(n) /\ name[i] \in Forkable(v)
  BY ResolvedType DEF Bijection, Injection
<1>2. name[i] \in v.parked /\ ~name[i].env.deleted
  BY <1>1 DEF Forkable
<1>3. Resolved(v, name).env[i] = Sealed(1, name[i].env.body, FALSE)
  BY <1>1 DEF Resolved, Vault
<1>4. name[i].env \in Envelopes
  BY <1>2, VaultParts DEF Parked
<1>5. name[i].env.body \in Nat /\ name[i].env # None
  BY <1>4, EnvelopeFacts
<1>6. name[i].env.body < fresh
  BY <1>2, <1>5 DEF Young, Live
<1>7. Sealed(1, name[i].env.body, FALSE) \in Envelopes
  BY <1>5 DEF Sealed, Envelopes, Envelope, TypeOK
<1>8. Sealed(1, name[i].env.body, FALSE).body = name[i].env.body
  BY DEF Sealed
<1> QED BY <1>3, <1>6, <1>7, <1>8, EnvelopeFacts DEF Young

(* Nothing stands at a fresh id.                                           *)
LEMMA FreshIsBlank ==
  ASSUME TypeOK, Unminted, NEW n \in 0 .. MaxIds - minted, NEW i \in FreshIds(n)
  PROVE  /\ i \in Ids /\ srv.recs[i] = None
         /\ \A k \in Machines : vault[k].env[i] = None /\ InFlight(k, i) = None
<1>1. i \in Ids /\ i > minted
  BY IdsAssumption DEF FreshIds, TypeOK
<1> QED BY <1>1 DEF Unminted, Unwritten, InFlight

(* Unlocking makes records of what was parked.                             *)
LEMMA UnlockForward ==
  ASSUME TypeOK, TypeOK', Unminted, Coherent, Forward, NEW m \in Machines, Unlock(m)
  PROVE  Forward'
<1> DEFINE Opened(n, name) ==
        LET w == [Resolved(vault[m], name) EXCEPT !.locked = FALSE]
        IN  /\ vault' = [vault EXCEPT ![m] = w]
            /\ fresh' = IF n = 0 THEN fresh ELSE fresh + 1
<1>1. PICK n \in 0 .. MaxIds - minted :
        \E name \in Bijection(FreshIds(n), Forkable(vault[m])) : Opened(n, name)
  BY DEF Unlock
<1>2. PICK name \in Bijection(FreshIds(n), Forkable(vault[m])) : Opened(n, name)
  BY <1>1
<1> DEFINE r == Resolved(vault[m], name)
           v == [r EXCEPT !.locked = FALSE]
<1>3. vault[m] \in Vault /\ \A x \in vault[m].parked : Young(x.env, fresh)
  BY MachineParts DEF Forward, YoungParked
<1>4. r \in Vault /\ \A i \in Ids \ FreshIds(n) : r.env[i] = vault[m].env[i]
  BY <1>3, ResolvedType
<1>5. r.past = vault[m].past /\ r.parked = {}
  BY <1>3 DEF Resolved, Vault
<1>6. \A i \in FreshIds(n) : Young(r.env[i], fresh) /\ r.env[i] # None
  BY <1>3, ForksYoung
<1>7. vault' = [vault EXCEPT ![m] = v] /\ fresh' \in Nat /\ fresh' >= fresh
  BY <1>2 DEF TypeOK
<1>8. UNCHANGED <<srv, state, pc, job>>
  BY DEF Unlock
<1> HIDE DEF r
<1>9. v \in Vault /\ v.env = r.env /\ v.past = r.past /\ v.parked = r.parked
  BY <1>4 DEF Vault
<1> HIDE DEF v
<1>10. YoungParked'
  BY <1>5, <1>7, <1>9, ParkedStaysYoung DEF Forward
<1>11. Beside(m) /\ vault'[m] = v
  BY <1>7, <1>8 DEF Beside, TypeOK
<1>12. ASSUME NEW i \in Ids PROVE Line(View(i))'
  <2>1. View(i) \in Views /\ View(i)' \in Views /\ Line(View(i))
    BY ViewType, ViewTypeNext DEF Forward
  <2>2. CASE i \notin FreshIds(n)
    <3>1. SteadyAt(m, i)
      BY <1>4, <1>5, <1>8, <1>9, <1>11, <2>2 DEF SteadyAt, SameFlight
    <3>2. Steady(View(i), View(i)')
      BY <1>7, <1>8, <1>11, <3>1, SteadyView
    <3> HIDE DEF View
    <3> QED BY <2>1, <3>2, SteadyLine
  <2>3. CASE i \in FreshIds(n)
    <3>1. /\ srv.recs[i] = None
          /\ \A k \in Machines : vault[k].env[i] = None /\ InFlight(k, i) = None
      BY <2>3, FreshIsBlank
    <3>2. InFlight(m, i)' = None
      BY <1>8, <3>1 DEF InFlight
    <3>3. state[m].synced[i] = None
      BY <3>1 DEF Coherent, InMemory, Stands, StandsAt, Bounded
    <3>4. Young(r.env[i], fresh')
      <4>1. r.env[i] \in Maybe /\ fresh \in Nat
        BY <1>4, VaultParts DEF TypeOK
      <4> QED BY <1>6, <1>7, <2>3, <4>1, MaybeFacts DEF Young, Live
    <3>5. Others(View(i), View(i)', m)
      BY <1>11, BesideOthers
    <3> HIDE DEF InFlight
    <3>6. View(i)'.srv = None /\ View(i).srv = None /\ View(i)'.fresh >= View(i).fresh
      BY <1>7, <1>8, <3>1, ViewFields
    <3>7. \A k \in Machines : View(i).env[k] = None /\ View(i).sent[k] = None
      BY <3>1, ViewFields
    <3>8. /\ View(i)'.env[m] # None /\ Young(View(i)'.env[m], View(i)'.fresh)
          /\ View(i)'.past[m] = View(i).past[m]
      <4>1. vault'[m].past = vault[m].past /\ vault'[m].env[i] = r.env[i] /\ r.env[i] # None
        BY <1>5, <1>6, <1>9, <1>11, <2>3
      <4>2. View(i)'.past[m] = View(i).past[m]
        BY <4>1 DEF View
      <4> HIDE DEF View
      <4>3. View(i)'.env[m] = r.env[i] /\ View(i)'.fresh = fresh'
        BY <4>1, ViewFields
      <4> QED BY <3>4, <4>1, <4>2, <4>3
    <3>9. View(i)'.sent[m] \in {None, View(i)'.env[m]} /\ View(i)'.base[m] = None
      BY <1>8, <3>2, <3>3, ViewFields
    <3>10. Forked(View(i), View(i)', m)
      BY <3>5, <3>6, <3>7, <3>8, <3>9 DEF Forked
    <3> HIDE DEF View
    <3> QED BY <2>1, <3>10, ForkedLine
  <2> QED BY <2>2, <2>3
<1> QED BY <1>10, <1>12 DEF Forward

-----------------------------------------------------------------------------
(***************************************************************************)
(* A pull that is taken.                                                   *)
(***************************************************************************)
(* What the pull makes of a record that is not a fork: as LeftAsIs,        *)
(* Replaced and Resealed, of the code's own values.                        *)
TakenAt(m, y, i) ==
  LET l == vault[m].env[i]
      r == srv.recs[i]
      b == state[m].synced[i]
      o == Merged(m)[i]
  IN  \/ /\ y = l
         /\ Live(l) /\ Known(l, r, b) => ~o.push /\ o.synced = b
         /\ o.push => o.synced = None \/ o.synced < l.rev
      \/ /\ y = r /\ r # None /\ ~o.push /\ o.synced = r.rev
         /\ Live(r) /\ l # None => r.rev >= l.rev
      \/ /\ l # None /\ r # None /\ y # None
         /\ ~(Live(l) /\ Known(l, r, b))
         /\ y.rev > l.rev /\ y.rev > r.rev
         /\ y.deleted = l.deleted /\ y.body = l.body
         /\ o.synced = None \/ o.synced < y.rev

LEMMA MergedLine ==
  ASSUME TypeOK, Coherent, NEW m \in Machines, pc[m] \in Pulls, NEW i \in Ids
  PROVE  LET l == vault[m].env[i]
             r == srv.recs[i]
             a == Asked(m)[i]
             b == state[m].synced[i]
             o == Merged(m)[i]
             x == Adopt(l, o.env)
         IN  /\ MergeTakes(l, r, b, o, x) /\ MergeLevels(l, r, a, b, o, x)
             /\ l \in Maybe /\ r \in Maybe /\ b \in Base /\ a \in {None, r}
             /\ o.synced \in Base /\ Bounded(l, r, b)
<1> DEFINE l == vault[m].env[i]
           r == srv.recs[i]
           a == Asked(m)[i]
           b == state[m].synced[i]
           o == Merged(m)[i]
           x == Adopt(l, o.env)
<1>1. /\ MergeLevels(l, r, a, b, o, x)
      /\ l \in Maybe /\ r \in Maybe /\ a \in {None, r} /\ Bounded(l, r, b)
  BY PullMerges
<1>2. b \in Base
  BY MachineTypes DEF State, Base
<1>3. l # None /\ r # None /\ l.seal = r.seal => l = r
  <2>1. l # None /\ r # None => l \in Held(i) /\ r \in Held(i)
    BY DEF Held, HeldBy
  <2> QED BY <2>1 DEF Coherent, Seals
<1>4. o = MergeOne(l, a, b)
  BY MergedType
<1>5. o.synced \in Base
  BY MergedType DEF AllOutcomes, Outcomes
<1>6. MergeTakes(l, r, b, MergeOne(l, a, b), Adopt(l, MergeOne(l, a, b).env))
  BY <1>1, <1>2, <1>3, MergeOfLine
<1> HIDE DEF l, r, a, b
<1>7. MergeTakes(l, r, b, o, x)
  BY <1>4, <1>6
<1> QED BY <1>1, <1>2, <1>5, <1>7 DEF l, r, a, b

(* Of the merge alone, when the record is not contested and kept.          *)
LEMMA MergedTaken ==
  ASSUME TypeOK, Coherent, NEW m \in Machines, pc[m] \in Pulls, NEW i \in Ids,
         Merged(m)[i].parked = None \/ ~Merged(m)[i].push
  PROVE  TakenAt(m, Adopt(vault[m].env[i], Merged(m)[i].env), i)
<1> DEFINE l == vault[m].env[i]
           r == srv.recs[i]
           a == Asked(m)[i]
           b == state[m].synced[i]
           o == Merged(m)[i]
           x == Adopt(l, o.env)
<1>1. MergeTakes(l, r, b, o, x) /\ MergeLevels(l, r, a, b, o, x) /\ a \in {None, r}
  BY MergedLine
<1>2. o.parked = None \/ ~o.push
  OBVIOUS
<1> HIDE DEF l, r, a, b, o, x
<1>3. CASE x = l
  <2>1. Live(l) /\ Known(l, r, b) => ~o.push /\ o.synced = b
    BY <1>1, <1>3 DEF MergeTakes, Known
  <2>2. o.push => o.synced = None \/ o.synced < l.rev
    BY <1>1, <1>2 DEF MergeTakes
  <2> QED BY <1>3, <2>1, <2>2 DEF TakenAt, l, r, b, o, x
<1>4. CASE x # l
  <2>1. /\ x = r /\ ~o.push /\ o.synced = r.rev
        /\ Live(r) /\ l # None => r.rev >= l.rev
    BY <1>1, <1>4 DEF MergeTakes
  <2>2. r # None
    BY <1>1, <1>4 DEF MergeLevels
  <2> QED BY <2>1, <2>2 DEF TakenAt, l, r, b, o, x
<1> QED BY <1>3, <1>4

(* And when it is: sealed anew above both.                                 *)
LEMMA SupersededTaken ==
  ASSUME TypeOK, Coherent, NEW m \in Machines, pc[m] \in Pulls, NEW i \in Ids,
         Merged(m)[i].parked # None, Merged(m)[i].push
  PROVE  LET x == Adopt(vault[m].env[i], Merged(m)[i].env)
         IN  TakenAt(m, Sealed(Higher(x.rev, Asked(m)[i].rev) + 1, x.body, x.deleted), i)
<1> DEFINE l == vault[m].env[i]
           r == srv.recs[i]
           a == Asked(m)[i]
           b == state[m].synced[i]
           o == Merged(m)[i]
           x == Adopt(l, o.env)
           y == Sealed(Higher(x.rev, a.rev) + 1, x.body, x.deleted)
<1>1. /\ MergeTakes(l, r, b, o, x) /\ MergeLevels(l, r, a, b, o, x)
      /\ l \in Maybe /\ r \in Maybe /\ a \in {None, r} /\ o.synced \in Base
  BY MergedLine
<1>2. o.parked # None /\ o.push
  OBVIOUS
<1> HIDE DEF o
<1>3. x = l /\ (r.deleted => l.deleted) /\ (o.synced # None => o.synced <= r.rev)
  BY <1>1, <1>2 DEF MergeLevels
<1>4. a = r /\ l # None /\ r # None
  BY <1>1, <1>2 DEF MergeLevels
<1>5. l \in Envelopes /\ r \in Envelopes
  BY <1>1, <1>4 DEF Maybe
<1>6. y = Sealed(Higher(l.rev, r.rev) + 1, l.body, l.deleted)
  BY <1>3, <1>4
<1>7. y \in Envelopes
  BY <1>3, <1>5, <1>6, SupersededOutranks
<1>8. y.rev = Higher(l.rev, r.rev) + 1 /\ y.body = l.body /\ y.deleted = l.deleted
  BY <1>6 DEF Sealed
<1>9. ~(Live(l) /\ Known(l, r, b))
  BY <1>1, <1>2, <1>3 DEF MergeTakes
<1> HIDE DEF l, r, a, b, x, y
<1>10. y # None /\ l.rev \in Nat /\ r.rev \in Nat /\ y.rev \in Nat
  BY <1>5, <1>7, EnvelopeFacts
<1>11. y.rev > l.rev /\ y.rev > r.rev
  BY <1>8, <1>10 DEF Higher
<1>12. o.synced = None \/ o.synced < y.rev
  <2>1. o.synced # None => o.synced \in Nat
    BY <1>1 DEF Base
  <2> QED BY <1>3, <1>10, <1>11, <2>1
<1>13. TakenAt(m, y, i)
  BY <1>4, <1>8, <1>9, <1>10, <1>11, <1>12 DEF TakenAt, l, r, b, o
<1> QED BY <1>13 DEF l, r, a, b, o, x, y

(* What the machine has moved past.                                        *)
PassedAt(m, v, i) ==
  \A b \in Nat : <<i, b>> \in v.past =>
    \/ <<i, b>> \in vault[m].past
    \/ Carries(vault[m].env[i], b) /\ ~Carries(v.env[i], b)

LEMMA AppliedPast ==
  ASSUME TypeOK, NEW m \in Machines, NEW i \in Ids, NEW b
  PROVE  <<i, b>> \in Applying(vault[m], Merged(m)).past <=>
           \/ <<i, b>> \in vault[m].past
           \/ /\ Carries(vault[m].env[i], b)
              /\ LET x == Adopt(vault[m].env[i], Merged(m)[i].env)
                 IN  Live(x) /\ x.body # b
<1> DEFINE map == [j \in Ids |-> Adopt(vault[m].env[j], Merged(m)[j].env)]
<1>1. vault[m] \in Vault /\ AllOutcomes(Merged(m))
  BY MachineParts, MergedType
<1>2. \A j \in Ids : vault[m].env[j] \in Maybe /\ Merged(m)[j].env \in Maybe
  BY <1>1, VaultParts DEF AllOutcomes, Outcomes
<1>3. map \in EnvMap
  BY <1>2 DEF EnvMap, Maybe, Adopt
<1>4. Applying(vault[m], Merged(m)) = WithEnv(vault[m], map)
  BY DEF Applying
<1>5. map[i] = Adopt(vault[m].env[i], Merged(m)[i].env)
  OBVIOUS
<1> HIDE DEF map
<1> QED BY <1>1, <1>3, <1>4, <1>5, MovedPastAt

LEMMA KeptPast ==
  ASSUME TypeOK, NEW m \in Machines, NEW name
  PROVE  Resolved(Kept(m, Merged(m)), name).past = Applying(vault[m], Merged(m)).past
<1>1. Applying(vault[m], Merged(m)) \in Vault
  BY MachineParts, MergedType, ApplyingType
<1> DEFINE ap == Applying(vault[m], Merged(m))
           pk == Park(ap, Losers(Merged(m)))
<1>2. pk \in Vault /\ pk.past = ap.past
  BY <1>1, MergedType, LosersType, ParkType DEF Park, Vault
<1> HIDE DEF ap, pk
<1>3. Superseding(pk, Asked(m), Merged(m)).past = pk.past
  BY <1>2 DEF Superseding, Vault
<1>4. Kept(m, Merged(m)) = Superseding(pk, Asked(m), Merged(m))
  BY DEF Kept, pk, ap
<1>5. Kept(m, Merged(m)) \in Vault
  BY KeptType
<1>6. Resolved(Kept(m, Merged(m)), name).past = Kept(m, Merged(m)).past
  BY <1>5 DEF Resolved, Vault
<1> QED BY <1>2, <1>3, <1>4, <1>6 DEF ap

(* A fork is of something parked, where nothing stood.                     *)
ForkedAt(m, v, i) ==
  /\ srv.recs[i] = None
  /\ \A k \in Machines : vault[k].env[i] = None /\ InFlight(k, i) = None
  /\ v.env[i] # None /\ Young(v.env[i], fresh) /\ Merged(m)[i].synced = None
  /\ \A b \in Nat : <<i, b>> \in v.past <=> <<i, b>> \in vault[m].past
Taken(m, v, forks) ==
  /\ \A x \in v.parked : Young(x.env, fresh)
  /\ \A i \in forks : ForkedAt(m, v, i)
  /\ \A i \in Ids \ forks : TakenAt(m, v.env[i], i) /\ PassedAt(m, v, i)

LEMMA TakenLocked ==
  ASSUME TypeOK, Coherent, Forward, NEW m \in Machines, pc[m] \in Pulls,
         PullLocked(m, Merged(m))
  PROVE  Taken(m, Applying(vault[m], Merged(m)), {})
<1> DEFINE v == Applying(vault[m], Merged(m))
<1>1. v.parked = vault[m].parked
  BY KeptParked
<1>2. \A x \in v.parked : Young(x.env, fresh)
  BY <1>1 DEF Forward, YoungParked
<1>3. ASSUME NEW i \in Ids PROVE TakenAt(m, v.env[i], i) /\ PassedAt(m, v, i)
  <2>1. v.env[i] = Adopt(vault[m].env[i], Merged(m)[i].env)
    BY MachineParts, MergedType, ApplyingType
  <2>2. Merged(m)[i].parked = None
    BY DEF PullLocked, Contested
  <2>3. TakenAt(m, Adopt(vault[m].env[i], Merged(m)[i].env), i)
    BY <2>2, MergedTaken
  <2>4. ASSUME NEW b \in Nat, <<i, b>> \in v.past
        PROVE  \/ <<i, b>> \in vault[m].past
               \/ Carries(vault[m].env[i], b) /\ ~Carries(v.env[i], b)
    BY <2>1, <2>4, AppliedPast DEF Carries
  <2> QED BY <2>1, <2>3, <2>4 DEF PassedAt
<1> HIDE DEF v
<1>4. Taken(m, v, {})
  BY <1>2, <1>3 DEF Taken
<1> QED BY <1>4 DEF v

LEMMA TakenUnlocked ==
  ASSUME TypeOK, Unminted, Coherent, Forward, NEW m \in Machines, pc[m] \in Pulls,
         NEW n \in 0 .. MaxIds - minted,
         NEW name \in Bijection(FreshIds(n), Forkable(Kept(m, Merged(m))))
  PROVE  Taken(m, Resolved(Kept(m, Merged(m)), name), FreshIds(n))
<1> DEFINE k == Kept(m, Merged(m))
           v == Resolved(k, name)
<1>1. k \in Vault
  BY KeptType
<1>2. \A x \in k.parked : Young(x.env, fresh)
  <2>1. k.parked = vault[m].parked \cup (Losers(Merged(m)) \ vault[m].marks)
    BY KeptParked
  <2> HIDE DEF k
  <2> QED BY <2>1, LosersYoung DEF Forward, YoungParked
<1>3. v.parked = {}
  BY <1>1 DEF Resolved, Vault
<1>4. v.past = Applying(vault[m], Merged(m)).past
  BY KeptPast
<1>5. ASSUME NEW i \in FreshIds(n) PROVE ForkedAt(m, v, i)
  <2>1. /\ i \in Ids /\ srv.recs[i] = None
        /\ \A j \in Machines : vault[j].env[i] = None /\ InFlight(j, i) = None
    BY FreshIsBlank
  <2>2. Young(v.env[i], fresh) /\ v.env[i] # None
    BY <1>1, <1>2, ForksYoung
  <2>3. Merged(m)[i].synced = None
    <3>1. /\ MergeLevels(vault[m].env[i], srv.recs[i], Asked(m)[i], state[m].synced[i],
                         Merged(m)[i], Adopt(vault[m].env[i], Merged(m)[i].env))
          /\ Asked(m)[i] \in {None, srv.recs[i]}
          /\ Bounded(vault[m].env[i], srv.recs[i], state[m].synced[i])
      BY <2>1, MergedLine
    <3>2. Merged(m)[i].synced = state[m].synced[i]
      BY <2>1, <3>1 DEF MergeLevels
    <3> QED BY <2>1, <3>1, <3>2 DEF Bounded
  <2>4. \A b \in Nat : <<i, b>> \in v.past <=> <<i, b>> \in vault[m].past
    <3> SUFFICES ASSUME NEW b \in Nat
                 PROVE  <<i, b>> \in v.past <=> <<i, b>> \in vault[m].past
      OBVIOUS
    <3>1. ~Carries(vault[m].env[i], b)
      BY <2>1 DEF Carries, Live
    <3> HIDE DEF v
    <3> QED BY <1>4, <2>1, <3>1, AppliedPast
  <2> HIDE DEF v
  <2> QED BY <2>1, <2>2, <2>3, <2>4 DEF ForkedAt
<1>6. ASSUME NEW i \in Ids \ FreshIds(n) PROVE TakenAt(m, v.env[i], i) /\ PassedAt(m, v, i)
  <2> DEFINE x == Adopt(vault[m].env[i], Merged(m)[i].env)
  <2>1. v.env[i] = k.env[i]
    BY <1>1, ResolvedType
  <2>2. k.env[i] = IF Merged(m)[i].parked # None /\ Merged(m)[i].push
                   THEN Sealed(Higher(x.rev, Asked(m)[i].rev) + 1, x.body, x.deleted)
                   ELSE x
    BY KeptAt
  <2> HIDE DEF k, v
  <2>3. TakenAt(m, v.env[i], i)
    <3>1. CASE Merged(m)[i].parked # None /\ Merged(m)[i].push
      BY <2>1, <2>2, <3>1, SupersededTaken
    <3>2. CASE Merged(m)[i].parked = None \/ ~Merged(m)[i].push
      BY <2>1, <2>2, <3>2, MergedTaken
    <3> QED BY <3>1, <3>2
  <2>4. v.env[i] # x => v.env[i].body = x.body
    BY <2>1, <2>2 DEF Sealed
  <2>5. ASSUME NEW b \in Nat, <<i, b>> \in v.past
        PROVE  \/ <<i, b>> \in vault[m].past
               \/ Carries(vault[m].env[i], b) /\ ~Carries(v.env[i], b)
    <3>1. \/ <<i, b>> \in vault[m].past
          \/ Carries(vault[m].env[i], b) /\ x.body # b
      BY <1>4, <2>5, AppliedPast
    <3> HIDE DEF x
    <3> QED BY <2>4, <3>1 DEF Carries
  <2> QED BY <2>3, <2>5 DEF PassedAt
<1> HIDE DEF v
<1>7. \A x \in v.parked : Young(x.env, fresh)
  BY <1>3
<1>8. Taken(m, v, FreshIds(n))
  BY <1>5, <1>6, <1>7 DEF Taken
<1> QED BY <1>8 DEF v, k

LEMMA PullTakes ==
  ASSUME TypeOK, Unminted, Coherent, Forward, NEW m \in Machines, Pull(m)
  PROVE  \/ PullRefused(m, Merged(m)) \/ PullLockedConflict(m, Merged(m))
         \/ \E v \in Vault, forks \in SUBSET Ids :
              /\ Pulled(m, v, forks) /\ Taken(m, v, forks)
              /\ fresh' \in Nat /\ fresh' >= fresh
<1>1. pc[m] \in Pulls /\ pc[m] \in {"pull", "pull409"}
  BY DEF Pull, Coherent, InMemory, Pulls
<1>2. vault[m] \in Vault /\ AllOutcomes(Merged(m)) /\ fresh \in Nat
  BY MachineParts, MergedType DEF TypeOK
<1>3. CASE PullLocked(m, Merged(m))
  <2> DEFINE v == Applying(vault[m], Merged(m))
  <2>1. v \in Vault /\ {} \in SUBSET Ids
    BY <1>2, ApplyingType
  <2>2. \A i \in Ids : PulledAt(m, v, {}, i)
    BY <1>1, <1>3, PulledLocked
  <2>3. AfterPull(m, v, Merged(m), {}) /\ fresh' = fresh
    BY <1>3 DEF PullLocked
  <2>4. Taken(m, v, {})
    BY <1>1, <1>3, TakenLocked
  <2> HIDE DEF v
  <2>5. PulledStep(m, v, {})
    BY <1>1, <1>2, <2>2, <2>3 DEF PulledStep
  <2>6. Pulled(m, v, {})
    BY <2>1, <2>5, PulledParts
  <2> QED BY <1>2, <2>1, <2>3, <2>4, <2>6
<1>4. CASE PullUnlocked(m, Merged(m))
  <2> DEFINE Chose(n, name) ==
          /\ AfterPull(m, Resolved(Kept(m, Merged(m)), name), Merged(m), FreshIds(n))
          /\ minted' = minted + n
  <2>1. PICK n \in 0 .. MaxIds - minted :
          \E name \in Bijection(FreshIds(n), Forkable(Kept(m, Merged(m)))) : Chose(n, name)
    BY <1>4 DEF PullUnlocked
  <2>2. PICK name \in Bijection(FreshIds(n), Forkable(Kept(m, Merged(m)))) : Chose(n, name)
    BY <2>1
  <2> DEFINE v == Resolved(Kept(m, Merged(m)), name)
  <2>3. fresh' = IF minted' # minted \/ (\E i \in Contested(Merged(m)) : Merged(m)[i].push)
                 THEN fresh + 1 ELSE fresh
    BY <1>4 DEF PullUnlocked
  <2>4. minted \in Nat /\ n \in Nat
    BY DEF TypeOK
  <2>5. n # 0 => minted' # minted
    BY <2>2, <2>4
  <2>6. /\ fresh' \in Nat /\ fresh' >= fresh /\ (n # 0 => fresh' > fresh)
        /\ (\E i \in Contested(Merged(m)) : Merged(m)[i].push) => fresh' > fresh
    BY <1>2, <2>3, <2>5
  <2>7. \A i \in Ids : PulledAt(m, v, FreshIds(n), i)
    BY <1>1, <2>6, PulledUnlocked
  <2>8. v \in Vault /\ FreshIds(n) \in SUBSET Ids
    BY KeptType, ResolvedType
  <2>9. Taken(m, v, FreshIds(n))
    BY <1>1, TakenUnlocked
  <2> HIDE DEF v
  <2>10. PulledStep(m, v, FreshIds(n))
    BY <1>1, <2>2, <2>6, <2>7 DEF PulledStep, v
  <2>11. Pulled(m, v, FreshIds(n))
    BY <2>8, <2>10, PulledParts
  <2> QED BY <2>6, <2>8, <2>9, <2>11
<1> QED BY <1>3, <1>4 DEF Pull

LEMMA TakenTook ==
  ASSUME TypeOK, TypeOK', NEW m \in Machines, NEW v \in Vault, NEW forks \in SUBSET Ids,
         pc[m] \in Pulls, Pulled(m, v, forks), Taken(m, v, forks), fresh' >= fresh,
         NEW i \in Ids \ forks
  PROVE  Took(View(i), View(i)', m)
<1> DEFINE l == vault[m].env[i]
           r == srv.recs[i]
           b == state[m].synced[i]
           o == Merged(m)[i]
           y == v.env[i]
           s == InFlight(m, i)'
<1>1. /\ srv' = srv /\ vault'[m] = v /\ state'[m].synced[i] = o.synced
      /\ job'[m].push[i] = IF o.push THEN y ELSE None
      /\ pc'[m] \in {"saveVault", "push", "push409"} /\ Beside(m)
  BY DEF Pulled, Beside
<1>2. InFlight(m, i) = None /\ pc[m] # "verify" /\ pc'[m] # "verify"
  BY <1>1 DEF InFlight, Pulls, Pushes
<1>3. s \in {None, y} /\ (s # None => o.push)
  BY <1>1 DEF InFlight
<1>4. TakenAt(m, y, i) /\ PassedAt(m, v, i)
  BY DEF Taken
<1>5. Others(View(i), View(i)', m)
  BY <1>1, BesideOthers
<1>6. /\ View(i).srv = r /\ View(i)'.srv = r /\ View(i).env[m] = l /\ View(i)'.env[m] = y
      /\ View(i).base[m] = b /\ View(i)'.base[m] = o.synced
      /\ View(i).sent[m] = None /\ View(i)'.sent[m] = s
      /\ ~View(i).landed[m] /\ ~View(i)'.landed[m]
      /\ View(i)'.fresh >= View(i).fresh
  BY <1>1, <1>2, ViewFields
<1>7. ASSUME NEW c \in View(i)'.past[m]
      PROVE  c \in View(i).past[m] \/ (Carries(l, c) /\ ~Carries(y, c))
  <2>1. c \in Nat /\ <<i, c>> \in v.past
    BY <1>1, <1>7 DEF View
  <2>2. <<i, c>> \in vault[m].past \/ (Carries(l, c) /\ ~Carries(y, c))
    BY <1>4, <2>1 DEF PassedAt
  <2> QED BY <2>1, <2>2 DEF View
<1> HIDE DEF View, s
<1>8. LeftAsIs(View(i), View(i)', m) \/ Replaced(View(i), View(i)', m)
      \/ Resealed(View(i), View(i)', m)
  <2>1. CASE /\ y = l
             /\ Live(l) /\ Known(l, r, b) => ~o.push /\ o.synced = b
             /\ o.push => o.synced = None \/ o.synced < l.rev
    BY <1>3, <1>6, <2>1 DEF LeftAsIs
  <2>2. CASE /\ y = r /\ r # None /\ ~o.push /\ o.synced = r.rev
             /\ Live(r) /\ l # None => r.rev >= l.rev
    BY <1>3, <1>6, <2>2 DEF Replaced
  <2>3. CASE /\ l # None /\ r # None /\ y # None
             /\ ~(Live(l) /\ Known(l, r, b))
             /\ y.rev > l.rev /\ y.rev > r.rev
             /\ y.deleted = l.deleted /\ y.body = l.body
             /\ o.synced = None \/ o.synced < y.rev
    BY <1>6, <2>3 DEF Resealed
  <2> QED BY <1>4, <2>1, <2>2, <2>3 DEF TakenAt
<1> HIDE DEF l, r, b, o, y
<1>9. \A c \in View(i)'.past[m] :
        c \in View(i).past[m] \/ (Carries(View(i).env[m], c) /\ ~Carries(View(i)'.env[m], c))
  BY <1>6, <1>7
<1> QED BY <1>3, <1>5, <1>6, <1>8, <1>9 DEF Took

LEMMA ForkedFork ==
  ASSUME TypeOK, TypeOK', NEW m \in Machines, NEW v \in Vault, NEW forks \in SUBSET Ids,
         Pulled(m, v, forks), Taken(m, v, forks), fresh' >= fresh, NEW i \in forks
  PROVE  Forked(View(i), View(i)', m)
<1>1. /\ srv' = srv /\ vault'[m] = v /\ state'[m].synced[i] = None
      /\ job'[m].push[i] = v.env[i]
      /\ pc'[m] \in {"saveVault", "push", "push409"} /\ Beside(m)
  BY DEF Pulled, Beside, Taken, ForkedAt
<1>2. ForkedAt(m, v, i)
  BY DEF Taken
<1>3. InFlight(m, i)' \in {None, v.env[i]}
  BY <1>1 DEF InFlight
<1>4. Others(View(i), View(i)', m)
  BY <1>1, BesideOthers
<1>5. View(i)'.srv = None /\ View(i).srv = None /\ View(i)'.fresh >= View(i).fresh
  BY <1>1, <1>2, ViewFields DEF ForkedAt
<1> HIDE DEF InFlight
<1>6. \A k \in Machines : View(i).env[k] = None /\ View(i).sent[k] = None
  BY <1>2, ViewFields DEF ForkedAt
<1>7. View(i)'.past[m] = View(i).past[m]
  <2>1. \A b \in Nat : <<i, b>> \in vault'[m].past <=> <<i, b>> \in vault[m].past
    BY <1>1, <1>2 DEF ForkedAt
  <2> QED BY <2>1 DEF View
<1>8. Young(v.env[i], fresh')
  <2>1. v.env[i] \in Maybe /\ fresh \in Nat /\ fresh' \in Nat
    BY VaultParts DEF TypeOK
  <2> QED BY <1>2, <2>1, MaybeFacts DEF ForkedAt, Young, Live
<1>9. /\ View(i)'.env[m] # None /\ Young(View(i)'.env[m], View(i)'.fresh)
      /\ View(i)'.sent[m] \in {None, View(i)'.env[m]} /\ View(i)'.base[m] = None
  <2>1. View(i)'.env[m] = v.env[i] /\ View(i)'.fresh = fresh'
    BY <1>1, ViewFields
  <2>2. View(i)'.sent[m] = InFlight(m, i)' /\ View(i)'.base[m] = None
    BY <1>1, ViewFields
  <2> HIDE DEF View
  <2> QED BY <1>2, <1>3, <1>8, <2>1, <2>2 DEF ForkedAt
<1> HIDE DEF View
<1> QED BY <1>4, <1>5, <1>6, <1>7, <1>9 DEF Forked

LEMMA PullForward ==
  ASSUME TypeOK, TypeOK', Unminted, Coherent, Forward, NEW m \in Machines, Pull(m)
  PROVE  Forward'
<1>1. pc[m] \in Pulls
  BY DEF Pull
<1>2. CASE PullRefused(m, Merged(m)) \/ PullLockedConflict(m, Merged(m))
  <2>1. PICK v \in Vault : Quiet(m, v)
    BY <1>1, <1>2, QuietSteps
  <2> QED BY <2>1, QuietForward
<1>3. ASSUME NEW v \in Vault, NEW forks \in SUBSET Ids,
             Pulled(m, v, forks), Taken(m, v, forks), fresh' \in Nat, fresh' >= fresh
      PROVE  Forward'
  <2>1. YoungParked'
    <3>1. vault' = [vault EXCEPT ![m] = v] /\ \A x \in v.parked : Young(x.env, fresh)
      BY <1>3 DEF Pulled, Taken
    <3> QED BY <1>3, <3>1, ParkedStaysYoung DEF Forward
  <2>2. ASSUME NEW i \in Ids PROVE Line(View(i))'
    <3>1. View(i) \in Views /\ View(i)' \in Views /\ Line(View(i))
      BY ViewType, ViewTypeNext DEF Forward
    <3>2. CASE i \in forks
      <4>1. Forked(View(i), View(i)', m)
        BY <1>3, <3>2, ForkedFork
      <4> HIDE DEF View
      <4> QED BY <3>1, <4>1, ForkedLine
    <3>3. CASE i \notin forks
      <4>1. Took(View(i), View(i)', m)
        BY <1>1, <1>3, <3>3, TakenTook
      <4> HIDE DEF View
      <4> QED BY <3>1, <4>1, TookLine
    <3> QED BY <3>2, <3>3
  <2> QED BY <2>1, <2>2 DEF Forward
<1> QED BY <1>2, <1>3, PullTakes

-----------------------------------------------------------------------------
(***************************************************************************)
(* A push that lands, and one that is confirmed.                           *)
(***************************************************************************)
LEMMA PushForward ==
  ASSUME TypeOK, TypeOK', Coherent, Forward, NEW m \in Machines, PushAccepted(m)
  PROVE  Forward'
<1>1. /\ pc[m] \in Pushes /\ srv' = Applied(srv, job[m].push)
      /\ UNCHANGED <<vault, state, fresh>>
      /\ job'[m].push = job[m].push /\ pc'[m] = "verify"
      /\ \A k \in Machines : k # m => job'[k] = job[k] /\ pc'[k] = pc[k]
  BY DEF PushAccepted, TypeOK, Job
<1>2. Newer(srv, job[m].push)
  BY NeverBackward DEF PushAccepted
<1>3. Beside(m)
  BY <1>1 DEF Beside
<1>4. YoungParked'
  BY <1>1 DEF Forward, YoungParked
<1>5. ASSUME NEW i \in Ids PROVE Line(View(i))'
  <2> DEFINE p == job[m].push[i]
  <2>1. View(i) \in Views /\ View(i)' \in Views /\ Line(View(i))
    BY ViewType, ViewTypeNext DEF Forward
  <2>2. InFlight(m, i) = p /\ InFlight(m, i)' = p
    BY <1>1 DEF InFlight
  <2>3. srv'.recs[i] = IF p # None THEN p ELSE srv.recs[i]
    BY <1>1 DEF Applied
  <2>4. p # None /\ srv.recs[i] # None => p.rev > srv.recs[i].rev
    BY <1>2 DEF Newer
  <2>5. Others(View(i), View(i)', m)
    BY <1>3, BesideOthers
  <2> HIDE DEF InFlight
  <2>6. /\ View(i).sent[m] = p /\ View(i)'.sent[m] = p
        /\ View(i)'.srv = srv'.recs[i] /\ View(i).srv = srv.recs[i]
        /\ View(i)'.landed[m] /\ ~View(i).landed[m]
    BY <1>1, <2>2, ViewFields DEF Pushes
  <2>7. /\ View(i)'.env[m] = View(i).env[m] /\ View(i)'.base[m] = View(i).base[m]
        /\ View(i)'.past[m] = View(i).past[m] /\ View(i)'.fresh = View(i).fresh
    BY <1>1 DEF View
  <2> HIDE DEF View, p
  <2>8. Landing(View(i), View(i)', m)
    BY <2>3, <2>4, <2>5, <2>6, <2>7 DEF Landing
  <2> QED BY <2>1, <2>8, LandingLine
<1> QED BY <1>4, <1>5 DEF Forward

LEMMA ConfirmForward ==
  ASSUME TypeOK, TypeOK', Coherent, Forward, NEW m \in Machines, VerifyConfirmed(m)
  PROVE  Forward'
<1>1. /\ pc[m] = "verify" /\ UNCHANGED <<srv, vault, fresh>> /\ pc'[m] = "saveVault"
      /\ \A k \in Machines : k # m =>
           state'[k] = state[k] /\ job'[k] = job[k] /\ pc'[k] = pc[k]
  BY DEF VerifyConfirmed, TypeOK
<1>2. state'[m].synced = ConfirmPushed(state[m].synced, job[m].push)
  <2> DEFINE st == [seq |-> job[m].seq, highest |-> Higher(state[m].highest, job[m].seq),
                    synced |-> ConfirmPushed(state[m].synced, job[m].push)]
  <2>1. state'[m] = st
    BY DEF VerifyConfirmed, TypeOK
  <2> QED BY <2>1
<1>3. Beside(m)
  BY <1>1 DEF Beside
<1>4. YoungParked'
  BY <1>1 DEF Forward, YoungParked
<1>5. ASSUME NEW i \in Ids PROVE Line(View(i))'
  <2> DEFINE p == job[m].push[i]
  <2>1. View(i) \in Views /\ View(i)' \in Views /\ Line(View(i))
    BY ViewType, ViewTypeNext DEF Forward
  <2>2. InFlight(m, i) = p /\ InFlight(m, i)' = None
    BY <1>1 DEF InFlight, Pushes
  <2>3. state'[m].synced[i] = IF p # None THEN p.rev ELSE state[m].synced[i]
    <3>1. DOMAIN state[m].synced = Ids
      BY MachineTypes DEF State
    <3> QED BY <1>2, <3>1 DEF ConfirmPushed
  <2>4. p # None => srv.recs[i] # None /\ (srv.recs[i] = p \/ srv.recs[i].rev > p.rev)
    BY <1>1 DEF Coherent, InMemory, Accepted, AcceptedAt
  <2>5. Others(View(i), View(i)', m)
    BY <1>3, BesideOthers
  <2> HIDE DEF InFlight
  <2>6. /\ View(i).sent[m] = p /\ View(i)'.sent[m] = None
        /\ View(i).srv = srv.recs[i] /\ ~View(i)'.landed[m]
    BY <1>1, <2>2, ViewFields
  <2>7. /\ View(i)'.env[m] = View(i).env[m] /\ View(i)'.past[m] = View(i).past[m]
        /\ View(i)'.srv = View(i).srv /\ View(i)'.fresh = View(i).fresh
        /\ View(i)'.base[m] = (IF p # None THEN p.rev ELSE View(i).base[m])
    BY <1>1, <2>3 DEF View
  <2> HIDE DEF View, p
  <2>8. Confirming(View(i), View(i)', m)
    BY <2>4, <2>5, <2>6, <2>7 DEF Confirming
  <2> QED BY <2>1, <2>8, ConfirmingLine
<1> QED BY <1>4, <1>5 DEF Forward

-----------------------------------------------------------------------------
(***************************************************************************)
(* The theorem.                                                            *)
(***************************************************************************)
LEMMA InitForward == Init => Forward
<1> SUFFICES ASSUME Init PROVE Forward
  OBVIOUS
<1>1. /\ srv = FirstStore /\ fresh = 2
      /\ \A m \in Machines : /\ vault[m] = disk[m].vault /\ state[m] = disk[m].state
                             /\ disk[m] \in {Synced, Blank} /\ pc[m] = "idle"
  BY DEF Init
<1>2. ASSUME NEW m \in Machines
      PROVE  /\ vault[m].parked = {} /\ vault[m].past = {}
             /\ \/ /\ vault[m].env = FirstMap
                   /\ state[m].synced = [i \in Ids |-> IF i = 1 THEN 1 ELSE None]
                \/ vault[m].env = EmptyMap /\ state[m].synced = EmptyMap
  BY <1>1 DEF Synced, Blank, NewVault
<1>3. YoungParked
  BY <1>2 DEF YoungParked
<1>4. FirstRecord # None /\ FirstRecord.rev = 1 /\ FirstRecord.body = 1
  <2>1. FirstRecord \in Envelopes /\ FirstRecord.rev = 1 /\ FirstRecord.body = 1
    BY DEF FirstRecord, Envelopes, Envelope
  <2> QED BY <2>1, EnvelopeFacts
<1>5. ASSUME NEW i \in Ids PROVE Line(View(i))
  <2> DEFINE f == IF i = 1 THEN FirstRecord ELSE None
  <2>1. View(i).srv = f /\ View(i).fresh = 2
    BY <1>1 DEF View, FirstStore, FirstMap
  <2>2. ASSUME NEW k \in Machines
        PROVE  /\ View(i).sent[k] = None /\ View(i).past[k] = {}
               /\ \/ /\ View(i).env[k] = f
                     /\ View(i).base[k] = IF i = 1 THEN 1 ELSE None
                  \/ View(i).env[k] = None
    <3>1. View(i).sent[k] = None
      BY <1>1 DEF View, InFlight, Pushes
    <3>2. View(i).past[k] = {}
      BY <1>2 DEF View
    <3>3. \/ View(i).env[k] = f /\ View(i).base[k] = IF i = 1 THEN 1 ELSE None
          \/ View(i).env[k] = None
      <4>1. CASE /\ vault[k].env = FirstMap
                 /\ state[k].synced = [j \in Ids |-> IF j = 1 THEN 1 ELSE None]
        BY <4>1 DEF View, FirstMap
      <4>2. CASE vault[k].env = EmptyMap
        BY <4>2 DEF View, EmptyMap
      <4> QED BY <1>2, <4>1, <4>2
    <3> QED BY <3>1, <3>2, <3>3
  <2> HIDE DEF View
  <2>3. Young(f, 2) /\ (Live(f) => f.body = 1 /\ f.rev = 1 /\ i = 1)
    BY <1>4 DEF Young, Live
  <2>4. AllYoung(View(i))
    BY <2>1, <2>2, <2>3 DEF AllYoung, Young, Live
  <2> HIDE DEF f
  <2>5. ASSUME NEW k \in Machines
        PROVE  Placed(View(i), k) /\ Sending(View(i), k) /\ Straight(View(i), k)
    <3>1. Placed(View(i), k)
      BY <2>1, <2>2, <2>3 DEF Placed, Known, Live
    <3>2. Sending(View(i), k)
      BY <2>2 DEF Sending
    <3>3. Straight(View(i), k)
      BY <2>1, <2>2 DEF Straight, Live
    <3> QED BY <3>1, <3>2, <3>3
  <2> QED BY <2>4, <2>5 DEF Line
<1> QED BY <1>3, <1>5 DEF Forward

(* What users have done stays done.                                        *)
LEMMA DidStays ==
  ASSUME [Next]_vars, NEW op
  PROVE  Did(op) => Did(op)'
<1>0. ASSUME NEW m \in Machines, NEW o, NEW v, Operate(m, o, v) PROVE ops.of \subseteq ops'.of
  BY <1>0 DEF Operate, Counting
<1>1. ASSUME NEW m \in Machines, UserStep(m) PROVE ops.of \subseteq ops'.of
  BY <1>0, <1>1 DEF UserStep, Add, Edit, Touch, Delete
<1>2. ASSUME NEW m \in Machines, Pull(m) PROVE ops' = ops
  BY <1>2 DEF Pull, PullRefused, PullLockedConflict, PullLocked, PullUnlocked, AfterPull,
     GiveUp
<1>3. ASSUME NEW m \in Machines, SyncStep(m), ~Pull(m) PROVE ops' = ops
  BY <1>3 DEF SyncStep, PushAccepted, PushRetried, PushGivenUp, VerifyRefused,
     VerifyConfirmed, SaveVault, SaveState, GiveUp
<1>4. ASSUME NEW m \in Machines, Start(m) \/ Unlock(m) PROVE ops' = ops
  BY <1>4 DEF Start, Unlock
<1>5. ASSUME NEW m \in Machines, Disturbance(m) PROVE ops' = ops
  BY <1>5 DEF Disturbance, Lock, LoseRequest, LoseAck, Crash, SettingsWrite, GiveUp
<1>6. Restore => ops' = ops
  BY DEF Restore
<1>7. CASE UNCHANGED vars
  BY <1>7 DEF vars, Did
<1> QED BY <1>1, <1>2, <1>3, <1>4, <1>5, <1>6, <1>7 DEF Next, Did

LEMMA MachineForward ==
  ASSUME TypeOK, TypeOK', Unminted, Coherent, Forward, ~Did("touch")', ~Cut',
         NEW m \in Machines,
         Start(m) \/ SyncStep(m) \/ UserStep(m) \/ Unlock(m) \/ Disturbance(m)
  PROVE  Forward'
<1>1. CASE Pull(m)
  BY <1>1, PullForward
<1>2. CASE PushAccepted(m)
  BY <1>2, PushForward
<1>3. CASE VerifyConfirmed(m)
  BY <1>3, ConfirmForward
<1>4. CASE UserStep(m)
  BY <1>4, UserWrites, WroteForward
<1>5. CASE Unlock(m)
  BY <1>5, UnlockForward
<1>6. CASE LoseRequest(m) \/ LoseAck(m) \/ Crash(m)
  BY <1>6, DisturbMet DEF LoseRequest, LoseAck, Crash, Cut
<1>7. CASE \/ Start(m) \/ PushRetried(m) \/ PushGivenUp(m) \/ VerifyRefused(m)
           \/ SaveVault(m) \/ SaveState(m) \/ SettingsWrite(m) \/ Lock(m)
  <2>1. PICK v \in Vault : Quiet(m, v)
    BY <1>7, QuietSteps
  <2> QED BY <2>1, QuietForward
<1> QED BY <1>1, <1>2, <1>3, <1>4, <1>5, <1>6, <1>7 DEF SyncStep, Disturbance

LEMMA LineageStep ==
  ASSUME TypeOK, TypeOK', Unminted, Agreement, Lineage, [Next]_vars
  PROVE  Lineage'
<1>1. CASE Did("touch") \/ Cut
  BY <1>1, DidStays, HappenedStays DEF Lineage, Cut
<1>2. CASE Did("touch")' \/ Cut'
  BY <1>2 DEF Lineage
<1>3. CASE Forward /\ ~Did("touch")' /\ ~Cut' /\ ~Cut
  <2>1. Coherent
    BY <1>3 DEF Agreement, HalfSaved, Cut
  <2>2. ASSUME NEW m \in Machines,
               Start(m) \/ SyncStep(m) \/ UserStep(m) \/ Unlock(m) \/ Disturbance(m)
        PROVE  Forward'
    BY <1>3, <2>1, <2>2, MachineForward
  <2>3. ~Restore
    BY <1>3, DisturbMet DEF Restore, Cut
  <2>4. CASE UNCHANGED vars
    <3>1. UNCHANGED <<srv, vault, state, pc, job, fresh>>
      BY <2>4 DEF vars
    <3>2. ASSUME NEW i \in Ids PROVE View(i)' = View(i)
      BY <3>1 DEF View, InFlight
    <3>3. ASSUME NEW i \in Ids PROVE Line(View(i))'
      <4>1. Line(View(i))
        BY <1>3 DEF Forward
      <4> HIDE DEF View
      <4> QED BY <3>2, <4>1
    <3>4. YoungParked'
      BY <1>3, <3>1 DEF Forward, YoungParked
    <3> QED BY <3>3, <3>4 DEF Forward, Lineage
  <2> QED BY <2>2, <2>3, <2>4 DEF Next, Lineage
<1> QED BY <1>1, <1>2, <1>3 DEF Lineage

(* However the syncs of the machines, their users' edits, additions and    *)
(* deletions, locking and settings saves interleave, a body that is not yet*)
(* the server's is one its machine alone has ever shown.                   *)
THEOREM LineageInvariant == Spec => [](TypeOK /\ Lineage)
<1>1. Init => Lineage
  BY InitForward DEF Lineage
<1>2. TypeOK /\ TypeOK' /\ Unminted /\ Agreement /\ Lineage /\ [Next]_vars => Lineage'
  BY LineageStep
<1> QED BY <1>1, <1>2, AgreementInvariant, PTL DEF Spec

(* No record shows, on a machine, a plaintext that machine had moved past  *)
(* (test/model.test.js, invariant B; merge.js 104-121 and 168-190).        *)
THEOREM NothingReverts == Spec => []NoRevertUndisturbed
<1>1. ASSUME TypeOK, Lineage PROVE NoRevertUndisturbed
  <2> SUFFICES ASSUME Forward, NEW m \in Machines, NEW i \in Ids, Live(vault[m].env[i])
               PROVE  <<i, vault[m].env[i].body>> \notin vault[m].past
    BY <1>1 DEF Lineage, Cut, NoRevertUndisturbed, NoRevert
  <2>1. Straight(View(i), m)
    BY DEF Forward, Line
  <2>2. vault[m].env[i].body \in Nat
    BY <1>1, MachineTypes, MaybeFacts DEF EnvMap, Maybe, Live
  <2>3. vault[m].env[i].body \notin View(i).past[m]
    BY <2>1 DEF Straight, View
  <2> QED BY <2>2, <2>3 DEF View
<1> QED BY <1>1, LineageInvariant, PTL

=============================================================================
