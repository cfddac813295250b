----------------------------- MODULE PageProofs -----------------------------
(***************************************************************************)
(* Page.tla, for every number of sites, tabs, records, passwords and       *)
(* handlers that wait.                                                     *)
(***************************************************************************)
EXTENDS Page, SequenceTheorems, FiniteSetTheorems, TLAPS

USE BoundsAssumption, NoneAssumption, StartAssumption

-----------------------------------------------------------------------------
(* Sequences of handlers.                                                  *)
LEMMA RemoveAtFacts ==
  ASSUME NEW S, NEW s \in Seq(S), NEW n \in 1 .. Len(s)
  PROVE  /\ RemoveAt(s, n) \in Seq(S) /\ Len(RemoveAt(s, n)) = Len(s) - 1
         /\ \A i \in 1 .. Len(s) - 1 : RemoveAt(s, n)[i] = IF i < n THEN s[i] ELSE s[i + 1]
<1> DEFINE a == SubSeq(s, 1, n - 1)
           b == SubSeq(s, n + 1, Len(s))
<1>1. /\ a \in Seq(S) /\ Len(a) = n - 1
      /\ \A i \in 1 .. n - 1 : a[i] = s[i]
  BY SubSeqProperties, ElementOfSeq
<1>2. /\ b \in Seq(S) /\ Len(b) = Len(s) - n
      /\ \A i \in 1 .. Len(s) - n : b[i] = s[n + i]
  BY SubSeqProperties, ElementOfSeq
<1> HIDE DEF a, b
<1>3. Len(s) \in Nat /\ Len(a) + Len(b) = Len(s) - 1
  BY <1>1, <1>2
<1>4. /\ a \o b \in Seq(S) /\ Len(a \o b) = Len(s) - 1
      /\ \A i \in 1 .. Len(s) - 1 : (a \o b)[i] = IF i <= n - 1 THEN a[i] ELSE b[i - (n - 1)]
  <2>1. /\ a \o b \in Seq(S) /\ Len(a \o b) = Len(a) + Len(b)
        /\ \A i \in 1 .. Len(a) + Len(b) :
             (a \o b)[i] = IF i <= Len(a) THEN a[i] ELSE b[i - Len(a)]
    <3>1. a \in Seq(S) /\ b \in Seq(S)
      BY <1>1, <1>2
    <3>2. a \o b \in Seq(S) /\ Len(a \o b) = Len(a) + Len(b)
      BY <3>1, ConcatProperties
    <3>3. ASSUME NEW i \in 1 .. Len(a) + Len(b)
          PROVE  (a \o b)[i] = IF i <= Len(a) THEN a[i] ELSE b[i - Len(a)]
      BY <3>1, ConcatProperties
    <3> QED BY <3>2, <3>3
  <2>2. Len(a) = n - 1
    BY <1>1
  <2> QED BY <1>3, <2>1, <2>2
<1>5. ASSUME NEW i \in 1 .. Len(s) - 1
      PROVE  (a \o b)[i] = IF i < n THEN s[i] ELSE s[i + 1]
  <2>1. CASE i < n
    <3>1. i \in 1 .. n - 1 /\ i <= n - 1
      BY <1>3, <2>1
    <3> QED BY <1>1, <1>4, <2>1, <3>1
  <2>2. CASE ~(i < n)
    <3>1. i - (n - 1) \in 1 .. Len(s) - n /\ n + (i - (n - 1)) = i + 1 /\ ~(i <= n - 1)
      BY <1>3, <2>2
    <3>2. (a \o b)[i] = b[i - (n - 1)]
      BY <1>4, <3>1
    <3> QED BY <1>2, <2>2, <3>1, <3>2
  <2> QED BY <2>1, <2>2
<1>6. RemoveAt(s, n) = a \o b
  BY DEF RemoveAt, a, b
<1> QED BY <1>4, <1>5, <1>6

LEMMA EmptyMap == ASSUME NEW S PROVE <<>> \in [{} -> S] /\ DOMAIN <<>> = {}
<1>1. <<>> \in [1 .. 0 -> S]
  BY EmptySeq, LenProperties
<1>2. 1 .. 0 = {}
  OBVIOUS
<1> QED BY <1>1, <1>2

(* One handler leaves, one joins at the end, or both.                      *)
LEMMA Leaves ==
  ASSUME NEW S, NEW s \in Seq(S), NEW n \in 1 .. Len(s)
  PROVE  /\ RemoveAt(s, n) \in Seq(S) /\ Len(RemoveAt(s, n)) = Len(s) - 1
         /\ \A i \in DOMAIN RemoveAt(s, n) :
              \E j \in DOMAIN s : j # n /\ RemoveAt(s, n)[i] = s[j]
<1>1. /\ RemoveAt(s, n) \in Seq(S) /\ Len(RemoveAt(s, n)) = Len(s) - 1
      /\ \A i \in 1 .. Len(s) - 1 : RemoveAt(s, n)[i] = IF i < n THEN s[i] ELSE s[i + 1]
  BY RemoveAtFacts
<1>2. DOMAIN RemoveAt(s, n) = 1 .. Len(s) - 1 /\ DOMAIN s = 1 .. Len(s) /\ Len(s) \in Nat
  BY <1>1, LenProperties
<1>3. ASSUME NEW i \in 1 .. Len(s) - 1
      PROVE  \E j \in 1 .. Len(s) : j # n /\ RemoveAt(s, n)[i] = s[j]
  <2>1. CASE i < n
    <3>1. i \in 1 .. Len(s) /\ i # n
      BY <1>2, <2>1
    <3> QED BY <1>1, <2>1, <3>1
  <2>2. CASE ~(i < n)
    <3>1. i + 1 \in 1 .. Len(s) /\ i + 1 # n
      BY <1>2, <2>2
    <3> QED BY <1>1, <2>2, <3>1
  <2> QED BY <2>1, <2>2
<1> QED BY <1>1, <1>2, <1>3

LEMMA Joins ==
  ASSUME NEW S, NEW s \in Seq(S), NEW e \in S
  PROVE  /\ Append(s, e) \in Seq(S) /\ Len(Append(s, e)) = Len(s) + 1
         /\ \A i \in DOMAIN Append(s, e) :
              Append(s, e)[i] = e \/ \E j \in DOMAIN s : Append(s, e)[i] = s[j]
<1>1. /\ Append(s, e) \in Seq(S) /\ Len(Append(s, e)) = Len(s) + 1
      /\ \A i \in 1 .. Len(s) : Append(s, e)[i] = s[i]
      /\ Append(s, e)[Len(s) + 1] = e
  BY AppendProperties
<1>2. DOMAIN Append(s, e) = 1 .. Len(s) + 1 /\ DOMAIN s = 1 .. Len(s) /\ Len(s) \in Nat
  BY <1>1, LenProperties
<1>3. \A i \in 1 .. Len(s) + 1 : i \in 1 .. Len(s) \/ i = Len(s) + 1
  BY <1>2
<1> QED BY <1>1, <1>2, <1>3

-----------------------------------------------------------------------------
(* What a handler took with it: the record it writes, the vault it stores, *)
(* the password and the site it goes on with.                              *)
Maps == UNION {[D -> Envelopes \cup {None}] : D \in SUBSET Ids}
TaskRecs == [does : Handlers, at : {"page", "seal", "store"}, tab : Tabs \cup {None},
             val : Pws \cup {None}, site : Sites \cup {None}, there : Sites \cup {None},
             other : Ids \cup {None}, seen : Maps, new : Maps]
Writers == Handlers \ {"sync", "open", "send"}
Fillers == {"fill", "generate", "send"}
(* What a handler that writes, or fills, goes on with.                     *)
Carries(k) ==
  /\ k.does \in Fillers \cup {"save", "complete", "rotate", "edit"} => k.val \in Pws
  /\ k.does \in Fillers => k.site \in Sites
  /\ k.does \notin Fillers => k.there = None
  /\ k.does \in {"fill", "save", "complete", "rotate"} => k.tab \in Tabs
  /\ k.does \in {"rotate", "send"} => k.other \in Ids
WritesOne(k, i) == k.seen \in [{i} -> Envelopes \cup {None}] /\ k.new \in [{i} -> Envelopes]
Shape(k) ==
  /\ Carries(k) /\ (k.does = "send" <=> k.at = "page")
  /\ k.at = "store" => k.new \in EnvMaps
  /\ k.does = "open" => k.seen \in EnvMaps /\ k.at = "seal"
  /\ k.does = "sync" /\ k.at = "seal" => k.seen \in EnvMaps /\ k.new \in EnvMaps
  /\ k.does \in Writers /\ k.at = "seal" => \E i \in Ids : WritesOne(k, i)

(* No record stands at an id not handed out yet.                           *)
Upto(m, n) == \A i \in DOMAIN m : m[i] # None => i <= n
TaskUpto(k, n) ==
  Upto(k.seen, n) /\ Upto(k.new, n) /\ (k.does \in {"rotate", "send"} => k.other <= n)

GoodTask(k, n) == k \in TaskRecs /\ Shape(k) /\ TaskUpto(k, n)
Waiting(ts, n) ==
  /\ ts \in Seq(TaskRecs) /\ Len(ts) <= MaxTasks
  /\ \A m \in DOMAIN ts : GoodTask(ts[m], n)
TypeInv ==
  /\ TypeOK /\ Waiting(tasks, minted)
  /\ Upto(env, minted) /\ Upto(disk, minted) /\ Upto(plain, minted)

LEMMA MapFacts ==
  /\ EnvMaps \subseteq Maps
  /\ \A i \in Ids : [{i} -> Envelopes] \subseteq Maps /\ [{i} -> Envelopes \cup {None}] \subseteq Maps
  /\ \A m \in Maps : DOMAIN m \subseteq Ids /\ \A i \in DOMAIN m : m[i] \in Envelopes \cup {None}
  /\ <<>> \in Maps /\ \A n : Upto(<<>>, n)
<1>1. EnvMaps \in {[D -> Envelopes \cup {None}] : D \in SUBSET Ids}
  BY DEF EnvMaps
<1>2. \A i \in Ids : [{i} -> Envelopes \cup {None}] \in {[D -> Envelopes \cup {None}] : D \in SUBSET Ids}
  OBVIOUS
<1>3. \A i \in Ids : [{i} -> Envelopes] \subseteq [{i} -> Envelopes \cup {None}]
  OBVIOUS
<1>4. <<>> \in [{} -> Envelopes \cup {None}] /\ DOMAIN <<>> = {}
  BY EmptyMap
<1>5. [{} -> Envelopes \cup {None}] \in {[D -> Envelopes \cup {None}] : D \in SUBSET Ids}
  OBVIOUS
<1>6. \A m \in Maps : DOMAIN m \subseteq Ids /\ \A i \in DOMAIN m : m[i] \in Envelopes \cup {None}
  BY DEF Maps
<1>7. <<>> \in Maps
  BY <1>4, <1>5 DEF Maps
<1> QED BY <1>1, <1>2, <1>3, <1>4, <1>6, <1>7 DEF Maps, Upto

LEMMA IsATask ==
  ASSUME NEW k \in TaskRecs
  PROVE  /\ IsTask(k) /\ k.seen \in Maps /\ k.new \in Maps
         /\ k.does \in Handlers /\ k.at \in {"page", "seal", "store"}
<1>1. /\ k.does \in Handlers /\ k.at \in {"page", "seal", "store"}
      /\ k.tab \in Tabs \cup {None} /\ {k.site, k.there} \subseteq Sites \cup {None}
      /\ k.val \in Pws \cup {None} /\ k.other \in Ids \cup {None}
      /\ k.seen \in Maps /\ k.new \in Maps
  BY DEF TaskRecs
<1>2. \A m \in {k.seen, k.new} :
       /\ DOMAIN m \subseteq Ids
       /\ \A i \in DOMAIN m : m[i] = None \/ m[i] \in Envelopes
  BY <1>1, MapFacts
<1> QED BY <1>1, <1>2 DEF IsTask

(* Handing out more ids leaves everything below the last.                  *)
LEMMA UptoMore ==
  ASSUME NEW n \in Nat, NEW u \in Nat, n <= u
  PROVE  /\ \A m \in Maps \cup [Ids -> Bodies \cup {None}] : Upto(m, n) => Upto(m, u)
         /\ \A k : GoodTask(k, n) => GoodTask(k, u)
<1>1. \A m \in Maps \cup [Ids -> Bodies \cup {None}] : DOMAIN m \subseteq Ids
  BY MapFacts
<1>2. \A m \in Maps \cup [Ids -> Bodies \cup {None}] : Upto(m, n) => Upto(m, u)
  BY <1>1 DEF Upto, Ids
<1>3. ASSUME NEW k, GoodTask(k, n) PROVE GoodTask(k, u)
  <2>1. k.seen \in Maps /\ k.new \in Maps /\ (k.does \in {"rotate", "send"} => k.other \in Ids)
    BY <1>3, IsATask DEF GoodTask, Shape, Carries
  <2>2. TaskUpto(k, u)
    BY <1>2, <1>3, <2>1 DEF GoodTask, TaskUpto, Ids
  <2> QED BY <1>3, <2>2 DEF GoodTask
<1> QED BY <1>2, <1>3

(* The handlers that wait, after one joined, left, or changed.             *)
LEMMA WaitingJoins ==
  ASSUME NEW ts, NEW n \in Nat, NEW u \in Nat, n <= u, Waiting(ts, n),
         NEW k, GoodTask(k, u), Len(ts) < MaxTasks
  PROVE  Waiting(Append(ts, k), u)
<1>1. ts \in Seq(TaskRecs) /\ k \in TaskRecs
  BY DEF Waiting, GoodTask
<1>2. /\ Append(ts, k) \in Seq(TaskRecs) /\ Len(Append(ts, k)) = Len(ts) + 1
      /\ \A i \in DOMAIN Append(ts, k) :
           Append(ts, k)[i] = k \/ \E j \in DOMAIN ts : Append(ts, k)[i] = ts[j]
  BY <1>1, Joins
<1>3. \A m \in DOMAIN ts : GoodTask(ts[m], u)
  BY UptoMore DEF Waiting
<1>4. Len(ts) + 1 <= MaxTasks
  BY <1>1, LenProperties
<1> QED BY <1>2, <1>3, <1>4 DEF Waiting

LEMMA WaitingLeaves ==
  ASSUME NEW ts, NEW n \in Nat, Waiting(ts, n), NEW m \in DOMAIN ts
  PROVE  /\ Waiting(RemoveAt(ts, m), n) /\ Len(RemoveAt(ts, m)) < MaxTasks
         /\ ts[m] \in TaskRecs /\ GoodTask(ts[m], n)
<1>1. ts \in Seq(TaskRecs) /\ DOMAIN ts = 1 .. Len(ts) /\ Len(ts) \in Nat
  BY LenProperties DEF Waiting
<1> DEFINE r == RemoveAt(ts, m)
<1>2. r \in Seq(TaskRecs) /\ Len(r) = Len(ts) - 1
  BY ONLY <1>1, Leaves
<1>3. \A i \in 1 .. Len(ts) - 1 : r[i] = IF i < m THEN ts[i] ELSE ts[i + 1]
  BY ONLY <1>1, RemoveAtFacts
<1> HIDE DEF r
<1>4. DOMAIN r = 1 .. Len(ts) - 1
  BY <1>2, LenProperties
<1>5. ASSUME NEW i \in DOMAIN r 
      PROVE  \/ r[i] = ts[i] /\ i \in DOMAIN ts
             \/ r[i] = ts[i + 1] /\ i + 1 \in DOMAIN ts
  BY <1>1, <1>3, <1>4
<1>6. Len(ts) - 1 < MaxTasks
  BY <1>1 DEF Waiting
<1>7. \A j \in DOMAIN ts : GoodTask(ts[j], n)
  BY DEF Waiting
<1>8. \A i \in DOMAIN r : GoodTask(r[i], n)
  BY <1>5, <1>7
<1>9. Waiting(r, n)
  BY <1>1, <1>2, <1>6, <1>8 DEF Waiting
<1> QED BY <1>2, <1>6, <1>7, <1>9 DEF GoodTask, r

-----------------------------------------------------------------------------
(* A handler that writes.                                                  *)
(* What it carries is as it was given.                                     *)
Given(k, d, t, p, s, o) ==
  /\ k \in TaskRecs /\ k.does = d /\ k.at = "seal"
  /\ k.tab = t /\ k.val = p /\ k.site = s /\ k.other = o
  /\ d \notin Fillers => k.there = None

LEMMA TaskIs ==
  ASSUME NEW d \in Handlers, NEW p \in Pws \cup {None}
  PROVE  /\ Given(Task(d, p), d, None, p, None, None)
         /\ \A t \in Tabs : Given([Task(d, p) EXCEPT !.tab = t], d, t, p, None, None)
         /\ \A t \in Tabs, s \in Sites :
              d \in Fillers => Given(Filling(d, p, t, s), d, t, p, s, None)
         /\ \A t \in Tabs, o \in Ids :
              Given([Task(d, p) EXCEPT !.tab = t, !.other = o], d, t, p, None, o)
<1>1. Given(Nothing, "touch", None, None, None, None)
  <2>1. <<>> \in Maps
    BY MapFacts
  <2> QED BY <2>1 DEF Nothing, Given, TaskRecs, Handlers
<1>2. Given(Task(d, p), d, None, p, None, None)
  BY <1>1 DEF Task, Given, TaskRecs, Fillers
<1> DEFINE k == Task(d, p)
<1> HIDE DEF k
<1>3. Given(k, d, None, p, None, None)
  BY <1>2 DEF k
<1>5. \A t \in Tabs : Given([k EXCEPT !.tab = t], d, t, p, None, None)
  BY <1>3 DEF Given, TaskRecs
<1>6. \A t \in Tabs, s \in Sites :
        d \in Fillers => Given([k EXCEPT !.tab = t, !.site = s, !.there = s], d, t, p, s, None)
  BY <1>3 DEF Given, TaskRecs
<1>7. \A t \in Tabs, o \in Ids : Given([k EXCEPT !.tab = t, !.other = o], d, t, p, None, o)
  BY <1>3 DEF Given, TaskRecs
<1> QED BY <1>3, <1>5, <1>6, <1>7 DEF k, Filling

(* A body under the next revision is an envelope.                          *)
LEMMA NextRevision ==
  ASSUME env \in EnvMaps, NEW i \in Ids, NEW b \in Bodies \cup {None}
  PROVE  [rev |-> RevOf(env[i]) + 1, body |-> b] \in Envelopes
<1>1. env[i] = None \/ env[i] \in Envelopes
  BY DEF EnvMaps
<1>2. RevOf(env[i]) \in Nat
  BY <1>1 DEF RevOf, Envelopes
<1> QED BY <1>2 DEF Envelopes

(* w writes b for i, over e, and is k in all else.                         *)
WritesAs(w, k, i, b, e) ==
  /\ w \in TaskRecs /\ WritesOne(w, i)
  /\ w.does = k.does /\ w.at = k.at /\ w.tab = k.tab /\ w.val = k.val
  /\ w.site = k.site /\ w.there = k.there /\ w.other = k.other
  /\ DOMAIN w.seen = {i} /\ w.seen[i] = e
  /\ DOMAIN w.new = {i} /\ w.new[i] \in Envelopes
  /\ w.new[i].body = b /\ w.new[i].rev = RevOf(e) + 1

LEMMA WritingFacts ==
  ASSUME env \in EnvMaps, NEW k \in TaskRecs, NEW i \in Ids, NEW b \in Bodies \cup {None}
  PROVE  WritesAs(Writing(k, i, b), k, i, b, env[i])
<1> DEFINE s == [j \in {i} |-> env[j]]
           m == [j \in {i} |-> [rev |-> RevOf(env[j]) + 1, body |-> b]]
<1>1. s \in [{i} -> Envelopes \cup {None}]
  BY DEF EnvMaps
<1>2. m \in [{i} -> Envelopes]
  BY NextRevision
<1>3. s \in Maps /\ m \in Maps
  BY <1>1, <1>2, MapFacts
<1>4. /\ DOMAIN s = {i} /\ s[i] = env[i]
      /\ DOMAIN m = {i} /\ m[i] = [rev |-> RevOf(env[i]) + 1, body |-> b]
      /\ m[i].body = b
  OBVIOUS
<1> HIDE DEF s, m
<1> DEFINE w == [k EXCEPT !.seen = s, !.new = m]
<1>5. /\ w \in TaskRecs
      /\ w.does = k.does /\ w.at = k.at /\ w.tab = k.tab /\ w.val = k.val
      /\ w.site = k.site /\ w.there = k.there /\ w.other = k.other /\ w.seen = s /\ w.new = m
  BY <1>3 DEF TaskRecs
<1>6. w = Writing(k, i, b)
  BY DEF Writing, s, m
<1> HIDE DEF w
<1>7. WritesOne(w, i) /\ w.new[i] \in Envelopes
  BY <1>1, <1>2, <1>5 DEF WritesOne
<1>8. /\ DOMAIN w.seen = {i} /\ w.seen[i] = env[i]
      /\ DOMAIN w.new = {i} /\ w.new[i].rev = RevOf(env[i]) + 1
      /\ w.new[i].body = b
  BY <1>4, <1>5
<1> QED BY ONLY <1>5, <1>6, <1>7, <1>8 DEF WritesAs

LEMMA WritingIsGood ==
  ASSUME env \in EnvMaps, NEW k \in TaskRecs, NEW i \in Ids, NEW b \in Bodies \cup {None},
         k.at = "seal", k.does \in Writers, Carries(k),
         NEW u \in Nat, i <= u, k.does = "rotate" => k.other <= u
  PROVE  GoodTask(Writing(k, i, b), u)
<1> DEFINE w == Writing(k, i, b)
<1>1. WritesAs(w, k, i, b, env[i])
  BY WritingFacts
<1> HIDE DEF w
<1>2. Carries(w)
  BY <1>1 DEF Carries, WritesAs
<1>3. Shape(w)
  BY <1>1, <1>2 DEF Shape, Writers, WritesAs
<1>4. TaskUpto(w, u)
  BY <1>1 DEF TaskUpto, Upto, WritesAs, Writers
<1> QED BY <1>1, <1>3, <1>4 DEF GoodTask, w, WritesAs

-----------------------------------------------------------------------------
(* Bodies, passwords drawn, and the ghost.                                 *)
IsPatch(c, b, p) ==
  /\ c \in Bodies /\ c # None /\ c.password = p
  /\ c.urls = b.urls /\ c.provisional = b.provisional
  /\ ValuesOf(b) \subseteq ValuesOf(c)
LEMMA PatchedFacts ==
  ASSUME NEW b \in Bodies, NEW p \in Pws PROVE IsPatch(Patched(b, p), b, p)
<1> DEFINE h == IF p = b.password THEN b.history ELSE b.history \cup {b.password}
           q == [b EXCEPT !.password = p, !.history = h]
<1>1. b.password \in Pws /\ h \in SUBSET Pws
  BY DEF Bodies
<1> HIDE DEF h
<1>2. /\ q \in Bodies /\ q.password = p /\ q.history = h
      /\ q.urls = b.urls /\ q.provisional = b.provisional
  BY <1>1 DEF Bodies
<1>3. q = Patched(b, p)
  BY DEF Patched, h
<1> HIDE DEF q
<1>4. q # None /\ b # None
  BY <1>2
<1>5. ValuesOf(b) = {b.password} \cup b.history /\ ValuesOf(q) = {p} \cup h
  BY <1>2, <1>4 DEF ValuesOf
<1>6. ValuesOf(b) \subseteq ValuesOf(q)
  BY <1>5 DEF h
<1> QED BY <1>2, <1>3, <1>4, <1>6 DEF IsPatch

IsLogin(c, p, urls, prov) ==
  c \in Bodies /\ c # None /\ c.password = p /\ c.urls = urls /\ c.provisional = prov
LEMMA LoginFacts ==
  ASSUME NEW u \in Names, NEW p \in Pws, NEW urls \in SUBSET Sites, NEW prov \in BOOLEAN
  PROVE  IsLogin(Login(u, p, urls, prov), p, urls, prov)
<1>1. /\ Login(u, p, urls, prov) \in Bodies /\ Login(u, p, urls, prov).password = p
      /\ Login(u, p, urls, prov).urls = urls /\ Login(u, p, urls, prov).provisional = prov
  BY DEF Login, Bodies
<1> QED BY <1>1 DEF IsLogin

LEMMA BodyParts ==
  ASSUME NEW b \in Bodies
  PROVE  /\ b # None /\ b.username \in Names /\ b.password \in Pws
         /\ b.urls \in SUBSET Sites /\ b.provisional \in BOOLEAN
         /\ ValuesOf(b) = {b.password} \cup b.history /\ ValuesOf(b) \subseteq Pws
<1>1. /\ b # None /\ b.username \in Names /\ b.password \in Pws /\ b.history \in SUBSET Pws
      /\ b.urls \in SUBSET Sites /\ b.provisional \in BOOLEAN
  BY DEF Bodies
<1> QED BY <1>1 DEF ValuesOf

LEMMA DrawsFacts ==
  ASSUME drawn \in 0 .. MaxPws, NEW p \in Pws, Draws(p)
  PROVE  drawn' \in 0 .. MaxPws
  BY DEF Draws, PwsSoFar, Pws, NewPw

LEMMA NewPwDrawn == ASSUME Draws(NewPw) PROVE NewPw \in Pws
  BY DEF Draws, PwsSoFar

LEMMA LogParts ==
  ASSUME NEW l \in Log
  PROVE  /\ l.home \in [Pws -> SUBSET Sites] /\ l.given \in [Pws -> SUBSET Sites]
         /\ l.owed \in SUBSET Pws /\ l.gone \in SUBSET Pws
         /\ l.over \in SUBSET Ids /\ l.torn \in SUBSET Ids
         /\ l.under \in BOOLEAN /\ l.late \in BOOLEAN /\ l.twice \in SUBSET Sites
  BY DEF Log

(* Where the passwords may be filled by the entries they are in.           *)
FiledIn(l) == [p \in Pws |-> l.home[p] \cup l.given[p]]
(* What somebody who writes leaves as it is in the ghost.                  *)
SameLog(l) ==
  /\ l \in Log /\ l.owed = log.owed /\ l.gone = log.gone /\ l.over = log.over
  /\ l.torn = log.torn /\ l.under = log.under /\ l.late = log.late
  /\ log.twice \subseteq l.twice /\ \A p \in Pws : FiledIn(log)[p] \subseteq FiledIn(l)[p]

LEMMA LearnsFacts ==
  ASSUME log \in Log, NEW p \in Pws, NEW S \in SUBSET Sites
  PROVE  /\ SameLog(Learns(p, S)) /\ Learns(p, S).twice = log.twice
         /\ S \subseteq FiledIn(Learns(p, S))[p]
<1> DEFINE h == [log.home EXCEPT ![p] = @ \cup S]
           l == [log EXCEPT !.home = h]
<1>1. log.home \in [Pws -> SUBSET Sites]
  BY LogParts
<1>2. h \in [Pws -> SUBSET Sites] /\ h[p] = log.home[p] \cup S /\ \A q \in Pws : log.home[q] \subseteq h[q]
  BY <1>1
<1>3. Learns(p, S) = l
  BY <1>1 DEF Learns
<1> HIDE DEF h
<1>4. /\ l \in Log /\ l.owed = log.owed /\ l.gone = log.gone /\ l.over = log.over
      /\ l.torn = log.torn /\ l.under = log.under /\ l.late = log.late
      /\ l.twice = log.twice /\ l.home = h /\ l.given = log.given
  BY <1>2 DEF Log
<1> HIDE DEF l
<1>5. S \subseteq FiledIn(l)[p] /\ \A q \in Pws : FiledIn(log)[q] \subseteq FiledIn(l)[q]
  BY <1>2, <1>4 DEF FiledIn
<1> QED BY <1>3, <1>4, <1>5 DEF SameLog

LEMMA SpreadsFacts ==
  ASSUME NEW l, SameLog(l), NEW p \in Pws, NEW S \in SUBSET Sites
  PROVE  LET m == Spreads(l, p, S) IN
         /\ SameLog(m) /\ m.twice = l.twice /\ S \subseteq FiledIn(m)[p]
         /\ FiledIn(l)[p] \subseteq FiledIn(m)[p]
<1> DEFINE h == [l.given EXCEPT ![p] = @ \cup S]
           m == [l EXCEPT !.given = h]
<1>1. l \in Log /\ l.given \in [Pws -> SUBSET Sites]
  BY LogParts DEF SameLog
<1>2. h \in [Pws -> SUBSET Sites] /\ h[p] = l.given[p] \cup S /\ \A q \in Pws : l.given[q] \subseteq h[q]
  BY <1>1
<1>3. Spreads(l, p, S) = m
  BY <1>1 DEF Spreads
<1> HIDE DEF h
<1>4. /\ m \in Log /\ m.owed = l.owed /\ m.gone = l.gone /\ m.over = l.over
      /\ m.torn = l.torn /\ m.under = l.under /\ m.late = l.late
      /\ m.twice = l.twice /\ m.home = l.home /\ m.given = h
  BY <1>1, <1>2 DEF Log
<1> HIDE DEF m
<1>5. S \subseteq FiledIn(m)[p] /\ \A q \in Pws : FiledIn(l)[q] \subseteq FiledIn(m)[q]
  BY <1>2, <1>4 DEF FiledIn
<1>6. SameLog(m)
  BY <1>4, <1>5 DEF SameLog
<1> QED BY <1>3, <1>4, <1>5, <1>6

(* What a password that comes to a site with an entry leaves in the ghost. *)
LEMMA FiledFacts ==
  ASSUME log \in Log, NEW p \in Pws, NEW S \in SUBSET Sites, NEW T \in SUBSET Sites
  PROVE  LET m == Spreads(Learns(p, S), p, T) IN
         SameLog(m) /\ m.twice = log.twice /\ S \cup T \subseteq FiledIn(m)[p]
<1> DEFINE l == Learns(p, S)
<1>1. SameLog(l) /\ l.twice = log.twice /\ S \subseteq FiledIn(l)[p]
  BY LearnsFacts
<1> HIDE DEF l
<1> DEFINE m == Spreads(l, p, T)
<1>2. /\ SameLog(m) /\ m.twice = l.twice /\ T \subseteq FiledIn(m)[p]
      /\ FiledIn(l)[p] \subseteq FiledIn(m)[p]
  BY <1>1, SpreadsFacts
<1> HIDE DEF m
<1>3. SameLog(m) /\ m.twice = log.twice /\ S \cup T \subseteq FiledIn(m)[p]
  BY <1>1, <1>2
<1> QED BY <1>3 DEF l, m

-----------------------------------------------------------------------------
(* Handlers that begin to write, all of one kind.                          *)
SealedTask(k) == k \in TaskRecs /\ k.at = "seal" /\ k.does \in Writers /\ Carries(k)
(* k writes b for i: a record that is shown, or a new one.                 *)
Begins(k, i, b) ==
  /\ ~locked /\ SealedTask(k) /\ i \in Ids /\ b \in Bodies \cup {None}
  /\ Room(Writing(k, i, b))
  /\ \/ plain[i] # None /\ minted' = minted
     \/ i = minted + 1 /\ minted' = minted + 1 /\ b # None
  /\ k.does = "rotate" => plain[k.other] # None
  /\ UNCHANGED <<vault, disk, menu, never>>
  /\ form' \in {form, None} /\ drawn' \in 0 .. MaxPws /\ jobs' \in 0 .. MaxJobs
  /\ offer' = offer /\ SameLog(log')
(* Nothing the record held is dropped, and what is promised is in it.      *)
Grows(k, i, b) ==
  /\ b = None <=> k.does = "delete"
  /\ plain[i] # None /\ b # None => ValuesOf(plain[i]) \subseteq ValuesOf(b)
  /\ k.does \in {"generate", "save", "complete", "edit", "rotate"} => b.password = k.val
(* A body stands for sites its password has to do with.                    *)
Homely(b, h) == b # None => b.urls \subseteq h[b.password]
HomelyOffer(q, h) == q # None => {q.site} \cup q.urls \subseteq h[q.password]
ShownAtHome ==
  /\ \A i \in Ids : Homely(plain[i], FiledIn(log))
  /\ \A t \in Tabs : HomelyOffer(offer[t], FiledIn(log))
StaysNear(k, b, l) ==
  ShownAtHome =>
    /\ Homely(b, FiledIn(l))
    /\ k.does \in Fillers => k.site \in FiledIn(l)[k.val]
(* A half-made entry is one that was, or the first for its site.           *)
Generating(k, s) == k.does = "generate" /\ Sealing(k) /\ k.site = s
HalfMade(k, i, b, l) ==
  /\ b # None /\ b.provisional =>
       \/ /\ plain[i] # None /\ plain[i].provisional
          /\ b.urls = plain[i].urls \/ b.urls \subseteq l.twice
       \/ /\ k.does = "generate" /\ i = minted + 1
          /\ b.urls = {k.site} /\ Provisional(k.site) = {}
  /\ k.does = "generate" =>
       k.site \in l.twice \/ \A n \in DOMAIN tasks : ~Generating(tasks[n], k.site)
Write(k, i, b) ==
  Begins(k, i, b) /\ Grows(k, i, b) /\ StaysNear(k, b, log') /\ HalfMade(k, i, b, log')

LEMMA BusyFacts == ASSUME TypeInv, Busy PROVE jobs' \in 0 .. MaxJobs
  BY DEF TypeInv, TypeOK, Busy

LEMMA TypeParts ==
  ASSUME TypeInv
  PROVE  /\ env \in EnvMaps /\ disk \in EnvMaps /\ plain \in [Ids -> Bodies \cup {None}]
         /\ log \in Log /\ drawn \in 0 .. MaxPws /\ minted \in 0 .. MaxIds /\ jobs \in 0 .. MaxJobs
         /\ \A i \in Ids : (plain[i] # None => plain[i] \in Bodies /\ i <= minted)
         /\ \A i \in Ids : (env[i] # None => env[i] \in Envelopes /\ i <= minted)
         /\ SameLog(log)
<1>1. /\ env \in EnvMaps /\ disk \in EnvMaps /\ plain \in [Ids -> Bodies \cup {None}]
      /\ log \in Log /\ drawn \in 0 .. MaxPws /\ minted \in 0 .. MaxIds /\ jobs \in 0 .. MaxJobs
      /\ Upto(plain, minted) /\ Upto(env, minted)
  BY DEF TypeInv, TypeOK
<1> QED BY <1>1 DEF Upto, EnvMaps, SameLog

LEMMA BeginFacts ==
  ASSUME TypeInv, NEW k, NEW i, NEW b, Begin(k, i, b)
  PROVE  Room(Writing(k, i, b)) /\ minted' = minted /\ jobs' \in 0 .. MaxJobs
  BY BusyFacts DEF Begin, Started

LEMMA BeginNewFacts ==
  ASSUME TypeInv, NEW k, NEW b, BeginNew(k, b)
  PROVE  /\ Room(Writing(k, minted + 1, b)) /\ minted' = minted + 1 /\ minted + 1 \in Ids
         /\ jobs' \in 0 .. MaxJobs /\ plain[minted + 1] = None /\ env[minted + 1] = None
<1>1. Mint /\ Started(Writing(k, minted + 1, b))
  BY DEF BeginNew, Adding
<1>2. minted \in 0 .. MaxIds
  BY TypeParts
<1>3. minted + 1 \in Ids /\ minted' = minted + 1 /\ ~(minted + 1 <= minted)
  BY <1>1, <1>2 DEF Mint, Ids
<1>4. plain[minted + 1] = None /\ env[minted + 1] = None
  BY <1>3, TypeParts
<1> QED BY <1>1, <1>3, <1>4, BusyFacts DEF Started

LEMMA ChooseWrites ==
  ASSUME TypeInv, NEW t \in Tabs, NEW i \in Ids, Choose(t, i)
  PROVE  \E k : Write(k, i, plain[i])
<1> DEFINE m == menu[t]
           k == Filling("fill", plain[i].password, t, m.frame)
<1>1. /\ ~locked /\ m # None /\ i \in m.ids /\ plain[i] # None /\ CanFill(plain[i], m)
      /\ Room(Writing(k, i, plain[i]))
      /\ UNCHANGED <<vault, disk, page, count, log>>
  BY DEF Choose
<1>2. plain[i] \in Bodies /\ m \in Menus /\ m.frame \in Sites /\ plain[i].password \in Pws
  <2>1. plain[i] \in Bodies
    BY <1>1, TypeParts
  <2>2. m \in Menus
    BY <1>1 DEF TypeInv, TypeOK
  <2> QED BY <2>1, <2>2, BodyParts DEF Menus
<1>3. Given(k, "fill", t, plain[i].password, m.frame, None)
  BY <1>2, TaskIs DEF Handlers, Fillers
<1> HIDE DEF k
<1>4. SealedTask(k) /\ k.does = "fill" /\ k.val = plain[i].password /\ k.site = m.frame
  BY <1>2, <1>3 DEF Given, SealedTask, Carries, Writers, Handlers, Fillers
<1>5. Begins(k, i, plain[i])
  BY <1>1, <1>2, <1>4, TypeParts DEF Begins, page, count
<1>6. Grows(k, i, plain[i]) /\ HalfMade(k, i, plain[i], log')
  BY <1>1, <1>4 DEF Grows, HalfMade
<1>7. StaysNear(k, plain[i], log')
  <2>1. log' = log /\ m.frame \in plain[i].urls
    BY <1>1 DEF CanFill
  <2> QED BY <1>1, <1>4, <2>1 DEF StaysNear, ShownAtHome, Homely, Fillers
<1> QED BY <1>5, <1>6, <1>7 DEF Write

(* A message goes to a page, which will answer.                            *)
Sends(k) ==
  /\ ~locked /\ k \in TaskRecs /\ k.does = "send" /\ k.at = "page" /\ Carries(k)
  /\ k.seen = <<>> /\ k.new = <<>> /\ plain[k.other] # None
  /\ ShownAtHome => k.site \in FiledIn(log)[k.val]
  /\ Room(k) /\ UNCHANGED <<vault, disk, page, minted, drawn, log>> /\ jobs' \in 0 .. MaxJobs

LEMMA ChooseActiveSends ==
  ASSUME TypeInv, NEW t \in Tabs, NEW s \in Sites, NEW i \in Ids, ChooseActive(t, s, i)
  PROVE  \E k : Sends(k)
<1> DEFINE b == plain[i]
           f == Filling("send", b.password, t, s)
           k == [f EXCEPT !.at = "page", !.other = i]
<1>1. /\ ~locked /\ b # None /\ s \in b.urls /\ Started(k)
      /\ UNCHANGED <<vault, disk, page, minted, drawn, log>>
  BY DEF ChooseActive, CanFill
<1>2. b \in Bodies /\ b.password \in Pws
  BY <1>1, TypeParts, BodyParts
<1>3. Given(f, "send", t, b.password, s, None)
  BY <1>2, TaskIs DEF Handlers, Fillers
<1>4. f.seen = <<>> /\ f.new = <<>>
  BY DEF Filling, Task, Nothing
<1> HIDE DEF f
<1>5. /\ k \in TaskRecs /\ k.does = "send" /\ k.at = "page" /\ k.val = b.password
      /\ k.site = s /\ k.other = i /\ k.seen = <<>> /\ k.new = <<>>
  BY <1>3, <1>4 DEF Given, TaskRecs
<1> HIDE DEF k
<1>6. Carries(k)
  BY <1>2, <1>5 DEF Carries, Fillers
<1>7. ShownAtHome => k.site \in FiledIn(log)[k.val]
  BY <1>1, <1>5 DEF ShownAtHome, Homely
<1>8. Sends(k)
  BY <1>1, <1>5, <1>6, <1>7, BusyFacts DEF Sends, Started
<1> QED BY <1>8

LEMMA TwiceFacts ==
  ASSUME NEW l, SameLog(l), NEW T \in SUBSET Sites
  PROVE  LET m == [l EXCEPT !.twice = @ \cup T] IN
         SameLog(m) /\ FiledIn(m) = FiledIn(l) /\ m.twice = l.twice \cup T
<1> DEFINE u == l.twice \cup T
           m == [l EXCEPT !.twice = u]
<1>1. u \in SUBSET Sites /\ l \in Log
  BY LogParts DEF SameLog
<1>2. l.twice \subseteq u
  OBVIOUS
<1> HIDE DEF u
<1>3. /\ m \in Log /\ m.owed = l.owed /\ m.gone = l.gone /\ m.over = l.over
      /\ m.torn = l.torn /\ m.under = l.under /\ m.late = l.late
      /\ m.twice = u /\ m.home = l.home /\ m.given = l.given
  BY <1>1 DEF Log
<1> HIDE DEF m
<1>4. FiledIn(m) = FiledIn(l)
  BY <1>3 DEF FiledIn
<1>5. SameLog(m)
  BY <1>2, <1>3, <1>4 DEF SameLog
<1> QED BY <1>3, <1>4, <1>5 DEF m, u

LEMMA GenerateWrites ==
  ASSUME TypeInv, NEW t \in Tabs, NEW s \in Sites, Generate(t, s)
  PROVE  \E k, i, b : Write(k, i, b)
<1> DEFINE k == Filling("generate", NewPw, t, s)
           again == \E n \in DOMAIN tasks : Generating(tasks[n], s)
           g(i) == [Spreads(Learns(NewPw, {s}), NewPw, UrlsOf(i) \ {s})
                      EXCEPT !.twice = @ \cup (IF again THEN {s} ELSE {})]
<1>1. /\ ~locked /\ Draws(NewPw) /\ UNCHANGED <<vault, disk, page>>
      /\ \E i \in OneOf(Provisional(s)) :
           /\ \/ i # None /\ Begin(k, i, Patched(plain[i], NewPw))
              \/ i = None /\ BeginNew(k, Login(None, NewPw, {s}, TRUE))
           /\ log' = g(i)
  BY DEF Generate, Generating, OpenEntry
<1> PICK i \in OneOf(Provisional(s)) :
           /\ \/ i # None /\ Begin(k, i, Patched(plain[i], NewPw))
              \/ i = None /\ BeginNew(k, Login(None, NewPw, {s}, TRUE))
           /\ log' = g(i)
  BY <1>1
<1>2. NewPw \in Pws /\ drawn' \in 0 .. MaxPws
  BY <1>1, NewPwDrawn, DrawsFacts, TypeParts
<1>3. Given(k, "generate", t, NewPw, s, None)
  BY <1>2, TaskIs DEF Handlers, Fillers
<1> HIDE DEF k
<1>4. SealedTask(k) /\ k.does = "generate" /\ k.val = NewPw /\ k.site = s
  BY <1>2, <1>3 DEF Given, SealedTask, Carries, Writers, Handlers, Fillers
<1>5. CASE i = None => FALSE
  <2>1. /\ i \in Ids /\ plain[i] \in Bodies /\ plain[i].provisional
        /\ Begin(k, i, Patched(plain[i], NewPw)) /\ UrlsOf(i) = plain[i].urls
    <3>1. i # None /\ i \in Provisional(s)
      BY <1>5 DEF OneOf
    <3> QED BY <1>5, <3>1, TypeParts DEF Provisional, MatchesFor, Known, UrlsOf
  <2> DEFINE b == Patched(plain[i], NewPw)
  <2>2. /\ b \in Bodies /\ b.password = NewPw /\ b.urls = plain[i].urls /\ b # None
        /\ b.provisional = plain[i].provisional /\ ValuesOf(plain[i]) \subseteq ValuesOf(b)
    <3>1. plain[i] \in Bodies /\ NewPw \in Pws
      BY <1>2, <2>1
    <3> QED BY <3>1, PatchedFacts DEF IsPatch
  <2> HIDE DEF b
  <2> DEFINE more == plain[i].urls \ {s}
             l    == Spreads(Learns(NewPw, {s}), NewPw, more)
  <2>3. /\ SameLog(l) /\ l.twice = log.twice
        /\ {s} \cup plain[i].urls \subseteq FiledIn(l)[NewPw]
    <3>1. more \in SUBSET Sites /\ {s} \in SUBSET Sites /\ log \in Log /\ NewPw \in Pws
      BY <1>2, <2>1, BodyParts, TypeParts
    <3>2. {s} \cup plain[i].urls = {s} \cup more
      OBVIOUS
    <3> HIDE DEF more
    <3> QED BY ONLY <3>1, <3>2, FiledFacts DEF l
  <2> HIDE DEF l
  <2>4. log' = [l EXCEPT !.twice = @ \cup (IF again THEN {s} ELSE {})]
    BY <2>1 DEF l
  <2>5. /\ SameLog(log') /\ FiledIn(log') = FiledIn(l)
        /\ log'.twice = log.twice \cup (IF again THEN {s} ELSE {})
    <3> DEFINE T == IF again THEN {s} ELSE {}
    <3>1. T \in SUBSET Sites
      OBVIOUS
    <3>2. log' = [l EXCEPT !.twice = @ \cup T]
      BY <2>4
    <3> HIDE DEF T
    <3>3. SameLog(log') /\ FiledIn(log') = FiledIn(l) /\ log'.twice = l.twice \cup T
      BY ONLY <2>3, <3>1, <3>2, TwiceFacts
    <3> QED BY <2>3, <3>3 DEF T
  <2>6. Begins(k, i, b)
    BY <1>1, <1>2, <1>4, <2>1, <2>2, <2>5, BeginFacts DEF Begins, page, b
  <2>7. Grows(k, i, b) /\ HalfMade(k, i, b, log')
    BY <1>4, <2>1, <2>2, <2>5 DEF Grows, HalfMade
  <2>8. StaysNear(k, b, log')
    BY <1>4, <2>2, <2>3, <2>5 DEF StaysNear, Homely, Fillers
  <2>9. Write(k, i, b)
    BY <2>6, <2>7, <2>8 DEF Write
  <2> QED BY <2>9
<1>6. CASE i = None
  <2>1. BeginNew(k, Login(None, NewPw, {s}, TRUE)) /\ UrlsOf(i) = {}
    BY <1>6 DEF UrlsOf
  <2> DEFINE b == Login(None, NewPw, {s}, TRUE)
             j == minted + 1
  <2>2. b \in Bodies /\ b.password = NewPw /\ b.urls = {s} /\ b.provisional = TRUE /\ b # None
    <3>1. None \in Names /\ NewPw \in Pws /\ {s} \in SUBSET Sites
      BY <1>2 DEF Names
    <3>2. IsLogin(b, NewPw, {s}, TRUE)
      BY ONLY <3>1, LoginFacts
    <3> QED BY <3>2 DEF IsLogin
  <2>3. Room(Writing(k, j, b)) /\ minted' = j /\ j \in Ids /\ jobs' \in 0 .. MaxJobs /\ plain[j] = None
    BY <2>1, BeginNewFacts
  <2> HIDE DEF b, j
  <2> DEFINE l == Spreads(Learns(NewPw, {s}), NewPw, {} \ {s})
  <2>4. SameLog(l) /\ l.twice = log.twice /\ s \in FiledIn(l)[NewPw]
    <3>1. {s} \in SUBSET Sites /\ {} \ {s} \in SUBSET Sites
      OBVIOUS
    <3>2. {s} \cup ({} \ {s}) \subseteq FiledIn(l)[NewPw] /\ SameLog(l) /\ l.twice = log.twice
      BY <1>2, <3>1, FiledFacts, TypeParts
    <3> QED BY <3>2
  <2> HIDE DEF l
  <2>5. log' = [l EXCEPT !.twice = @ \cup (IF again THEN {s} ELSE {})]
    BY <2>1 DEF l
  <2>6. /\ SameLog(log') /\ FiledIn(log') = FiledIn(l)
        /\ log'.twice = log.twice \cup (IF again THEN {s} ELSE {})
    <3> DEFINE T == IF again THEN {s} ELSE {}
    <3>1. T \in SUBSET Sites
      OBVIOUS
    <3>2. log' = [l EXCEPT !.twice = @ \cup T]
      BY <2>5
    <3> HIDE DEF T
    <3>3. SameLog(log') /\ FiledIn(log') = FiledIn(l) /\ log'.twice = l.twice \cup T
      BY ONLY <2>4, <3>1, <3>2, TwiceFacts
    <3> QED BY <2>4, <3>3 DEF T
  <2>7. Provisional(s) = {}
    BY <1>6, TypeParts DEF OneOf, Provisional, MatchesFor, Known, Ids
  <2>8. Begins(k, j, b)
    BY <1>1, <1>2, <1>4, <2>2, <2>3, <2>6 DEF Begins, page, j
  <2>9. Grows(k, j, b) /\ HalfMade(k, j, b, log')
    BY <1>4, <2>2, <2>3, <2>6, <2>7 DEF Grows, HalfMade, j
  <2>10. StaysNear(k, b, log')
    BY <1>4, <2>2, <2>4, <2>6 DEF StaysNear, Homely, Fillers
  <2>11. Write(k, j, b)
    BY <2>8, <2>9, <2>10 DEF Write
  <2> QED BY <2>11
<1> QED BY <1>5, <1>6

(* What a submitted form of our own password begins.                       *)
LEMMA FinishWrites ==
  ASSUME TypeInv, NEW t \in Tabs, NEW s \in Sites, NEW u \in Names, NEW p \in Pws,
         NEW c \in OneOf(Candidates(s, u)), NEW v, v \in Ids, plain[v] # None,
         plain[v].password = p, plain[v].provisional,
         ~locked, Draws(p), Finish(t, Overwritable(c, s), v, u, p),
         UNCHANGED <<vault, disk, page>>, log' = Spreads(Learns(p, {s}), p, {})
  PROVE  \E k, i, b : Write(k, i, b)
<1> DEFINE o == Overwritable(c, s)
<1>1. drawn' \in 0 .. MaxPws
  BY DrawsFacts, TypeParts
<1>2. plain[v] \in Bodies
  BY TypeParts
<1>3. SameLog(log') /\ s \in FiledIn(log')[p] /\ log'.twice = log.twice
  <2>1. {s} \in SUBSET Sites /\ {} \in SUBSET Sites
    OBVIOUS
  <2> QED BY <2>1, FiledFacts, TypeParts
<1>4. CASE o \notin {None, v}
  <2>1. o \in Ids /\ plain[o] \in Bodies /\ plain[o].urls \subseteq {s}
    <3>1. c # None /\ o = c /\ BelongsOnlyTo(c, s) /\ c \in Candidates(s, u)
      BY <1>4 DEF Overwritable, OneOf
    <3> QED BY <3>1, TypeParts DEF Candidates, MatchesFor, Known, BelongsOnlyTo
  <2> DEFINE k == [Task("rotate", p) EXCEPT !.tab = t, !.other = v]
             b == Patched(plain[o], p)
  <2>2. Given(k, "rotate", t, p, None, v)
    BY TaskIs DEF Handlers, Fillers
  <2>3. IsPatch(b, plain[o], p)
    BY <2>1, PatchedFacts
  <2>4. Begin(k, o, b)
    BY <1>4 DEF Finish
  <2> HIDE DEF k, b, o
  <2>5. SealedTask(k) /\ k.does = "rotate" /\ k.val = p /\ k.other = v
    BY <2>2 DEF Given, SealedTask, Carries, Writers, Handlers, Fillers
  <2>6. Begins(k, o, b)
    BY <1>1, <1>3, <2>1, <2>3, <2>4, <2>5, BeginFacts DEF Begins, page, IsPatch
  <2>7. Grows(k, o, b) /\ HalfMade(k, o, b, log')
    BY <2>1, <2>3, <2>5 DEF Grows, HalfMade, IsPatch
  <2>8. StaysNear(k, b, log')
    BY <1>3, <2>1, <2>3, <2>5 DEF StaysNear, Homely, IsPatch, Fillers
  <2>9. Write(k, o, b)
    BY <2>6, <2>7, <2>8 DEF Write
  <2> QED BY <2>9
<1>5. CASE ~(o \notin {None, v})
  <2> DEFINE k == [Task("complete", p) EXCEPT !.tab = t]
             n == IF u = None THEN plain[v].username ELSE u
             b == [plain[v] EXCEPT !.username = n, !.provisional = FALSE]
  <2>1. Begin(k, v, b)
    BY <1>5 DEF Finish
  <2>2. Given(k, "complete", t, p, None, None)
    BY TaskIs DEF Handlers, Fillers
  <2>3. n \in Names
    BY <1>2, BodyParts
  <2> HIDE DEF k, n, o
  <2>4. /\ b \in Bodies /\ b.password = p /\ b.history = plain[v].history
        /\ b.urls = plain[v].urls /\ b.provisional = FALSE
    BY <1>2, <2>3 DEF Bodies
  <2> HIDE DEF b
  <2>5. b # None /\ ValuesOf(b) = {p} \cup plain[v].history /\ ValuesOf(plain[v]) = {p} \cup plain[v].history
    BY <1>2, <2>4, BodyParts
  <2>6. SealedTask(k) /\ k.does = "complete" /\ k.val = p
    BY <2>2 DEF Given, SealedTask, Carries, Writers, Handlers, Fillers
  <2>7. Begins(k, v, b)
    BY <1>1, <1>3, <2>1, <2>4, <2>6, BeginFacts DEF Begins, page
  <2>8. Grows(k, v, b) /\ HalfMade(k, v, b, log')
    BY <2>4, <2>5, <2>6 DEF Grows, HalfMade
  <2>9. StaysNear(k, b, log')
    BY <1>2, <1>3, <2>4, <2>6 DEF StaysNear, Homely, ShownAtHome, Fillers, SameLog
  <2>10. Write(k, v, b)
    BY <2>7, <2>8, <2>9 DEF Write
  <2> QED BY <2>10
<1> QED BY <1>4, <1>5

LEMMA SaveWrites ==
  ASSUME TypeInv, NEW t \in Tabs, Save(t)
  PROVE  \E k, i, b : Write(k, i, b)
<1> DEFINE q == offer[t]
           k == [Task("save", q.password) EXCEPT !.tab = t]
           there == q.existing # None /\ plain[q.existing] # None
           old == plain[q.existing]
           user == IF old.provisional /\ q.username # None THEN q.username ELSE old.username
<1>1. /\ ~locked /\ q # None /\ UNCHANGED <<vault, disk, page, drawn>>
      /\ \/ /\ there
            /\ Begin(k, q.existing, [Patched(old, q.password) EXCEPT
                       !.username = user, !.provisional = FALSE])
            /\ log' = Spreads(log, q.password, old.urls \ q.urls)
         \/ /\ ~there /\ UNCHANGED log
            /\ BeginNew(k, Login(q.username, q.password, {q.site}, FALSE))
  BY DEF Save
<1>2. q \in Offers
  BY <1>1 DEF TypeInv, TypeOK
<1>3. /\ q.site \in Sites /\ q.username \in Names /\ q.password \in Pws
      /\ q.existing \in Ids \cup {None} /\ q.urls \in SUBSET Sites
  BY <1>2 DEF Offers
<1>4. Given(k, "save", t, q.password, None, None)
  BY <1>3, TaskIs DEF Handlers, Fillers
<1> HIDE DEF k
<1>5. SealedTask(k) /\ k.does = "save" /\ k.val = q.password
  BY <1>3, <1>4 DEF Given, SealedTask, Carries, Writers, Handlers, Fillers
<1>6. ShownAtHome => {q.site} \cup q.urls \subseteq FiledIn(log)[q.password]
  BY <1>1 DEF ShownAtHome, HomelyOffer
<1>7. CASE there
  <2>1. /\ Begin(k, q.existing, [Patched(old, q.password) EXCEPT
                                   !.username = user, !.provisional = FALSE])
        /\ log' = Spreads(log, q.password, old.urls \ q.urls)
    BY <1>1, <1>7
  <2>2. q.existing \in Ids /\ old \in Bodies /\ old # None
    BY <1>3, <1>7, TypeParts
  <2>3. user \in Names /\ old.urls \in SUBSET Sites
    BY <1>3, <2>2, BodyParts
  <2> DEFINE c == Patched(old, q.password)
             b == [c EXCEPT !.username = user, !.provisional = FALSE]
  <2>4. IsPatch(c, old, q.password)
    BY <1>3, <2>2, PatchedFacts
  <2>5. Begin(k, q.existing, b)
    BY <2>1
  <2> HIDE DEF c, user, old, q
  <2>6. /\ b \in Bodies /\ b.password = q.password /\ b.history = c.history
        /\ b.urls = old.urls /\ b.provisional = FALSE
    BY <2>3, <2>4 DEF Bodies, IsPatch
  <2> HIDE DEF b
  <2>7. b # None /\ ValuesOf(b) = ValuesOf(c)
    BY <2>4, <2>6, BodyParts DEF IsPatch
  <2>8. /\ SameLog(log') /\ log'.twice = log.twice
        /\ old.urls \ q.urls \subseteq FiledIn(log')[q.password]
    <3> DEFINE T == old.urls \ q.urls
    <3>1. T \in SUBSET Sites /\ SameLog(log) /\ q.password \in Pws
      BY <1>3, <2>3, TypeParts
    <3>2. log' = Spreads(log, q.password, T)
      BY <2>1
    <3> HIDE DEF T
    <3>3. SameLog(log') /\ log'.twice = log.twice /\ T \subseteq FiledIn(log')[q.password]
      BY ONLY <3>1, <3>2, SpreadsFacts
    <3> QED BY <3>3 DEF T
  <2>9. old = plain[q.existing]
    BY DEF old
  <2>10. Begins(k, q.existing, b)
    BY <1>1, <1>5, <2>2, <2>5, <2>6, <2>8, <2>9, BeginFacts, TypeParts DEF Begins, page
  <2>11. Grows(k, q.existing, b) /\ HalfMade(k, q.existing, b, log')
    BY <1>5, <2>4, <2>6, <2>7, <2>9 DEF Grows, HalfMade, IsPatch
  <2>12. StaysNear(k, b, log')
    BY <1>3, <1>5, <1>6, <2>6, <2>8 DEF StaysNear, Homely, SameLog, Fillers
  <2>13. Write(k, q.existing, b)
    BY <2>10, <2>11, <2>12 DEF Write
  <2> QED BY <2>13
<1>8. CASE ~there
  <2> DEFINE j == minted + 1
             b == Login(q.username, q.password, {q.site}, FALSE)
  <2>1. log' = log /\ BeginNew(k, b)
    BY <1>1, <1>8
  <2>2. {q.site} \in SUBSET Sites
    BY <1>3
  <2>3. IsLogin(b, q.password, {q.site}, FALSE)
    BY ONLY <1>3, <2>2, LoginFacts
  <2> HIDE DEF b, there, q
  <2>4. Room(Writing(k, j, b)) /\ minted' = j /\ j \in Ids /\ jobs' \in 0 .. MaxJobs /\ plain[j] = None
    BY <2>1, BeginNewFacts
  <2> HIDE DEF j
  <2>5. Begins(k, j, b)
    BY <1>1, <1>5, <2>1, <2>3, <2>4, TypeParts DEF Begins, page, IsLogin, j
  <2>6. Grows(k, j, b) /\ HalfMade(k, j, b, log')
    BY <1>5, <2>3, <2>4 DEF Grows, HalfMade, IsLogin
  <2>7. StaysNear(k, b, log')
    BY <1>5, <1>6, <2>1, <2>3 DEF StaysNear, Homely, IsLogin, Fillers
  <2>8. Write(k, j, b)
    BY <2>5, <2>6, <2>7 DEF Write
  <2> QED BY <2>8
<1> QED BY <1>7, <1>8

(* A submitted form that is offered, declined or known already.            *)
Offered ==
  /\ UNCHANGED <<vault, disk, tasks, menu, never, form, minted>> /\ ~locked
  /\ drawn' \in 0 .. MaxPws /\ jobs' \in 0 .. MaxJobs
  /\ offer' \in [Tabs -> Offers \cup {None}]
  /\ SameLog(log') /\ log'.twice = log.twice
  /\ ShownAtHome => \A t \in Tabs : HomelyOffer(offer'[t], FiledIn(log'))

LEMMA SubmitOffers ==
  ASSUME TypeInv, NEW t \in Tabs, NEW s \in Sites, NEW u \in Names, NEW p \in Pws,
         NEW c \in OneOf(Candidates(s, u)), NEW v \in OneOf(Provisional(s)),
         ~locked, Draws(p), Busy,
         LET o == Overwritable(c, s) IN
           /\ Offer(t, s, c, o, v, u, p)
           /\ log' = Spreads(Learns(p, {s}), p, IF o # None THEN {} ELSE UrlsOf(v) \ {s}),
         UNCHANGED <<vault, disk, tasks, menu, never, form, minted>>
  PROVE  Offered
<1> DEFINE o == Overwritable(c, s)
           e == IF o # None THEN o ELSE v
           S == IF o # None THEN {} ELSE UrlsOf(v) \ {s}
           q == [site |-> s, username |-> u, password |-> p,
                 existing |-> e, urls |-> UrlsOf(e)]
           w == IF AlreadyKnown(c, s, u, p) THEN None ELSE q
<1>1. drawn' \in 0 .. MaxPws /\ jobs' \in 0 .. MaxJobs
  BY DrawsFacts, BusyFacts, TypeParts
<1>2. o # None => o \in Ids /\ plain[o] \in Bodies /\ plain[o].urls \subseteq {s}
  <2>1. CASE o # None
    <3>1. c # None /\ o = c /\ BelongsOnlyTo(c, s) /\ c \in Candidates(s, u)
      BY <2>1 DEF Overwritable, OneOf
    <3> QED BY <3>1, TypeParts DEF Candidates, MatchesFor, Known, BelongsOnlyTo
  <2> QED BY <2>1
<1>3. v # None => v \in Ids /\ plain[v] \in Bodies
  BY TypeParts DEF OneOf, Provisional, MatchesFor, Known
<1>4. /\ offer' = IF s \in never THEN offer ELSE [offer EXCEPT ![t] = w]
      /\ log' = Spreads(Learns(p, {s}), p, S)
  BY DEF Offer
<1> HIDE DEF o
<1>5. /\ e \in Ids \cup {None} /\ UrlsOf(e) \in SUBSET Sites
      /\ UrlsOf(e) \subseteq {s} \cup S /\ S \in SUBSET Sites
  BY <1>2, <1>3, BodyParts DEF UrlsOf
<1> HIDE DEF e, S
<1>6. q \in Offers /\ q.site = s /\ q.urls = UrlsOf(e) /\ q.password = p
  BY <1>5 DEF Offers
<1> HIDE DEF q
<1>7. w = None \/ w = q
  OBVIOUS
<1> HIDE DEF w
<1>8. SameLog(log') /\ log'.twice = log.twice /\ {s} \cup S \subseteq FiledIn(log')[p]
  <2>1. /\ log \in Log /\ S \in SUBSET Sites /\ {s} \in SUBSET Sites
        /\ log' = Spreads(Learns(p, {s}), p, S)
    BY <1>4, <1>5, TypeParts
  <2> QED BY ONLY <2>1, p \in Pws, FiledFacts
<1>9. offer \in [Tabs -> Offers \cup {None}]
  BY DEF TypeInv, TypeOK
<1>10. offer' \in [Tabs -> Offers \cup {None}] /\ \A r \in Tabs : offer'[r] = offer[r] \/ offer'[r] = w
  BY <1>4, <1>6, <1>7, <1>9
<1>11. HomelyOffer(w, FiledIn(log'))
  BY <1>5, <1>6, <1>7, <1>8 DEF HomelyOffer
<1>12. ASSUME ShownAtHome, NEW r \in Tabs PROVE HomelyOffer(offer'[r], FiledIn(log'))
  <2>1. HomelyOffer(offer[r], FiledIn(log))
    BY <1>12 DEF ShownAtHome
  <2>2. offer[r] = None \/ offer[r].password \in Pws
    BY <1>9 DEF Offers
  <2>3. HomelyOffer(offer[r], FiledIn(log'))
    BY <1>8, <2>1, <2>2 DEF HomelyOffer, SameLog
  <2> QED BY <1>10, <1>11, <2>3
<1> QED BY <1>1, <1>8, <1>10, <1>12 DEF Offered

LEMMA SubmitStep ==
  ASSUME TypeInv, NEW t \in Tabs, NEW s \in Sites, NEW u \in Names, NEW p \in Pws,
         Submit(t, s, u, p)
  PROVE  Offered \/ \E k, i, b : Write(k, i, b)
<1>1. /\ ~locked /\ Draws(p) /\ UNCHANGED <<vault, disk, menu, never, form>>
      /\ \E c \in OneOf(Candidates(s, u)), v \in OneOf(Provisional(s)) :
         LET o == Overwritable(c, s)
             done == v # None /\ plain[v].password = p
         IN  /\ log' = Spreads(Learns(p, {s}), p, IF done \/ o # None THEN {} ELSE UrlsOf(v) \ {s})
             /\ \/ done  /\ Finish(t, o, v, u, p) /\ UNCHANGED offer
                \/ ~done /\ Offer(t, s, c, o, v, u, p) /\ Busy /\ UNCHANGED <<tasks, minted>>
  BY DEF Submit
<1> PICK c \in OneOf(Candidates(s, u)), v \in OneOf(Provisional(s)) :
         LET o == Overwritable(c, s)
             done == v # None /\ plain[v].password = p
         IN  /\ log' = Spreads(Learns(p, {s}), p, IF done \/ o # None THEN {} ELSE UrlsOf(v) \ {s})
             /\ \/ done  /\ Finish(t, o, v, u, p) /\ UNCHANGED offer
                \/ ~done /\ Offer(t, s, c, o, v, u, p) /\ Busy /\ UNCHANGED <<tasks, minted>>
  BY <1>1
<1> DEFINE o == Overwritable(c, s)
           done == v # None /\ plain[v].password = p
<1>2. CASE done
  <2>1. Finish(t, o, v, u, p) /\ UNCHANGED offer /\ log' = Spreads(Learns(p, {s}), p, {})
    BY <1>2
  <2>4. v \in Ids /\ plain[v] # None /\ plain[v].password = p /\ plain[v].provisional
    BY <1>2 DEF OneOf, Provisional, MatchesFor, Known
  <2>5. UNCHANGED <<vault, disk, page>>
    BY <1>1, <2>1 DEF page
  <2> QED BY <1>1, <2>1, <2>4, <2>5, FinishWrites
<1>3. CASE ~done
  <2>1. /\ Offer(t, s, c, o, v, u, p) /\ Busy /\ UNCHANGED <<tasks, minted>>
        /\ log' = Spreads(Learns(p, {s}), p, IF o # None THEN {} ELSE UrlsOf(v) \ {s})
    BY <1>3
  <2> QED BY <1>1, <2>1, SubmitOffers
<1> QED BY <1>2, <1>3

LEMMA EditWrites ==
  ASSUME TypeInv, NEW p \in Pws, NEW urls \in SUBSET Sites, SaveForm(p, urls)
  PROVE  \E k, i, b : Write(k, i, b)
<1> DEFINE old == plain[form.id]
           k == Task("edit", p)
           c == Patched(old, p)
           b == [c EXCEPT !.username = form.body.username, !.urls = urls]
           h == [q \in Pws |-> IF q \in ValuesOf(old) \cup {p} THEN log.home[q] \cup urls ELSE log.home[q]]
           T == log.twice \cup IF old.provisional /\ urls # old.urls THEN urls ELSE {}
<1>1. /\ ~locked /\ form # None /\ old # None /\ Draws(p) /\ Begin(k, form.id, b)
      /\ log' = [log EXCEPT !.home = h, !.twice = T]
      /\ form' = None /\ UNCHANGED <<vault, disk, menu, offer, never>>
  BY DEF SaveForm
<1>2. form.id \in Ids /\ form.body \in Bodies
  BY <1>1 DEF TypeInv, TypeOK, Forms
<1>3. old \in Bodies /\ form.body.username \in Names
  BY <1>1, <1>2, TypeParts, BodyParts
<1>4. IsPatch(c, old, p)
  BY <1>3, PatchedFacts
<1>5. Given(k, "edit", None, p, None, None)
  BY TaskIs DEF Handlers, Fillers
<1> HIDE DEF c, k
<1>6. /\ b \in Bodies /\ b.password = p /\ b.history = c.history
      /\ b.urls = urls /\ b.provisional = c.provisional
  BY <1>3, <1>4 DEF Bodies, IsPatch
<1> HIDE DEF b
<1>7. b # None /\ ValuesOf(b) = ValuesOf(c)
  BY <1>4, <1>6, BodyParts DEF IsPatch
<1>8. SealedTask(k) /\ k.does = "edit" /\ k.val = p
  BY <1>5 DEF Given, SealedTask, Carries, Writers, Handlers, Fillers
<1>9. /\ log.home \in [Pws -> SUBSET Sites] /\ log.twice \in SUBSET Sites /\ log \in Log
  BY TypeParts, LogParts
<1>10. /\ h \in [Pws -> SUBSET Sites] /\ \A q \in Pws : log.home[q] \subseteq h[q]
       /\ urls \subseteq h[p]
  BY <1>9
<1>11. T \in SUBSET Sites /\ log.twice \subseteq T
  BY <1>9
<1>12. old.provisional /\ urls # old.urls => urls \subseteq T
  OBVIOUS
<1> HIDE DEF h, T
<1>13. /\ log' \in Log /\ log'.owed = log.owed /\ log'.gone = log.gone /\ log'.over = log.over
       /\ log'.torn = log.torn /\ log'.under = log.under /\ log'.late = log.late
       /\ log'.twice = T /\ log'.home = h /\ log'.given = log.given
  BY <1>1, <1>9, <1>10, <1>11 DEF Log
<1>14. SameLog(log') /\ urls \subseteq FiledIn(log')[p]
  BY <1>10, <1>11, <1>13 DEF SameLog, FiledIn
<1>15. old = plain[form.id]
  BY DEF old
<1> HIDE DEF old
<1>16. Begins(k, form.id, b)
  BY <1>1, <1>2, <1>6, <1>8, <1>14, <1>15, BeginFacts, DrawsFacts, TypeParts DEF Begins
<1>17. Grows(k, form.id, b)
  BY <1>4, <1>7, <1>6, <1>8, <1>15 DEF Grows, IsPatch
<1>18. HalfMade(k, form.id, b, log')
  BY <1>1, <1>4, <1>6, <1>8, <1>12, <1>13, <1>15 DEF HalfMade, IsPatch
<1>19. StaysNear(k, b, log')
  BY <1>6, <1>8, <1>14 DEF StaysNear, Homely, Fillers
<1>20. Write(k, form.id, b)
  BY <1>16, <1>17, <1>18, <1>19 DEF Write
<1> QED BY <1>20

LEMMA AddWrites ==
  ASSUME TypeInv, NEW u \in Names, NEW urls \in SUBSET Sites, AddEntry(u, urls)
  PROVE  \E k, i, b : Write(k, i, b)
<1> DEFINE k == Task("edit", NewPw)
           b == Login(u, NewPw, urls, FALSE)
           j == minted + 1
<1>1. /\ ~locked /\ Draws(NewPw) /\ BeginNew(k, b) /\ log' = Learns(NewPw, urls)
      /\ UNCHANGED <<vault, disk, page>>
  BY DEF AddEntry
<1>2. NewPw \in Pws /\ drawn' \in 0 .. MaxPws
  BY <1>1, NewPwDrawn, DrawsFacts, TypeParts
<1>3. Given(k, "edit", None, NewPw, None, None)
  BY <1>2, TaskIs DEF Handlers, Fillers
<1>4. IsLogin(b, NewPw, urls, FALSE)
  BY ONLY <1>2, u \in Names, urls \in SUBSET Sites, LoginFacts
<1>5. SameLog(log') /\ urls \subseteq FiledIn(log')[NewPw] /\ log'.twice = log.twice
  <2>1. log \in Log
    BY TypeParts
  <2> QED BY ONLY <1>1, <1>2, <2>1, urls \in SUBSET Sites, LearnsFacts
<1> HIDE DEF k, b
<1>6. Room(Writing(k, j, b)) /\ minted' = j /\ j \in Ids /\ jobs' \in 0 .. MaxJobs /\ plain[j] = None
  BY <1>1, BeginNewFacts
<1>7. SealedTask(k) /\ k.does = "edit" /\ k.val = NewPw
  BY <1>2, <1>3 DEF Given, SealedTask, Carries, Writers, Handlers, Fillers
<1> HIDE DEF j
<1>8. Begins(k, j, b)
  BY <1>1, <1>2, <1>4, <1>5, <1>6, <1>7 DEF Begins, page, IsLogin, j
<1>9. Grows(k, j, b) /\ HalfMade(k, j, b, log')
  BY <1>4, <1>6, <1>7 DEF Grows, HalfMade, IsLogin
<1>10. StaysNear(k, b, log')
  BY <1>4, <1>5, <1>7 DEF StaysNear, Homely, IsLogin, Fillers
<1>11. Write(k, j, b)
  BY <1>8, <1>9, <1>10 DEF Write
<1> QED BY <1>11

LEMMA DeleteWrites ==
  ASSUME TypeInv, NEW i \in Ids, Delete(i)
  PROVE  \E k : Write(k, i, None)
<1> DEFINE k == Task("delete", None)
<1>1. /\ ~locked /\ plain[i] # None /\ Begin(k, i, None)
      /\ UNCHANGED <<vault, disk, page, drawn, log>>
  BY DEF Delete
<1>2. Given(k, "delete", None, None, None, None)
  BY TaskIs DEF Handlers, Fillers
<1> HIDE DEF k
<1>3. SealedTask(k) /\ k.does = "delete"
  BY <1>2 DEF Given, SealedTask, Carries, Writers, Handlers, Fillers
<1>4. Begins(k, i, None)
  BY <1>1, <1>3, BeginFacts, TypeParts DEF Begins, page
<1>5. Grows(k, i, None) /\ HalfMade(k, i, None, log')
  BY <1>3 DEF Grows, HalfMade
<1>6. StaysNear(k, None, log')
  BY <1>1, <1>3 DEF StaysNear, Homely, Fillers
<1>7. Write(k, i, None)
  BY <1>4, <1>5, <1>6 DEF Write
<1> QED BY <1>7

LEMMA ImportWrites ==
  ASSUME TypeInv, NEW u \in Names, NEW p \in Pws, NEW s \in Sites, NEW newer \in BOOLEAN,
         Import(u, p, s, newer)
  PROVE  \E k, i, b : Write(k, i, b)
<1> DEFINE k == Task("edit", p)
<1>1. /\ ~locked /\ Draws(p) /\ log' = Learns(p, {s}) /\ UNCHANGED <<vault, disk, page>>
      /\ \E c \in OneOf(Candidates(s, u)) :
           \/ /\ Overwritable(c, s) # None
              /\ Begin(k, c, Patched(plain[c], p))
           \/ BeginNew(k, Login(u, p, {s}, FALSE))
  BY DEF Import
<1>2. drawn' \in 0 .. MaxPws
  BY <1>1, DrawsFacts, TypeParts
<1>3. Given(k, "edit", None, p, None, None)
  BY TaskIs DEF Handlers, Fillers
<1>4. SameLog(log') /\ s \in FiledIn(log')[p] /\ log'.twice = log.twice
  <2>1. {s} \in SUBSET Sites
    OBVIOUS
  <2> QED BY <1>1, <2>1, LearnsFacts, TypeParts
<1> HIDE DEF k
<1>5. SealedTask(k) /\ k.does = "edit" /\ k.val = p
  BY <1>3 DEF Given, SealedTask, Carries, Writers, Handlers, Fillers
<1>6. ASSUME NEW c \in OneOf(Candidates(s, u)), Overwritable(c, s) # None,
             Begin(k, c, Patched(plain[c], p))
      PROVE  \E i, b : Write(k, i, b)
  <2>1. c \in Ids /\ plain[c] \in Bodies /\ plain[c].urls \subseteq {s}
    <3>1. c # None /\ BelongsOnlyTo(c, s) /\ c \in Candidates(s, u)
      BY <1>6 DEF Overwritable, OneOf
    <3> QED BY <3>1, TypeParts DEF Candidates, MatchesFor, Known, BelongsOnlyTo
  <2> DEFINE b == Patched(plain[c], p)
  <2>2. IsPatch(b, plain[c], p)
    BY <2>1, PatchedFacts
  <2>3. Begin(k, c, b)
    BY <1>6
  <2> HIDE DEF b
  <2>4. Begins(k, c, b)
    BY <1>1, <1>2, <1>4, <1>5, <2>1, <2>2, <2>3, BeginFacts DEF Begins, page, IsPatch
  <2>5. Grows(k, c, b) /\ HalfMade(k, c, b, log')
    BY <1>5, <2>1, <2>2 DEF Grows, HalfMade, IsPatch
  <2>6. StaysNear(k, b, log')
    BY <1>4, <1>5, <2>1, <2>2 DEF StaysNear, Homely, IsPatch, Fillers
  <2>7. Write(k, c, b)
    BY <2>4, <2>5, <2>6 DEF Write
  <2> QED BY <2>7
<1>7. ASSUME BeginNew(k, Login(u, p, {s}, FALSE))
      PROVE  \E i, b : Write(k, i, b)
  <2> DEFINE b == Login(u, p, {s}, FALSE)
             j == minted + 1
  <2>1. IsLogin(b, p, {s}, FALSE)
    <3>1. {s} \in SUBSET Sites
      OBVIOUS
    <3> QED BY ONLY <3>1, u \in Names, p \in Pws, LoginFacts
  <2> HIDE DEF b
  <2>2. Room(Writing(k, j, b)) /\ minted' = j /\ j \in Ids /\ jobs' \in 0 .. MaxJobs /\ plain[j] = None
    BY <1>7, BeginNewFacts DEF b
  <2> HIDE DEF j
  <2>3. Begins(k, j, b)
    BY <1>1, <1>2, <1>4, <1>5, <2>1, <2>2 DEF Begins, page, IsLogin, j
  <2>4. Grows(k, j, b) /\ HalfMade(k, j, b, log')
    BY <1>5, <2>1, <2>2 DEF Grows, HalfMade, IsLogin
  <2>5. StaysNear(k, b, log')
    BY <1>4, <1>5, <2>1 DEF StaysNear, Homely, IsLogin, Fillers
  <2>6. Write(k, j, b)
    BY <2>3, <2>4, <2>5 DEF Write
  <2> QED BY <2>6
<1> QED BY <1>1, <1>6, <1>7

-----------------------------------------------------------------------------
(* The other steps, each by what it does.                                  *)

(* Menus, offers and the editor come and go.                               *)
Looks ==
  /\ UNCHANGED <<vault, disk, tasks, minted, drawn, log>>
  /\ menu' \in [Tabs -> Menus \cup {None}] /\ never' \in SUBSET Sites
  /\ offer' \in [Tabs -> Offers \cup {None}]
  /\ form' = None \/ form' \in Forms
  /\ jobs' \in 0 .. MaxJobs
  /\ \A t \in Tabs : offer'[t] = offer[t] \/ offer'[t] = None
  /\ locked => \A t \in Tabs : menu'[t] = menu[t] \/ menu'[t] = None

LEMMA LookParts ==
  ASSUME TypeInv
  PROVE  /\ menu \in [Tabs -> Menus \cup {None}] /\ offer \in [Tabs -> Offers \cup {None}]
         /\ never \in SUBSET Sites /\ (form = None \/ form \in Forms) /\ jobs \in 0 .. MaxJobs
  BY DEF TypeInv, TypeOK

LEMMA StutterLooks == ASSUME TypeInv, UNCHANGED vars PROVE Looks
  BY LookParts DEF vars, vault, Looks

LEMMA TabLooks ==
  ASSUME TypeInv, NEW t \in Tabs, CloseMenu(t) \/ Discard(t) \/ Never(t)
  PROVE  Looks
<1>2. CASE CloseMenu(t)
  BY <1>2, LookParts DEF CloseMenu, Looks, vault, count
<1>3. CASE Discard(t)
  BY <1>3, LookParts DEF Discard, Looks, vault, count
<1>4. CASE Never(t)
  <2>1. offer[t] # None /\ offer[t] \in Offers
    BY <1>4, LookParts DEF Never
  <2>2. offer[t].site \in Sites
    BY <2>1 DEF Offers
  <2> QED BY <1>4, <2>2, LookParts DEF Never, Looks, vault, count
<1> QED BY <1>2, <1>3, <1>4

(* The tab that handlers wait to fill holds another document, or is gone.  *)
Alike(q, k) ==
  /\ q \in TaskRecs /\ q.does = k.does /\ q.at = k.at /\ q.tab = k.tab /\ q.val = k.val
  /\ q.site = k.site /\ q.other = k.other /\ q.seen = k.seen /\ q.new = k.new
  /\ k.there = None => q.there = None
Leads ==
  /\ tasks' \in Seq(TaskRecs) /\ Len(tasks') = Len(tasks) /\ DOMAIN tasks' = DOMAIN tasks
  /\ \A n \in DOMAIN tasks : Alike(tasks'[n], tasks[n])
  /\ menu' \in [Tabs -> Menus \cup {None}] /\ offer' \in [Tabs -> Offers \cup {None}]
  /\ \A t \in Tabs : /\ menu'[t] = menu[t] \/ menu'[t] = None
                     /\ offer'[t] = offer[t] \/ offer'[t] = None
  /\ UNCHANGED <<vault, disk, never, form, count, log>>

LEMMA LedFacts ==
  ASSUME TypeInv, NEW t, NEW s \in Sites \cup {None}, tasks' = Led(t, s)
  PROVE  /\ tasks' \in Seq(TaskRecs) /\ Len(tasks') = Len(tasks) /\ DOMAIN tasks' = DOMAIN tasks
         /\ \A n \in DOMAIN tasks : Alike(tasks'[n], tasks[n])
<1>1. tasks \in Seq(TaskRecs) /\ DOMAIN tasks = 1 .. Len(tasks) /\ Len(tasks) \in Nat
  BY LenProperties DEF TypeInv, Waiting
<1>2. \A n \in DOMAIN tasks : tasks[n] \in TaskRecs
  BY <1>1, ElementOfSeq
<1>3. ASSUME NEW n \in DOMAIN tasks
      PROVE  Alike(IF n \in Awaited(t) THEN [tasks[n] EXCEPT !.there = s] ELSE tasks[n], tasks[n])
  <2>1. CASE n \in Awaited(t)
    <3>1. tasks[n].there # None
      BY <2>1 DEF Awaited
    <3> QED BY <1>2, <2>1, <3>1 DEF TaskRecs, Alike
  <2>2. CASE n \notin Awaited(t)
    BY <1>2, <2>2 DEF Alike
  <2> QED BY <2>1, <2>2
<1>4. DOMAIN tasks' = DOMAIN tasks /\ \A n \in DOMAIN tasks : Alike(tasks'[n], tasks[n])
  BY <1>3 DEF Led
<1>5. tasks' \in [1 .. Len(tasks) -> TaskRecs]
  <2>1. \A n \in DOMAIN tasks : tasks'[n] \in TaskRecs
    BY <1>4 DEF Alike
  <2> QED BY <1>1, <1>4, <2>1 DEF Led
<1>6. tasks' \in Seq(TaskRecs)
  BY ONLY <1>1, <1>5, SeqDef
<1>7. DOMAIN tasks' = 1 .. Len(tasks') /\ Len(tasks') \in Nat
  BY <1>6, LenProperties
<1>8. Len(tasks') = Len(tasks)
  BY <1>1, <1>4, <1>7
<1> QED BY <1>4, <1>6, <1>8

LEMMA TabLeads ==
  ASSUME TypeInv, NEW t \in Tabs, CloseTab(t) \/ \E s \in Sites : Leave(t, s)
  PROVE  Leads
<1>1. CASE CloseTab(t)
  <2>1. tasks' = Led(t, None)
    BY <1>1 DEF CloseTab
  <2>2. /\ tasks' \in Seq(TaskRecs) /\ Len(tasks') = Len(tasks) /\ DOMAIN tasks' = DOMAIN tasks
        /\ \A n \in DOMAIN tasks : Alike(tasks'[n], tasks[n])
    BY <2>1, LedFacts
  <2> QED BY <1>1, <2>2, LookParts DEF CloseTab, Leads
<1>2. ASSUME NEW s \in Sites, Leave(t, s) PROVE Leads
  <2>1. tasks' = Led(t, s)
    BY <1>2 DEF Leave
  <2>2. /\ tasks' \in Seq(TaskRecs) /\ Len(tasks') = Len(tasks) /\ DOMAIN tasks' = DOMAIN tasks
        /\ \A n \in DOMAIN tasks : Alike(tasks'[n], tasks[n])
    BY <2>1, LedFacts
  <2> QED BY <1>2, <2>2, LookParts DEF Leave, Leads
<1> QED BY <1>1, <1>2

LEMMA OpenMenuLooks ==
  ASSUME TypeInv, NEW t \in Tabs, NEW p \in Sites, NEW f \in Sites, OpenMenu(t, p, f)
  PROVE  Looks
<1> DEFINE at  == [page |-> p, frame |-> f]
           ids == {i \in MatchesFor(f) : CanFill(plain[i], at)}
           m == [page |-> p, frame |-> f, ids |-> ids]
<1>1. /\ ~locked /\ menu' = [menu EXCEPT ![t] = m] /\ Busy
      /\ UNCHANGED <<vault, disk, tasks, offer, never, form, minted, drawn, log>>
  BY DEF OpenMenu
<1>2. ids \in SUBSET Ids
  BY DEF MatchesFor, Known
<1> HIDE DEF ids
<1>3. m \in Menus
  BY <1>2 DEF Menus
<1> HIDE DEF m
<1> QED BY <1>1, <1>3, LookParts, BusyFacts DEF Looks, vault

LEMMA FormLooks ==
  ASSUME TypeInv, CancelForm \/ \E i \in Ids : OpenForm(i)
  PROVE  Looks
<1>1. CASE CancelForm
  BY <1>1, LookParts DEF CancelForm, Looks, vault, count
<1>2. ASSUME NEW i \in Ids, OpenForm(i) PROVE Looks
  <2>1. plain[i] \in Bodies
    BY <1>2, TypeParts DEF OpenForm
  <2>2. [id |-> i, body |-> plain[i]] \in Forms
    BY <2>1 DEF Forms
  <2> QED BY <1>2, <2>2, LookParts, BusyFacts DEF OpenForm, Looks, vault
<1> QED BY <1>1, <1>2

(* Another machine's change of one record, pulled or put in its place.     *)
Unchanged(l) ==
  /\ l \in Log /\ l.owed = log.owed /\ l.under = log.under /\ l.late = log.late
  /\ log.twice \subseteq l.twice /\ \A p \in Pws : FiledIn(log)[p] \subseteq FiledIn(l)[p]
Pulled(k, i) ==
  /\ k \in TaskRecs /\ k.does = "sync" /\ k.there = None /\ k.seen = env
  /\ k.new \in EnvMaps /\ Upto(k.new, minted)
  /\ i \in Ids /\ \A j \in Ids \ {i} : k.new[j] = env[j]
  /\ env[i] \in Envelopes /\ env[i].body \in Bodies /\ k.new[i] \in Envelopes
  /\ RevOf(env[i]) < RevOf(k.new[i])
  /\ k.new[i].body # None =>
       \E p \in Pws : /\ IsPatch(k.new[i].body, env[i].body, p)
                      /\ env[i].body.urls \subseteq FiledIn(log')[p]
  /\ \/ ~locked /\ k.at = "seal" /\ env' = env /\ log'.gone = log.gone
     \/ /\ locked /\ k.at = "store" /\ env' = k.new
        /\ log'.gone = log.gone \cup Dropped(env, env')
  /\ Unchanged(log') /\ log'.over = log.over /\ log'.torn = log.torn
  /\ log'.twice = log.twice /\ Room(k)
  /\ UNCHANGED <<locked, plain, disk, page, minted>>
  /\ drawn' \in 0 .. MaxPws /\ jobs' \in 0 .. MaxJobs

LEMMA GoneFacts ==
  ASSUME NEW l \in Log, NEW G \in SUBSET Pws
  PROVE  LET m == [l EXCEPT !.gone = @ \cup G] IN
         /\ m \in Log /\ m.owed = l.owed /\ m.gone = l.gone \cup G /\ m.over = l.over
         /\ m.torn = l.torn /\ m.under = l.under /\ m.late = l.late
         /\ m.twice = l.twice /\ m.home = l.home /\ m.given = l.given
<1> DEFINE g == l.gone \cup G
<1>1. g \in SUBSET Pws
  BY LogParts
<1> HIDE DEF g
<1>2. LET m == [l EXCEPT !.gone = g] IN
         /\ m \in Log /\ m.owed = l.owed /\ m.gone = g /\ m.over = l.over
         /\ m.torn = l.torn /\ m.under = l.under /\ m.late = l.late
         /\ m.twice = l.twice /\ m.home = l.home /\ m.given = l.given
  BY <1>1 DEF Log
<1> QED BY <1>2 DEF g

LEMMA ValuesTyped ==
  ASSUME NEW m \in EnvMaps PROVE Values(m) \in SUBSET Pws
<1>1. ASSUME NEW i \in DOMAIN m PROVE ValuesOf(LiveOf(m[i])) \in SUBSET Pws
  <2>1. LiveOf(m[i]) = None \/ LiveOf(m[i]) \in Bodies
    BY DEF EnvMaps, LiveOf, Envelopes
  <2>2. CASE LiveOf(m[i]) = None
    BY <2>2 DEF ValuesOf
  <2>3. CASE LiveOf(m[i]) \in Bodies
    BY <2>3, BodyParts
  <2> QED BY <2>1, <2>2, <2>3
<1> QED BY <1>1 DEF Values

LEMMA PullFacts ==
  ASSUME TypeInv, NEW i \in Ids, NEW dies \in BOOLEAN, SyncPull(i, dies)
  PROVE  \E k : Pulled(k, i)
<1> DEFINE b    == env[i].body
           e    == [rev |-> 2, body |-> IF dies THEN None ELSE Patched(b, NewPw)]
           next == [env EXCEPT ![i] = e]
           k    == [Task("sync", None) EXCEPT !.seen = env, !.new = next]
           met  == IF dies THEN log ELSE Learns(NewPw, b.urls)
           s    == [k EXCEPT !.at = "store"]
<1>1. /\ env[i] # None /\ env[i].rev = 1 /\ b \in Start
      /\ IF dies THEN UNCHANGED drawn ELSE Draws(NewPw)
      /\ \/ ~locked /\ Started(k) /\ log' = met /\ UNCHANGED env
         \/ /\ locked /\ Started(s) /\ env' = next
            /\ log' = [met EXCEPT !.gone = @ \cup Dropped(env, next)]
      /\ UNCHANGED <<locked, plain, disk, page, minted>>
  BY DEF SyncPull
<1>2. env[i] \in Envelopes /\ b \in Bodies /\ env \in EnvMaps /\ drawn \in 0 .. MaxPws /\ log \in Log
  BY <1>1, TypeParts
<1>3. drawn' \in 0 .. MaxPws /\ (~dies => NewPw \in Pws)
  BY <1>1, <1>2, NewPwDrawn, DrawsFacts
<1>4. ~dies => IsPatch(Patched(b, NewPw), b, NewPw)
  BY <1>2, <1>3, PatchedFacts
<1>5. e \in Envelopes /\ e.body = IF dies THEN None ELSE Patched(b, NewPw)
  BY <1>4 DEF Envelopes, IsPatch
<1>15. RevOf(env[i]) < RevOf(e)
  BY <1>1, <1>5 DEF RevOf
<1>6. b.urls \in SUBSET Sites
  BY <1>2, BodyParts
<1>7. /\ SameLog(met) /\ met.twice = log.twice
      /\ ~dies => b.urls \subseteq FiledIn(met)[NewPw]
  <2>1. CASE dies
    BY <2>1, TypeParts
  <2>2. CASE ~dies
    <3>1. met = Learns(NewPw, b.urls)
      BY <2>2
    <3> HIDE DEF met, b
    <3>2. NewPw \in Pws /\ b.urls \in SUBSET Sites
      BY <1>3, <1>6, <2>2
    <3> QED BY ONLY <3>1, <3>2, <1>2, LearnsFacts
  <2> QED BY <2>1, <2>2
<1> HIDE DEF e
<1>8. next \in EnvMaps /\ next[i] = e /\ \A j \in Ids \ {i} : next[j] = env[j]
  BY <1>2, <1>5 DEF EnvMaps
<1>9. Upto(next, minted)
  <2>1. DOMAIN next = Ids /\ \A j \in Ids : env[j] # None => j <= minted
    BY <1>8, TypeParts DEF EnvMaps
  <2> QED BY <1>1, <1>8, <2>1 DEF Upto
<1>10. /\ k \in TaskRecs /\ k.does = "sync" /\ k.at = "seal" /\ k.there = None
       /\ k.seen = env /\ k.new = next
  <2>1. env \in Maps /\ next \in Maps
    BY <1>2, <1>8, MapFacts
  <2> HIDE DEF next
  <2>2. <<>> \in Maps
    BY MapFacts
  <2>3. Nothing \in TaskRecs /\ Nothing.at = "seal" /\ Nothing.there = None
    BY <2>2 DEF Nothing, TaskRecs, Handlers
  <2>4. /\ Task("sync", None) \in TaskRecs /\ Task("sync", None).does = "sync"
        /\ Task("sync", None).at = "seal" /\ Task("sync", None).there = None
    BY <2>3 DEF Task, TaskRecs, Handlers
  <2> QED BY <2>1, <2>4 DEF TaskRecs
<1> HIDE DEF k, met
<1>11. /\ s \in TaskRecs /\ s.does = "sync" /\ s.at = "store" /\ s.there = None
       /\ s.seen = env /\ s.new = next
  BY <1>10 DEF TaskRecs
<1> HIDE DEF s, next
<1>12. next[i].body # None =>
         IsPatch(next[i].body, env[i].body, NewPw) /\ NewPw \in Pws /\ env[i].body.urls \subseteq FiledIn(met)[NewPw]
  BY <1>3, <1>4, <1>5, <1>7, <1>8
<1>13. CASE ~locked /\ Started(k) /\ log' = met /\ UNCHANGED env
  <2>1. jobs' \in 0 .. MaxJobs /\ Room(k)
    BY <1>13, BusyFacts DEF Started
  <2>2. Pulled(k, i)
    BY <1>1, <1>2, <1>3, <1>5, <1>7, <1>8, <1>9, <1>10, <1>12, <1>13, <1>15, <2>1 DEF Pulled, Unchanged, SameLog
  <2> QED BY <2>2
<1>14. CASE /\ locked /\ Started(s) /\ env' = next
            /\ log' = [met EXCEPT !.gone = @ \cup Dropped(env, next)]
  <2>1. jobs' \in 0 .. MaxJobs /\ Room(s)
    BY <1>14, BusyFacts DEF Started
  <2>2. Dropped(env, next) \in SUBSET Pws
    BY <1>2, ValuesTyped DEF Dropped
  <2>3. met \in Log
    BY <1>7 DEF SameLog
  <2>4. /\ log' \in Log /\ log'.owed = met.owed /\ log'.gone = met.gone \cup Dropped(env, next)
        /\ log'.over = met.over /\ log'.torn = met.torn /\ log'.under = met.under
        /\ log'.late = met.late /\ log'.twice = met.twice /\ log'.home = met.home
        /\ log'.given = met.given
    BY ONLY <1>14, <2>2, <2>3, GoneFacts
  <2>6. FiledIn(log') = FiledIn(met)
    BY <2>4 DEF FiledIn
  <2>5. Pulled(s, i)
    BY <1>1, <1>2, <1>3, <1>5, <1>7, <1>8, <1>9, <1>11, <1>12, <1>14, <1>15, <2>1, <2>4, <2>6 DEF Pulled, Unchanged, SameLog
  <2> QED BY <2>5
<1> QED BY <1>1, <1>13, <1>14

(* A write lands: one record, in both maps.                                *)
Ghost(l) ==
  /\ l \in Log /\ l.owed = log.owed /\ l.under = log.under /\ l.late = log.late
  /\ l.home = log.home /\ l.given = log.given /\ l.twice = log.twice
Landed(k, i) ==
  /\ Sealing(k) /\ k.does \in Writers /\ i \in Ids /\ WritesOne(k, i)
  /\ env' \in EnvMaps /\ env'[i] = k.new[i] /\ \A j \in Ids \ {i} : env'[j] = env[j]
  /\ plain' \in [Ids -> Bodies \cup {None}] /\ plain'[i] = k.new[i].body
  /\ \A j \in Ids \ {i} : plain'[j] = plain[j]
  /\ Ghost(log') /\ log'.torn = log.torn /\ log'.over = log.over \cup Stale(k)
  /\ \/ log'.gone = log.gone \cup Dropped(env, env')
     \/ /\ log'.gone = log.gone /\ env[i] = k.seen[i] /\ i \notin log.torn
        /\ k.does # "rotate" => k.new[i].body # None
  /\ UNCHANGED <<locked, disk, page, count>>
(* s is k on its way to storage, with m.                                   *)
Storing(s, k, m) ==
  /\ s \in TaskRecs /\ s.at = "store" /\ s.does = k.does /\ s.tab = k.tab /\ s.val = k.val
  /\ s.site = k.site /\ s.there = k.there /\ s.other = k.other /\ s.seen = <<>> /\ s.new = m
Toward(n, m) == \E s : Storing(s, tasks[n], m) /\ tasks' = Append(RemoveAt(tasks, n), s)
(* A rotation goes on to delete the scratch entry, unless the key is gone. *)
Onward(n, k) ==
  \/ locked /\ tasks' = RemoveAt(tasks, n)
  \/ /\ ~locked
     /\ \E w, d : /\ SealedTask(d) /\ d.does = "complete" /\ d.val = k.val
                  /\ k.other \in Ids /\ WritesAs(w, d, k.other, None, env[k.other])
                  /\ tasks' = [tasks EXCEPT ![n] = w]

LEMMA TaskParts ==
  ASSUME TypeInv, NEW n \in DOMAIN tasks
  PROVE  /\ tasks[n] \in TaskRecs /\ Shape(tasks[n]) /\ TaskUpto(tasks[n], minted)
         /\ tasks[n].seen \in Maps /\ tasks[n].new \in Maps
         /\ tasks[n].does \in Handlers /\ tasks[n].at \in {"page", "seal", "store"}
<1>1. GoodTask(tasks[n], minted)
  BY DEF TypeInv, Waiting
<1> QED BY <1>1, IsATask DEF GoodTask

LEMMA StoringFacts ==
  ASSUME NEW k \in TaskRecs, NEW m \in EnvMaps
  PROVE  Storing([k EXCEPT !.at = "store", !.seen = <<>>, !.new = m], k, m)
<1>1. <<>> \in Maps /\ m \in Maps
  BY MapFacts
<1> QED BY <1>1 DEF TaskRecs, Storing

LogWith(m, l, O, G) ==
  /\ m \in Log /\ m.owed = l.owed /\ m.gone = l.gone \cup G /\ m.over = l.over \cup O
  /\ m.torn = l.torn /\ m.under = l.under /\ m.late = l.late
  /\ m.twice = l.twice /\ m.home = l.home /\ m.given = l.given
LEMMA LogLanded ==
  ASSUME NEW l \in Log, NEW O \in SUBSET Ids, NEW G \in SUBSET Pws
  PROVE  LogWith([l EXCEPT !.over = @ \cup O, !.gone = @ \cup G], l, O, G)
<1> DEFINE g == l.gone \cup G
           o == l.over \cup O
<1>1. g \in SUBSET Pws /\ o \in SUBSET Ids
  BY LogParts
<1> HIDE DEF g, o
<1>2. LET m == [l EXCEPT !.over = o, !.gone = g] IN
         /\ m \in Log /\ m.owed = l.owed /\ m.gone = g /\ m.over = o
         /\ m.torn = l.torn /\ m.under = l.under /\ m.late = l.late
         /\ m.twice = l.twice /\ m.home = l.home /\ m.given = l.given
  BY <1>1 DEF Log
<1> QED BY <1>2 DEF g, o, LogWith

(* What both landings share.                                               *)
LEMMA LandingFacts ==
  ASSUME TypeInv, NEW n \in DOMAIN tasks, NEW k, k = tasks[n], Sealing(k), k.does \in Writers,
         env' = Written(k), plain' = [i \in Ids |-> Shown(k, i)],
         NEW G, log' = [log EXCEPT !.over = @ \cup Stale(k), !.gone = @ \cup G],
         \/ G = Dropped(env, env')
         \/ /\ G = {} /\ ~Overlapped(k)
            /\ k.does # "rotate" => ~(\A i \in DOMAIN k.new : k.new[i].body = None),
         UNCHANGED <<locked, disk, page, count>>
  PROVE  \E i : Landed(k, i)
<1>1. PICK i \in Ids : WritesOne(k, i)
  <2>1. Shape(k)
    BY TaskParts
  <2> QED BY <2>1 DEF Shape, Sealing
<1>2. /\ DOMAIN k.new = {i} /\ k.new[i] \in Envelopes /\ DOMAIN k.seen = {i}
      /\ k.new[i] # None
  BY <1>1 DEF WritesOne
<1>3. env \in EnvMaps /\ plain \in [Ids -> Bodies \cup {None}] /\ log \in Log
  BY TypeParts
<1>4. /\ env' \in EnvMaps /\ env'[i] = k.new[i] /\ \A j \in Ids \ {i} : env'[j] = env[j]
  BY <1>2, <1>3 DEF Written, EnvMaps
<1>5. k.new[i].body \in Bodies \cup {None}
  BY <1>2 DEF Envelopes
<1>6. /\ plain' \in [Ids -> Bodies \cup {None}] /\ plain'[i] = k.new[i].body
      /\ \A j \in Ids \ {i} : plain'[j] = plain[j]
  BY <1>2, <1>3, <1>5 DEF Shown, LiveOf
<1>7. Stale(k) \in SUBSET Ids /\ (Stale(k) = {} => env[i] = k.seen[i])
  BY <1>2 DEF Stale
<1>8. G \in SUBSET Pws
  BY <1>3, <1>4, ValuesTyped DEF Dropped
<1>9. /\ log' \in Log /\ log'.owed = log.owed /\ log'.gone = log.gone \cup G
      /\ log'.over = log.over \cup Stale(k) /\ log'.torn = log.torn /\ log'.under = log.under
      /\ log'.late = log.late /\ log'.twice = log.twice /\ log'.home = log.home
      /\ log'.given = log.given
  <2>1. Stale(k) \in SUBSET Ids /\ log \in Log
    BY <1>3, <1>7
  <2>2. log' = [log EXCEPT !.over = @ \cup Stale(k), !.gone = @ \cup G]
    OBVIOUS
  <2>3. LogWith([log EXCEPT !.over = @ \cup Stale(k), !.gone = @ \cup G], log, Stale(k), G)
    BY ONLY <1>8, <2>1, LogLanded
  <2> QED BY <2>2, <2>3 DEF LogWith
<1>10. \/ log'.gone = log.gone \cup Dropped(env, env')
       \/ /\ log'.gone = log.gone /\ env[i] = k.seen[i] /\ i \notin log.torn
          /\ k.does # "rotate" => k.new[i].body # None
  <2>1. CASE G = Dropped(env, env')
    BY <1>9, <2>1
  <2>2. CASE /\ G = {} /\ ~Overlapped(k)
             /\ k.does # "rotate" => ~(\A j \in DOMAIN k.new : k.new[j].body = None)
    BY <1>2, <1>7, <1>9, <2>2 DEF Overlapped
  <2> QED BY <2>1, <2>2
<1> QED BY <1>1, <1>4, <1>6, <1>9, <1>10 DEF Landed, Ghost

LEMMA LandWriteFacts ==
  ASSUME TypeInv, NEW n \in DOMAIN tasks, LandWrite(n)
  PROVE  /\ tasks[n].does # "rotate" /\ Toward(n, env')
         /\ \E i : Landed(tasks[n], i)
<1> DEFINE k == tasks[n]
           c == Overlapped(k) \/ \A i \in DOMAIN k.new : k.new[i].body = None
           G == IF c THEN Dropped(env, env') ELSE {}
<1>1. /\ Sealing(k) /\ k.does \notin {"sync", "rotate"}
      /\ env' = Written(k) /\ plain' = [i \in Ids |-> Shown(k, i)]
      /\ ToStore(n, k, env')
      /\ log' = [log EXCEPT !.over = @ \cup Stale(k), !.gone = @ \cup G]
      /\ UNCHANGED <<locked, disk, page, count>>
  BY DEF LandWrite
<1>2. k \in TaskRecs /\ k.does \in Writers
  BY <1>1, TaskParts DEF Sealing, Writers, Shape
<1>3. \/ G = Dropped(env, env')
      \/ /\ G = {} /\ ~Overlapped(k)
         /\ k.does # "rotate" => ~(\A i \in DOMAIN k.new : k.new[i].body = None)
  OBVIOUS
<1> HIDE DEF G
<1>4. \E i : Landed(k, i)
  BY <1>1, <1>2, <1>3, LandingFacts
<1>5. env' \in EnvMaps
  BY <1>4 DEF Landed
<1>6. Toward(n, env')
  BY <1>1, <1>2, <1>5, StoringFacts DEF Toward, ToStore
<1> QED BY <1>1, <1>4, <1>6

LEMMA LandRotationFacts ==
  ASSUME TypeInv, NEW n \in DOMAIN tasks, LandRotation(n)
  PROVE  /\ tasks[n].does = "rotate" /\ Onward(n, tasks[n])
         /\ \E i : Landed(tasks[n], i)
<1> DEFINE k == tasks[n]
           G == IF Overlapped(k) THEN Dropped(env, env') ELSE {}
           d == [Task("complete", k.val) EXCEPT !.tab = k.tab]
           w == Writing(d, k.other, None)
<1>1. /\ Sealing(k) /\ k.does = "rotate"
      /\ env' = Written(k) /\ plain' = [i \in Ids |-> Shown(k, i)]
      /\ tasks' = IF locked THEN RemoveAt(tasks, n) ELSE [tasks EXCEPT ![n] = w]
      /\ log' = [log EXCEPT !.over = @ \cup Stale(k), !.gone = @ \cup G]
      /\ UNCHANGED <<locked, disk, page, count>>
  BY DEF LandRotation
<1>2. k \in TaskRecs /\ k.does \in Writers /\ k.val \in Pws /\ k.tab \in Tabs /\ k.other \in Ids
  BY <1>1, TaskParts DEF Sealing, Writers, Shape, Carries
<1>3. \/ G = Dropped(env, env')
      \/ /\ G = {} /\ ~Overlapped(k)
         /\ k.does # "rotate" => ~(\A i \in DOMAIN k.new : k.new[i].body = None)
  BY <1>1
<1>4. Given(d, "complete", k.tab, k.val, None, None)
  BY <1>2, TaskIs DEF Handlers, Fillers
<1> HIDE DEF G, d
<1>5. \E i : Landed(k, i)
  BY <1>1, <1>2, <1>3, LandingFacts
<1>6. SealedTask(d) /\ d.does = "complete" /\ d.val = k.val
  BY <1>2, <1>4 DEF Given, SealedTask, Carries, Writers, Handlers, Fillers
<1>7. WritesAs(w, d, k.other, None, env[k.other])
  BY <1>2, <1>6, WritingFacts, TypeParts DEF SealedTask
<1> HIDE DEF w
<1>8. Onward(n, k)
  BY <1>1, <1>2, <1>6, <1>7 DEF Onward
<1> QED BY <1>1, <1>5, <1>8

(* A sync lands: each record as it was pulled, or, where it was written    *)
(* meanwhile, with its envelope kept and an older body shown.              *)
Synced(k) ==
  /\ Sealing(k) /\ k.does = "sync" /\ k.seen \in EnvMaps /\ k.new \in EnvMaps
  /\ env' \in EnvMaps /\ plain' \in [Ids -> Bodies \cup {None}]
  /\ \A i \in Ids : \/ env'[i] = k.new[i] /\ plain'[i] = LiveOf(k.new[i])
                    \/ env'[i] = env[i] /\ plain'[i] = LiveOf(k.seen[i]) /\ i \in Stale(k)
  /\ Ghost(log') /\ log'.over = log.over \cup Stale(k) /\ log'.torn = log.torn \cup Stale(k)
  /\ log'.gone = log.gone \cup Dropped(env, env')
  /\ UNCHANGED <<locked, disk, page, count>>

LEMMA LiveTyped ==
  ASSUME NEW m \in EnvMaps PROVE \A i \in Ids : LiveOf(m[i]) \in Bodies \cup {None}
  BY DEF EnvMaps, LiveOf, Envelopes

LEMMA LandSyncFacts ==
  ASSUME TypeInv, NEW n \in DOMAIN tasks, LandSync(n)
  PROVE  Synced(tasks[n]) /\ Toward(n, env')
<1> DEFINE k == tasks[n]
           met == {i \in Stale(k) : /\ k.new[i] # None /\ k.new[i].body # None
                                    /\ env[i].rev > k.new[i].rev}
<1>1. /\ Sealing(k) /\ k.does = "sync" /\ ToStore(n, k, env')
      /\ \E S \in SUBSET met :
           /\ env'   = [i \in Ids |-> IF i \in S THEN env[i] ELSE k.new[i]]
           /\ plain' = [i \in Ids |-> LiveOf(IF i \in S THEN k.seen[i] ELSE k.new[i])]
      /\ log' = [log EXCEPT !.over = @ \cup Stale(k), !.torn = @ \cup Stale(k),
                            !.gone = @ \cup Dropped(env, env')]
      /\ UNCHANGED <<locked, disk, page, count>>
  BY DEF LandSync
<1>2. k \in TaskRecs /\ k.seen \in EnvMaps /\ k.new \in EnvMaps /\ env \in EnvMaps /\ log \in Log
  BY <1>1, TaskParts, TypeParts DEF Sealing, Shape
<1> PICK S \in SUBSET met :
           /\ env'   = [i \in Ids |-> IF i \in S THEN env[i] ELSE k.new[i]]
           /\ plain' = [i \in Ids |-> LiveOf(IF i \in S THEN k.seen[i] ELSE k.new[i])]
  BY <1>1
<1>3. S \subseteq Stale(k) /\ Stale(k) \in SUBSET Ids
  BY <1>2 DEF Stale, EnvMaps
<1> HIDE DEF met
<1>4. /\ env' \in EnvMaps
      /\ \A i \in Ids : \/ env'[i] = k.new[i] /\ plain'[i] = LiveOf(k.new[i])
                        \/ env'[i] = env[i] /\ plain'[i] = LiveOf(k.seen[i]) /\ i \in Stale(k)
  BY <1>2, <1>3 DEF EnvMaps
<1>5. \A i \in Ids : LiveOf(k.new[i]) \in Bodies \cup {None} /\ LiveOf(k.seen[i]) \in Bodies \cup {None}
  BY <1>2, LiveTyped
<1>6. plain' \in [Ids -> Bodies \cup {None}]
  BY <1>5
<1> DEFINE O == log.over \cup Stale(k)
           T == log.torn \cup Stale(k)
           G == log.gone \cup Dropped(env, env')
<1>7. O \in SUBSET Ids /\ T \in SUBSET Ids /\ G \in SUBSET Pws
  BY <1>2, <1>3, <1>4, LogParts, ValuesTyped DEF Dropped
<1>8. log' = [log EXCEPT !.over = O, !.torn = T, !.gone = G]
  BY <1>1
<1> HIDE DEF O, T, G, k
<1>9. Ghost(log') /\ log'.over = O /\ log'.torn = T /\ log'.gone = G
  BY <1>2, <1>7, <1>8 DEF Log, Ghost
<1>10. Synced(k)
  BY <1>1, <1>2, <1>4, <1>6, <1>9 DEF Synced, O, T, G
<1>11. Toward(n, env')
  BY <1>1, <1>2, <1>4, StoringFacts DEF Toward, ToStore, k
<1> QED BY <1>10, <1>11 DEF k

(* Neither the sites of a password nor what was dropped change.            *)
SameGone(l) ==
  /\ l \in Log /\ l.gone = log.gone /\ l.over = log.over /\ l.torn = log.torn
  /\ l.under = log.under /\ l.home = log.home /\ l.given = log.given /\ l.twice = log.twice

(* An unlock lands: each record as it stands, or stood when it was asked.  *)
Opened(n, k) ==
  /\ k.does = "open" /\ k.seen \in EnvMaps
  /\ locked' = FALSE /\ tasks' = RemoveAt(tasks, n)
  /\ plain' \in [Ids -> Bodies \cup {None}]
  /\ \A i \in Ids : \/ plain'[i] = LiveOf(env[i])
                    \/ plain'[i] = LiveOf(k.seen[i]) /\ env # k.seen
  /\ SameGone(log') /\ log'.owed = log.owed
  /\ log'.late \in BOOLEAN /\ (~log'.late => ~log.late /\ env = k.seen)
  /\ UNCHANGED <<env, disk, page, count>>

LEMMA FinishUnlockFacts ==
  ASSUME TypeInv, NEW n \in DOMAIN tasks, FinishUnlock(n)
  PROVE  Opened(n, tasks[n])
<1> DEFINE k == tasks[n]
<1>1. /\ k.does = "open" /\ locked' = FALSE /\ tasks' = RemoveAt(tasks, n)
      /\ \E S \in SUBSET Stale(k) :
           plain' = [i \in Ids |-> LiveOf(IF i \in S THEN k.seen[i] ELSE env[i])]
      /\ log' = [log EXCEPT !.late = @ \/ env # k.seen]
      /\ UNCHANGED <<env, disk, page, count>>
  BY DEF FinishUnlock
<1>2. k.seen \in EnvMaps /\ env \in EnvMaps /\ log \in Log
  BY <1>1, TaskParts, TypeParts DEF Shape
<1>3. PICK S \in SUBSET Stale(k) :
           plain' = [i \in Ids |-> LiveOf(IF i \in S THEN k.seen[i] ELSE env[i])]
  BY <1>1
<1>4. \A i \in Ids : LiveOf(env[i]) \in Bodies \cup {None} /\ LiveOf(k.seen[i]) \in Bodies \cup {None}
  BY <1>2, LiveTyped
<1>5. plain' \in [Ids -> Bodies \cup {None}]
  BY <1>3, <1>4
<1>6. \A i \in Ids : \/ plain'[i] = LiveOf(env[i])
                     \/ plain'[i] = LiveOf(k.seen[i]) /\ env # k.seen
  BY <1>2, <1>3 DEF Stale, EnvMaps
<1> DEFINE late == log.late \/ env # k.seen
<1>7. late \in BOOLEAN /\ (~late => ~log.late /\ env = k.seen) /\ log' = [log EXCEPT !.late = late]
  BY <1>1
<1> HIDE DEF late
<1>8. /\ SameGone(log') /\ log'.owed = log.owed /\ log'.late = late
  BY <1>2, <1>7 DEF SameGone, Log
<1> QED BY <1>1, <1>2, <1>5, <1>6, <1>7, <1>8 DEF Opened

(* What waited for storage is over: kept, or not.                          *)
Settled(n, k) ==
  /\ FirstStore(n) /\ tasks' = RemoveAt(tasks, n)
  /\ \/ disk' = k.new
     \/ disk' = disk /\ log'.owed = log.owed
  /\ menu' \in [Tabs -> Menus \cup {None}] /\ offer' \in [Tabs -> Offers \cup {None}]
  /\ \A t \in Tabs : /\ menu'[t] = menu[t] \/ menu'[t] = None
                     /\ offer'[t] = offer[t] \/ offer'[t] = None
  /\ SameGone(log') /\ log'.late = log.late
  /\ \/ log'.owed = log.owed
     \/ /\ log'.owed = log.owed \cup {k.val}
        /\ k.does \in {"generate", "save", "complete", "edit"}
  /\ UNCHANGED <<vault, never, form, count>>

OwedMore(m, l, p) ==
  /\ m \in Log /\ m.owed = l.owed \cup {p} /\ m.gone = l.gone /\ m.over = l.over
  /\ m.torn = l.torn /\ m.under = l.under /\ m.late = l.late
  /\ m.twice = l.twice /\ m.home = l.home /\ m.given = l.given
LEMMA OwedFacts ==
  ASSUME NEW l \in Log, NEW p \in Pws
  PROVE  OwedMore([l EXCEPT !.owed = @ \cup {p}], l, p)
<1> DEFINE o == l.owed \cup {p}
<1>1. o \in SUBSET Pws
  BY LogParts
<1> HIDE DEF o
<1>2. OwedMore([l EXCEPT !.owed = o], l, p) <=> o = l.owed \cup {p}
  BY <1>1 DEF OwedMore, Log
<1> QED BY <1>2 DEF o

LEMMA SettleFacts ==
  ASSUME TypeInv, NEW n \in DOMAIN tasks, Stored(n) \/ StoreFails(n)
  PROVE  Settled(n, tasks[n])
<1> DEFINE k == tasks[n]
<1>1. k \in TaskRecs /\ Carries(k) /\ log \in Log
  BY TaskParts, TypeParts DEF Shape
<1>2. FirstStore(n) /\ tasks' = RemoveAt(tasks, n) /\ UNCHANGED <<vault, never, form, count>>
  BY DEF Stored, StoreFails
<1>3. /\ menu \in [Tabs -> Menus \cup {None}] /\ offer \in [Tabs -> Offers \cup {None}]
      /\ SameGone(log)
  BY <1>1, LookParts DEF SameGone
<1>4. ASSUME k.does = "fill", Arrives(k), disk' = k.new \/ disk' = disk
      PROVE  Settled(n, k)
  <2>1. k.tab \in Tabs
    BY <1>1, <1>4 DEF Carries
  <2>2. /\ menu' = IF k.there = None THEN menu ELSE [menu EXCEPT ![k.tab] = None]
        /\ offer' = offer /\ log' = log
    BY <1>4 DEF Arrives
  <2> QED BY <1>2, <1>3, <2>1, <2>2, <1>4 DEF Settled
<1>5. CASE StoreFails(n)
  <2>1. CASE k.does = "fill"
    BY <1>4, <1>5, <2>1 DEF StoreFails
  <2>2. CASE k.does # "fill"
    <3>1. menu' = menu /\ offer' = offer /\ log' = log /\ disk' = disk
      BY <1>5, <2>2 DEF StoreFails
    <3> QED BY <1>2, <1>3, <3>1 DEF Settled
  <2> QED BY <2>1, <2>2
<1>6. CASE Stored(n)
  <2>1. disk' = k.new
    BY <1>6 DEF Stored
  <2>2. CASE k.does = "fill" /\ Arrives(k)
    BY <1>4, <2>1, <2>2
  <2>4. CASE /\ k.does \in {"save", "complete"} /\ offer' = [offer EXCEPT ![k.tab] = None]
             /\ log' = [log EXCEPT !.owed = @ \cup {k.val}] /\ UNCHANGED menu
    <3>1. k.val \in Pws
      BY <1>1, <2>4 DEF Carries
    <3>2. OwedMore(log', log, k.val)
      BY <1>1, <2>4, <3>1, OwedFacts
    <3>3. SameGone(log') /\ log'.late = log.late /\ log'.owed = log.owed \cup {k.val}
      BY <1>3, <3>2 DEF OwedMore, SameGone
    <3> QED BY <1>2, <1>3, <2>1, <2>4, <3>3 DEF Settled
  <2>5. CASE /\ k.does \in {"generate", "edit"} /\ log' = [log EXCEPT !.owed = @ \cup {k.val}]
             /\ UNCHANGED <<menu, offer>>
    <3>1. k.val \in Pws
      BY <1>1, <2>5 DEF Carries, Fillers
    <3>2. OwedMore(log', log, k.val)
      BY <1>1, <2>5, <3>1, OwedFacts
    <3>3. SameGone(log') /\ log'.late = log.late /\ log'.owed = log.owed \cup {k.val}
      BY <1>3, <3>2 DEF OwedMore, SameGone
    <3> QED BY <1>2, <1>3, <2>1, <2>5, <3>3 DEF Settled
  <2>6. CASE UNCHANGED <<menu, offer, log>>
    BY <1>2, <1>3, <2>1, <2>6 DEF Settled
  <2> QED BY <1>6, <2>2, <2>4, <2>5, <2>6 DEF Stored
<1> QED BY <1>5, <1>6

(* An unlock begins; the vault is locked; the browser dies.                *)
Opening(k) ==
  /\ locked /\ k \in TaskRecs /\ k.does = "open" /\ k.at = "seal" /\ k.there = None
  /\ k.seen = env /\ k.new = <<>>
  /\ Room(k) /\ UNCHANGED <<vault, disk, page, minted, drawn, log>> /\ jobs' \in 0 .. MaxJobs

LEMMA StartUnlockFacts == ASSUME TypeInv, StartUnlock PROVE \E k : Opening(k)
<1> DEFINE k == [Task("open", None) EXCEPT !.seen = env]
<1>1. locked /\ Started(k) /\ UNCHANGED <<vault, disk, page, minted, drawn, log>>
  BY DEF StartUnlock
<1>2. env \in Maps /\ <<>> \in Maps
  BY MapFacts, TypeParts
<1>3. Nothing \in TaskRecs /\ Nothing.at = "seal" /\ Nothing.there = None /\ Nothing.new = <<>>
  BY <1>2 DEF Nothing, TaskRecs, Handlers
<1>4. /\ Task("open", None) \in TaskRecs /\ Task("open", None).does = "open"
      /\ Task("open", None).at = "seal" /\ Task("open", None).there = None
      /\ Task("open", None).new = <<>>
  BY <1>3 DEF Task, TaskRecs, Handlers
<1>5. /\ k \in TaskRecs /\ k.does = "open" /\ k.at = "seal" /\ k.there = None
      /\ k.seen = env /\ k.new = <<>>
  BY <1>2, <1>4 DEF TaskRecs
<1> HIDE DEF k
<1>6. Opening(k)
  BY <1>1, <1>5, BusyFacts DEF Opening, Started
<1> QED BY <1>6

Blank == /\ \A i \in Ids : plain[i] = None
         /\ \A t \in Tabs : menu[t] = None /\ offer[t] = None

Locking ==
  /\ ~locked /\ locked' /\ locked' \in BOOLEAN
  /\ plain' = [i \in Ids |-> None] /\ menu' = [t \in Tabs |-> None] /\ offer' = [t \in Tabs |-> None]
  /\ log' \in Log /\ log'.under = (\E n \in DOMAIN tasks : Sealing(tasks[n]))
  /\ log'.owed = log.owed /\ log'.late = log.late /\ log'.gone = log.gone /\ log'.over = log.over
  /\ log'.torn = log.torn /\ log'.home = log.home /\ log'.given = log.given
  /\ log'.twice = log.twice
  /\ UNCHANGED <<env, disk, tasks, never, form, count>>
LEMMA LockFacts == ASSUME TypeInv, Lock PROVE Locking
<1> DEFINE under == \E n \in DOMAIN tasks : Sealing(tasks[n])
<1>1. under \in BOOLEAN /\ log \in Log
  BY TypeParts
<1>2. log' = [log EXCEPT !.under = under]
  BY DEF Lock
<1> HIDE DEF under
<1>3. /\ log' \in Log /\ log'.under = under
      /\ log'.owed = log.owed /\ log'.late = log.late /\ log'.gone = log.gone /\ log'.over = log.over
      /\ log'.torn = log.torn /\ log'.home = log.home /\ log'.given = log.given
      /\ log'.twice = log.twice
  BY <1>1, <1>2 DEF Log
<1>4. /\ ~locked /\ locked' = TRUE /\ plain' = [i \in Ids |-> None]
      /\ menu' = [t \in Tabs |-> None] /\ offer' = [t \in Tabs |-> None]
      /\ UNCHANGED <<env, disk, tasks, never, form, count>>
  BY DEF Lock, Cleared
<1> QED BY <1>3, <1>4 DEF Locking, under

Crashing ==
  /\ tasks' = <<>> /\ env' = disk /\ locked' = TRUE /\ form' = None
  /\ plain' = [i \in Ids |-> None] /\ menu' = [t \in Tabs |-> None] /\ offer' = [t \in Tabs |-> None]
  /\ log' \in Log /\ log'.under = FALSE
  /\ log'.owed = log.owed /\ log'.late = log.late /\ log'.gone = log.gone /\ log'.over = log.over
  /\ log'.torn = log.torn /\ log'.home = log.home /\ log'.given = log.given
  /\ log'.twice = log.twice
  /\ UNCHANGED <<disk, never, count>>
LEMMA CrashFacts == ASSUME TypeInv, Crash PROVE Crashing
<1>1. log \in Log /\ log' = [log EXCEPT !.under = FALSE]
  BY TypeParts DEF Crash
<1>2. /\ log' \in Log /\ log'.under = FALSE
      /\ log'.owed = log.owed /\ log'.late = log.late /\ log'.gone = log.gone /\ log'.over = log.over
      /\ log'.torn = log.torn /\ log'.home = log.home /\ log'.given = log.given
      /\ log'.twice = log.twice
  BY <1>1 DEF Log
<1> QED BY <1>2 DEF Crashing, Crash

Failed(n) == tasks' = RemoveAt(tasks, n) /\ UNCHANGED <<vault, disk, page, count, log>>

(* A page answered, and its entry is touched.                              *)
Touches(n, k) ==
  /\ ~locked /\ k.other \in Ids /\ plain[k.other] # None
  /\ \E w, d : /\ SealedTask(d) /\ d.does = "touch"
               /\ WritesAs(w, d, k.other, plain[k.other], env[k.other])
               /\ tasks' = [tasks EXCEPT ![n] = w]
  /\ UNCHANGED <<vault, disk, page, count, log>>

LEMMA AnsweredFacts ==
  ASSUME TypeInv, NEW n \in DOMAIN tasks, Answered(n)
  PROVE  Failed(n) \/ Touches(n, tasks[n])
<1> DEFINE k == tasks[n]
           d == Task("touch", None)
           w == Writing(d, k.other, plain[k.other])
<1>1. /\ k.at = "page" /\ UNCHANGED <<vault, disk, page, count, log>>
      /\ tasks' = IF k.there = None \/ locked \/ plain[k.other] = None THEN RemoveAt(tasks, n)
                  ELSE [tasks EXCEPT ![n] = w]
  BY DEF Answered
<1>2. k.other \in Ids
  BY <1>1, TaskParts DEF Shape, Carries
<1>3. SealedTask(d) /\ d.does = "touch"
  <2>1. Given(d, "touch", None, None, None, None)
    BY TaskIs DEF Handlers
  <2> QED BY <2>1 DEF Given, SealedTask, Carries, Writers, Handlers, Fillers
<1>4. plain[k.other] # None => WritesAs(w, d, k.other, plain[k.other], env[k.other])
  BY <1>2, <1>3, WritingFacts, TypeParts DEF SealedTask
<1> HIDE DEF d, w
<1> QED BY <1>1, <1>2, <1>3, <1>4 DEF Failed, Touches

-----------------------------------------------------------------------------
(* Every step is of one of these kinds.                                    *)
AtTask(n) ==
  \/ Opened(n, tasks[n])
  \/ Toward(n, env') /\ tasks[n].does # "rotate" /\ \E i : Landed(tasks[n], i)
  \/ Onward(n, tasks[n]) /\ tasks[n].does = "rotate" /\ \E i : Landed(tasks[n], i)
  \/ Toward(n, env') /\ Synced(tasks[n])
  \/ Settled(n, tasks[n])
  \/ Failed(n)
  \/ Touches(n, tasks[n])
Kinds ==
  \/ Looks \/ Offered \/ Leads
  \/ \E k, i, b : Write(k, i, b)
  \/ \E k, i : Pulled(k, i)
  \/ \E k : Sends(k)
  \/ \E k : Opening(k)
  \/ Locking \/ Crashing
  \/ \E n \in DOMAIN tasks : AtTask(n)

LEMMA TaskSteps ==
  ASSUME TypeInv, NEW n \in DOMAIN tasks,
         \/ Answered(n) \/ FinishUnlock(n) \/ LandWrite(n) \/ LandRotation(n) \/ LandSync(n)
         \/ FailSync(n) \/ Stored(n) \/ StoreFails(n)
  PROVE  AtTask(n)
<1>1. CASE FinishUnlock(n)
  BY <1>1, FinishUnlockFacts DEF AtTask
<1>2. CASE LandWrite(n)
  BY <1>2, LandWriteFacts DEF AtTask
<1>3. CASE LandRotation(n)
  BY <1>3, LandRotationFacts DEF AtTask
<1>4. CASE LandSync(n)
  BY <1>4, LandSyncFacts DEF AtTask
<1>5. CASE FailSync(n)
  BY <1>5 DEF FailSync, AtTask, Failed
<1>6. CASE Stored(n) \/ StoreFails(n)
  BY <1>6, SettleFacts DEF AtTask
<1>7. CASE Answered(n)
  BY <1>7, AnsweredFacts DEF AtTask
<1> QED BY <1>1, <1>2, <1>3, <1>4, <1>5, <1>6, <1>7

LEMMA TabSteps ==
  ASSUME TypeInv, NEW t \in Tabs,
         \/ CloseTab(t) \/ CloseMenu(t) \/ Discard(t) \/ Never(t)
         \/ \E s \in Sites : Leave(t, s)
         \/ \E i \in Ids : Choose(t, i)
  PROVE  Kinds
<1>1. CASE CloseMenu(t) \/ Discard(t) \/ Never(t)
  BY <1>1, TabLooks DEF Kinds
<1>3. CASE CloseTab(t) \/ \E s \in Sites : Leave(t, s)
  BY <1>3, TabLeads DEF Kinds
<1>2. ASSUME NEW i \in Ids, Choose(t, i) PROVE \E k, j, b : Write(k, j, b)
  BY <1>2, ChooseWrites
<1> QED BY <1>1, <1>2, <1>3 DEF Kinds

LEMMA WorkSteps == ASSUME TypeInv, Work PROVE Kinds
<1>1. ASSUME NEW t \in Tabs,
             \/ \E p, f \in Sites : OpenMenu(t, p, f)
             \/ \E s \in Sites, u \in Names, p \in Pws : Submit(t, s, u, p)
             \/ \E s \in Sites : Generate(t, s) \/ \E i \in Ids : ChooseActive(t, s, i)
             \/ Save(t)
      PROVE  Kinds
  <2>1. CASE \E p, f \in Sites : OpenMenu(t, p, f)
    BY <2>1, OpenMenuLooks DEF Kinds
  <2>2. CASE \E s \in Sites, u \in Names, p \in Pws : Submit(t, s, u, p)
    BY <2>2, SubmitStep DEF Kinds
  <2>3. CASE Save(t)
    BY <2>3, SaveWrites DEF Kinds
  <2>4. ASSUME NEW s \in Sites, Generate(t, s) PROVE Kinds
    BY <2>4, GenerateWrites DEF Kinds
  <2>5. ASSUME NEW s \in Sites, NEW i \in Ids, ChooseActive(t, s, i) PROVE Kinds
    BY <2>5, ChooseActiveSends DEF Kinds
  <2> QED BY <1>1, <2>1, <2>2, <2>3, <2>4, <2>5
<1>3. ASSUME NEW i \in Ids, OpenForm(i) \/ Delete(i) PROVE Kinds
  <2>1. CASE OpenForm(i)
    BY <2>1, FormLooks DEF Kinds
  <2>2. CASE Delete(i)
    BY <2>2, DeleteWrites DEF Kinds
  <2> QED BY <1>3, <2>1, <2>2
<1>4. CASE \E p \in Pws, urls \in SUBSET Sites : SaveForm(p, urls)
  BY <1>4, EditWrites DEF Kinds
<1>5. ASSUME NEW u \in Names, NEW s \in Sites, AddEntry(u, {s}) PROVE Kinds
  <2>1. {s} \in SUBSET Sites
    OBVIOUS
  <2> QED BY <1>5, <2>1, AddWrites DEF Kinds
<1>6. CASE \E u \in Names, p \in Pws, s \in Sites, newer \in BOOLEAN : Import(u, p, s, newer)
  BY <1>6, ImportWrites DEF Kinds
<1>7. CASE \E i \in Ids, dies \in BOOLEAN : SyncPull(i, dies)
  BY <1>7, PullFacts DEF Kinds
<1>8. CASE StartUnlock
  BY <1>8, StartUnlockFacts DEF Kinds
<1> QED BY <1>1, <1>3, <1>4, <1>5, <1>6, <1>7, <1>8 DEF Work

LEMMA EveryStep == ASSUME TypeInv, [Next]_vars PROVE Kinds
<1>1. CASE UNCHANGED vars
  BY <1>1, StutterLooks DEF Kinds
<1>2. CASE Work
  BY <1>2, WorkSteps
<1>3. CASE \E t \in Tabs :
             \/ CloseTab(t) \/ CloseMenu(t) \/ Discard(t) \/ Never(t)
             \/ \E s \in Sites : Leave(t, s)
             \/ \E i \in Ids : Choose(t, i)
  BY <1>3, TabSteps
<1>4. CASE CancelForm
  BY <1>4, FormLooks DEF Kinds
<1>5. CASE Lock \/ Crash
  BY <1>5, LockFacts, CrashFacts DEF Kinds
<1>6. ASSUME NEW n \in 1 .. MaxTasks, n \in DOMAIN tasks,
             \/ Answered(n) \/ FinishUnlock(n) \/ LandWrite(n) \/ LandRotation(n) \/ LandSync(n)
             \/ FailSync(n) \/ Stored(n) \/ StoreFails(n)
      PROVE  Kinds
  BY <1>6, TaskSteps DEF Kinds
<1> QED BY <1>1, <1>2, <1>3, <1>4, <1>5, <1>6 DEF Next

-----------------------------------------------------------------------------
(* Every variable keeps its kind.                                          *)
LEMMA TypeAgain ==
  ASSUME locked' \in BOOLEAN, env' \in EnvMaps, disk' \in EnvMaps,
         plain' \in [Ids -> Bodies \cup {None}], Waiting(tasks', minted'),
         menu' \in [Tabs -> Menus \cup {None}], offer' \in [Tabs -> Offers \cup {None}],
         never' \in SUBSET Sites, form' = None \/ form' \in Forms,
         minted' \in 0 .. MaxIds, drawn' \in 0 .. MaxPws, jobs' \in 0 .. MaxJobs, log' \in Log,
         Upto(env', minted'), Upto(disk', minted'), Upto(plain', minted')
  PROVE  TypeInv'
<1>1. \A n \in DOMAIN tasks' : IsTask(tasks'[n])
  BY IsATask DEF Waiting, GoodTask
<1>2. \A i \in Ids : env'[i] # None => i <= minted'
  BY DEF Upto, EnvMaps
<1>3. Len(tasks') <= MaxTasks
  BY DEF Waiting
<1>4. TypeOK'
  BY <1>1, <1>2, <1>3 DEF TypeOK
<1> QED BY <1>4 DEF TypeInv

LEMMA WaitFacts ==
  ASSUME TypeInv
  PROVE  /\ Waiting(tasks, minted) /\ minted \in Nat /\ tasks \in Seq(TaskRecs)
         /\ Len(tasks) <= MaxTasks /\ Len(tasks) \in Nat /\ DOMAIN tasks = 1 .. Len(tasks)
         /\ Upto(env, minted) /\ Upto(disk, minted) /\ Upto(plain, minted) /\ locked \in BOOLEAN
<1>1. /\ Waiting(tasks, minted) /\ minted \in 0 .. MaxIds /\ locked \in BOOLEAN
      /\ Upto(env, minted) /\ Upto(disk, minted) /\ Upto(plain, minted)
  BY DEF TypeInv, TypeOK
<1>2. tasks \in Seq(TaskRecs) /\ Len(tasks) <= MaxTasks
  BY <1>1 DEF Waiting
<1> QED BY <1>1, <1>2, LenProperties

LEMMA StorageWaits ==
  ASSUME TypeInv, NEW n \in DOMAIN tasks, NEW m \in EnvMaps, Upto(m, minted),
         Toward(n, m), tasks[n].does \notin {"open", "send"}
  PROVE  Waiting(tasks', minted)
<1>1. PICK s : Storing(s, tasks[n], m) /\ tasks' = Append(RemoveAt(tasks, n), s)
  BY DEF Toward
<1>2. tasks[n] \in TaskRecs /\ Shape(tasks[n]) /\ TaskUpto(tasks[n], minted)
  BY TaskParts
<1>3. Carries(s)
  BY <1>1, <1>2 DEF Storing, Shape, Carries
<1>4. Shape(s)
  BY <1>1, <1>3 DEF Storing, Shape
<1>5. TaskUpto(s, minted)
  BY <1>1, <1>2, MapFacts DEF Storing, TaskUpto
<1>6. GoodTask(s, minted)
  BY <1>1, <1>4, <1>5 DEF GoodTask, Storing
<1>7. Waiting(RemoveAt(tasks, n), minted) /\ Len(RemoveAt(tasks, n)) < MaxTasks /\ minted \in Nat
  BY WaitFacts, WaitingLeaves
<1>8. minted <= minted
  BY <1>7
<1> QED BY <1>1, <1>6, <1>7, <1>8, WaitingJoins

LEMMA LeavingWaits ==
  ASSUME TypeInv, NEW n \in DOMAIN tasks PROVE Waiting(RemoveAt(tasks, n), minted)
  BY WaitFacts, WaitingLeaves

LEMMA RoomWaits ==
  ASSUME TypeInv, NEW k, NEW u \in Nat, minted <= u, GoodTask(k, u), Room(k)
  PROVE  Waiting(tasks', u)
  BY WaitFacts, WaitingJoins DEF Room

LEMMA WriteTypes ==
  ASSUME TypeInv, NEW k, NEW i, NEW b, Begins(k, i, b) PROVE TypeInv'
<1>1. /\ minted' \in 0 .. MaxIds /\ minted' \in Nat /\ minted <= minted' /\ i <= minted'
      /\ k.does = "rotate" => k.other <= minted'
  <2>1. i \in Ids /\ (k.does = "rotate" => k.other \in Ids /\ plain[k.other] # None)
    BY DEF Begins, SealedTask, Carries
  <2>2. minted \in 0 .. MaxIds
    BY TypeParts
  <2>3. CASE minted' = minted /\ plain[i] # None
    BY <2>1, <2>2, <2>3, TypeParts DEF Ids
  <2>4. CASE minted' = minted + 1 /\ i = minted + 1
    <3>1. k.does = "rotate" => k.other <= minted
      BY <2>1, TypeParts
    <3> QED BY <2>1, <2>2, <2>4, <3>1 DEF Ids
  <2> QED BY <2>3, <2>4 DEF Begins
<1>2. GoodTask(Writing(k, i, b), minted')
  BY <1>1, WritingIsGood, TypeParts DEF Begins, SealedTask
<1>3. Waiting(tasks', minted')
  BY <1>1, <1>2, RoomWaits DEF Begins
<1>4. /\ env' = env /\ disk' = disk /\ plain' = plain /\ locked' = locked /\ menu' = menu
      /\ never' = never /\ offer' = offer /\ form' \in {form, None} /\ log' \in Log
      /\ drawn' \in 0 .. MaxPws /\ jobs' \in 0 .. MaxJobs
  BY DEF Begins, vault, SameLog
<1>5. Upto(env, minted') /\ Upto(disk, minted') /\ Upto(plain, minted')
  BY <1>1, WaitFacts, TypeParts, UptoMore, MapFacts
<1> QED BY <1>1, <1>3, <1>4, <1>5, TypeParts, WaitFacts, LookParts, TypeAgain

LEMMA LookTypes == ASSUME TypeInv, Looks \/ Offered PROVE TypeInv'
<1>1. CASE Looks
  BY <1>1, TypeParts, WaitFacts, LookParts, TypeAgain DEF Looks, vault
<1>2. CASE Offered
  BY <1>2, TypeParts, WaitFacts, LookParts, TypeAgain DEF Offered, vault, SameLog
<1> QED BY <1>1, <1>2

LEMMA PullTypes == ASSUME TypeInv, NEW k, NEW i, Pulled(k, i) PROVE TypeInv'
<1>1. /\ k \in TaskRecs /\ k.does = "sync" /\ k.there = None /\ k.seen = env
      /\ k.new \in EnvMaps /\ Upto(k.new, minted) /\ (env' = env \/ env' = k.new)
      /\ log' \in Log /\ Room(k) /\ k.at # "page"
      /\ UNCHANGED <<locked, plain, disk, page, minted>>
      /\ drawn' \in 0 .. MaxPws /\ jobs' \in 0 .. MaxJobs
  BY DEF Pulled, Unchanged
<1>2. Shape(k)
  BY <1>1, TypeParts DEF Shape, Carries, Writers, Fillers
<1>3. GoodTask(k, minted)
  BY <1>1, <1>2, WaitFacts DEF GoodTask, TaskUpto
<1>4. Waiting(tasks', minted)
  <2>1. minted \in Nat /\ minted <= minted
    BY WaitFacts
  <2> QED BY <1>1, <1>3, <2>1, RoomWaits
<1> QED BY <1>1, <1>4, TypeParts, WaitFacts, LookParts, TypeAgain DEF page

LEMMA OpeningTypes == ASSUME TypeInv, NEW k, Opening(k) PROVE TypeInv'
<1>1. /\ k \in TaskRecs /\ k.does = "open" /\ k.at = "seal" /\ k.there = None
      /\ k.seen = env /\ k.new = <<>> /\ Room(k)
  BY DEF Opening
<1>2. GoodTask(k, minted)
  BY <1>1, TypeParts, WaitFacts, MapFacts DEF GoodTask, Shape, Carries, Writers, Fillers, TaskUpto
<1>3. Waiting(tasks', minted)
  <2>1. minted \in Nat /\ minted <= minted
    BY WaitFacts
  <2> QED BY <1>1, <1>2, <2>1, RoomWaits
<1> QED BY <1>3, TypeParts, WaitFacts, LookParts, TypeAgain DEF Opening, vault, page

LEMMA ClosedTypes == ASSUME TypeInv, Locking \/ Crashing PROVE TypeInv'
<1> DEFINE blank == [i \in Ids |-> None]
<1>1. blank \in [Ids -> Bodies \cup {None}] /\ Upto(blank, minted)
  BY DEF Upto
<1>2. [t \in Tabs |-> None] \in [Tabs -> Menus \cup {None}] /\ [t \in Tabs |-> None] \in [Tabs -> Offers \cup {None}]
  OBVIOUS
<1>3. Waiting(<<>>, minted)
  <2>1. <<>> \in Seq(TaskRecs) /\ Len(<<>>) = 0 /\ DOMAIN <<>> = {}
    BY EmptySeq, EmptyMap
  <2>2. 0 <= MaxTasks
    OBVIOUS
  <2> QED BY <2>1, <2>2 DEF Waiting
<1> HIDE DEF blank
<1>4. CASE Locking
  <2>1. /\ locked' \in BOOLEAN /\ env' = env /\ disk' = disk /\ tasks' = tasks /\ never' = never
        /\ form' = form /\ minted' = minted /\ drawn' = drawn /\ jobs' = jobs /\ log' \in Log
        /\ plain' = blank /\ menu' = [t \in Tabs |-> None] /\ offer' = [t \in Tabs |-> None]
    BY <1>4 DEF Locking, count, blank
  <2> QED BY <1>1, <1>2, <2>1, TypeParts, WaitFacts, LookParts, TypeAgain
<1>5. CASE Crashing
  <2>1. /\ locked' = TRUE /\ env' = disk /\ disk' = disk /\ tasks' = <<>> /\ never' = never
        /\ form' = None /\ minted' = minted /\ drawn' = drawn /\ jobs' = jobs /\ log' \in Log
        /\ plain' = blank /\ menu' = [t \in Tabs |-> None] /\ offer' = [t \in Tabs |-> None]
    BY <1>5 DEF Crashing, count, blank
  <2> QED BY <1>1, <1>2, <1>3, <2>1, TypeParts, WaitFacts, LookParts, TypeAgain
<1> QED BY <1>4, <1>5

LEMMA LandedUpto ==
  ASSUME TypeInv, NEW n \in DOMAIN tasks, NEW i, Landed(tasks[n], i)
  PROVE  Upto(env', minted) /\ Upto(plain', minted) /\ env' \in EnvMaps /\ i <= minted
<1>1. i \in DOMAIN tasks[n].new /\ tasks[n].new[i] # None
  BY DEF Landed, WritesOne
<1>2. i <= minted
  BY <1>1, TaskParts DEF TaskUpto, Upto
<1>3. DOMAIN env' = Ids /\ DOMAIN plain' = Ids /\ env' \in EnvMaps
  BY DEF Landed, EnvMaps
<1>4. \A j \in Ids \ {i} : env'[j] = env[j] /\ plain'[j] = plain[j]
  BY DEF Landed
<1> QED BY <1>2, <1>3, <1>4, TypeParts DEF Upto

LEMMA LeadTypes == ASSUME TypeInv, Leads PROVE TypeInv'
<1>1. /\ tasks' \in Seq(TaskRecs) /\ Len(tasks') <= MaxTasks /\ DOMAIN tasks' = DOMAIN tasks
      /\ UNCHANGED <<vault, disk, never, form, count, log>>
  BY WaitFacts DEF Leads
<1>2. ASSUME NEW n \in DOMAIN tasks PROVE GoodTask(tasks'[n], minted)
  <2>1. Alike(tasks'[n], tasks[n])
    BY DEF Leads
  <2>2. tasks[n] \in TaskRecs /\ Shape(tasks[n]) /\ TaskUpto(tasks[n], minted)
    BY TaskParts
  <2>3. Shape(tasks'[n])
    BY <2>1, <2>2 DEF Alike, Shape, Carries, WritesOne
  <2>4. TaskUpto(tasks'[n], minted)
    BY <2>1, <2>2 DEF Alike, TaskUpto
  <2> QED BY <2>1, <2>3, <2>4 DEF GoodTask, Alike
<1>3. Waiting(tasks', minted)
  BY <1>1, <1>2 DEF Waiting
<1> QED BY <1>1, <1>3, TypeParts, WaitFacts, LookParts, TypeAgain DEF Leads, vault, count

LEMMA SendTypes == ASSUME TypeInv, NEW k, Sends(k) PROVE TypeInv'
<1>1. /\ k \in TaskRecs /\ k.does = "send" /\ k.at = "page" /\ k.seen = <<>> /\ k.new = <<>>
      /\ Carries(k) /\ plain[k.other] # None /\ Room(k)
  BY DEF Sends
<1>2. k.other \in Ids /\ k.other <= minted
  BY <1>1, TypeParts DEF Carries
<1>3. GoodTask(k, minted)
  BY <1>1, <1>2, MapFacts DEF GoodTask, Shape, Writers, TaskUpto
<1>4. Waiting(tasks', minted)
  <2>1. minted \in Nat /\ minted <= minted
    BY WaitFacts
  <2> QED BY <1>1, <1>3, <2>1, RoomWaits
<1> QED BY <1>4, TypeParts, WaitFacts, LookParts, TypeAgain DEF Sends, vault, page

LEMMA AtTaskTypes == ASSUME TypeInv, NEW n \in DOMAIN tasks, AtTask(n) PROVE TypeInv'
<1> DEFINE k == tasks[n]
<1>1. k \in TaskRecs /\ Shape(k) /\ TaskUpto(k, minted)
  BY TaskParts
<1>2. CASE Opened(n, k)
  <2>1. Waiting(tasks', minted)
    BY <1>2, LeavingWaits DEF Opened
  <2>2. Upto(plain', minted)
    <3>1. \A i \in Ids : (env[i] # None => i <= minted) /\ (k.seen[i] # None => i <= minted)
      BY <1>1, <1>2, TypeParts DEF TaskUpto, Upto, Opened, EnvMaps
    <3> QED BY <1>2, <3>1 DEF Opened, Upto, LiveOf
  <2> QED BY <1>2, <2>1, <2>2, TypeParts, WaitFacts, LookParts, TypeAgain DEF Opened, SameGone, page, count
<1>3. ASSUME NEW i, Landed(k, i) PROVE
        /\ Upto(env', minted) /\ Upto(plain', minted) /\ env' \in EnvMaps
        /\ plain' \in [Ids -> Bodies \cup {None}] /\ log' \in Log /\ k.does \notin {"open", "send"}
        /\ UNCHANGED <<locked, disk, page, count>>
  BY <1>3, LandedUpto DEF Landed, Ghost, Writers
<1>4. CASE Toward(n, env') /\ \E i : Landed(k, i)
  <2>1. /\ Upto(env', minted) /\ Upto(plain', minted) /\ env' \in EnvMaps
        /\ plain' \in [Ids -> Bodies \cup {None}] /\ log' \in Log /\ k.does \notin {"open", "send"}
        /\ UNCHANGED <<locked, disk, page, count>>
    BY <1>3, <1>4
  <2>2. Waiting(tasks', minted)
    BY <1>4, <2>1, StorageWaits
  <2> QED BY <2>1, <2>2, TypeParts, WaitFacts, LookParts, TypeAgain DEF page, count
<1>5. CASE Onward(n, k) /\ k.does = "rotate" /\ \E i : Landed(k, i)
  <2>1. /\ Upto(env', minted) /\ Upto(plain', minted) /\ env' \in EnvMaps
        /\ plain' \in [Ids -> Bodies \cup {None}] /\ log' \in Log /\ k.does \notin {"open", "send"}
        /\ UNCHANGED <<locked, disk, page, count>>
    BY <1>3, <1>5
  <2>2. Waiting(tasks', minted)
    <3>1. CASE tasks' = RemoveAt(tasks, n)
      BY <3>1, LeavingWaits
    <3>2. ASSUME NEW w, NEW d, SealedTask(d), d.does = "complete", k.other \in Ids,
                 WritesAs(w, d, k.other, None, env[k.other]), tasks' = [tasks EXCEPT ![n] = w],
                 k.does = "rotate"
          PROVE  Waiting(tasks', minted)
      <4>1. k.other <= minted
        BY <1>1, <3>2 DEF TaskUpto
      <4>2. Shape(w)
        BY <3>2 DEF WritesAs, SealedTask, Shape, Carries, Writers, Fillers
      <4>3. TaskUpto(w, minted)
        BY <3>2, <4>1 DEF WritesAs, TaskUpto, Upto
      <4>4. GoodTask(w, minted)
        BY <3>2, <4>2, <4>3 DEF GoodTask, WritesAs
      <4>5. /\ tasks' \in Seq(TaskRecs) /\ Len(tasks') = Len(tasks) /\ DOMAIN tasks' = DOMAIN tasks
            /\ \A m \in DOMAIN tasks' : tasks'[m] = tasks[m] \/ tasks'[m] = w
        <5>1. tasks \in Seq(TaskRecs) /\ w \in TaskRecs
          BY <3>2, WaitFacts DEF WritesAs
        <5> QED BY <3>2, <5>1, ExceptSeq
      <4> QED BY <4>4, <4>5, WaitFacts DEF Waiting
    <3>3. k.does = "rotate"
      BY <1>5
    <3> QED BY <1>5, <3>1, <3>2, <3>3 DEF Onward
  <2> QED BY <2>1, <2>2, TypeParts, WaitFacts, LookParts, TypeAgain DEF page, count
<1>6. CASE Toward(n, env') /\ Synced(k)
  <2>1. Upto(env', minted) /\ Upto(plain', minted)
    <3>1. \A i \in Ids : /\ env[i] # None => i <= minted
                         /\ k.seen[i] # None => i <= minted
                         /\ k.new[i] # None => i <= minted
      BY <1>1, <1>6, TypeParts DEF TaskUpto, Upto, Synced, EnvMaps
    <3>2. DOMAIN env' = Ids /\ DOMAIN plain' = Ids
      BY <1>6 DEF Synced, EnvMaps
    <3>3. ASSUME NEW i \in Ids
          PROVE  (env'[i] # None => i <= minted) /\ (plain'[i] # None => i <= minted)
      BY <1>6, <3>1 DEF Synced, LiveOf
    <3> QED BY <3>2, <3>3 DEF Upto
  <2>2. Waiting(tasks', minted)
    BY <1>6, <2>1, StorageWaits DEF Synced
  <2> QED BY <1>6, <2>1, <2>2, TypeParts, WaitFacts, LookParts, TypeAgain DEF Synced, Ghost, page, count
<1>7. CASE Settled(n, k)
  <2>1. Waiting(tasks', minted)
    BY <1>7, LeavingWaits DEF Settled
  <2>2. disk' \in EnvMaps /\ Upto(disk', minted)
    <3>1. k.at = "store"
      BY <1>7 DEF Settled, FirstStore
    <3>2. k.new \in EnvMaps /\ Upto(k.new, minted)
      BY <1>1, <3>1 DEF Shape, TaskUpto
    <3> QED BY <1>7, <3>2, TypeParts, WaitFacts DEF Settled
  <2> QED BY <1>7, <2>1, <2>2, TypeParts, WaitFacts, LookParts, TypeAgain DEF Settled, SameGone, vault, count
<1>8. CASE Failed(n)
  <2>1. Waiting(tasks', minted)
    BY <1>8, LeavingWaits DEF Failed
  <2> QED BY <1>8, <2>1, TypeParts, WaitFacts, LookParts, TypeAgain DEF Failed, vault, page, count
<1>9. CASE Touches(n, k)
  <2>1. Waiting(tasks', minted)
    <3>1. PICK w, d : /\ SealedTask(d) /\ d.does = "touch"
                      /\ WritesAs(w, d, k.other, plain[k.other], env[k.other])
                      /\ tasks' = [tasks EXCEPT ![n] = w]
      BY <1>9 DEF Touches
    <3>2. k.other \in Ids /\ k.other <= minted
      BY <1>9, TypeParts DEF Touches
    <3>3. Shape(w)
      BY <3>1, <3>2 DEF WritesAs, SealedTask, Shape, Carries, Writers, Fillers
    <3>4. TaskUpto(w, minted)
      BY <3>1, <3>2 DEF WritesAs, TaskUpto, Upto
    <3>5. GoodTask(w, minted)
      BY <3>1, <3>3, <3>4 DEF GoodTask, WritesAs
    <3>6. /\ tasks' \in Seq(TaskRecs) /\ Len(tasks') = Len(tasks) /\ DOMAIN tasks' = DOMAIN tasks
          /\ \A m \in DOMAIN tasks' : tasks'[m] = tasks[m] \/ tasks'[m] = w
      <4>1. tasks \in Seq(TaskRecs) /\ w \in TaskRecs
        BY <3>1, WaitFacts DEF WritesAs
      <4> QED BY <3>1, <4>1, ExceptSeq
    <3> QED BY <3>5, <3>6, WaitFacts DEF Waiting
  <2> QED BY <1>9, <2>1, TypeParts, WaitFacts, LookParts, TypeAgain DEF Touches, vault, page, count
<1> QED BY <1>2, <1>4, <1>5, <1>6, <1>7, <1>8, <1>9 DEF AtTask

LEMMA TypeStep == ASSUME TypeInv, [Next]_vars PROVE TypeInv'
<1>1. Kinds
  BY EveryStep
<1>2. CASE \E k, i, b : Write(k, i, b)
  BY <1>2, WriteTypes DEF Write
<1>3. CASE \E n \in DOMAIN tasks : AtTask(n)
  BY <1>3, AtTaskTypes
<1> QED BY <1>1, <1>2, <1>3, LookTypes, LeadTypes, SendTypes, PullTypes, OpeningTypes, ClosedTypes DEF Kinds

(* The vault as it starts: one record at most, shown and stored.           *)
Starts ==
  /\ ~locked /\ tasks = <<>> /\ disk = env /\ plain = AllLive(env)
  /\ DOMAIN tasks = {} /\ env \in EnvMaps
  /\ \A i \in Ids : env[i] # None => i = 1 /\ env[i].body \in Bodies /\ env[i].body.password = drawn
  /\ \A t \in Tabs : menu[t] = None /\ offer[t] = None
  /\ log \in Log /\ log.owed = Values(env) /\ log.gone = {}
  /\ log.over = {} /\ log.torn = {} /\ ~log.under /\ ~log.late /\ log.twice = {}
  /\ \A p \in Pws : p = drawn => FiledIn(log)[p] = env[1].body.urls

LEMMA InitTypes == ASSUME Init PROVE TypeInv /\ Starts
<1>1. PICK b \in Start \cup {None} :
       /\ env = [i \in Ids |-> IF i = 1 /\ b # None THEN [rev |-> 1, body |-> b] ELSE None]
       /\ minted = IF b = None THEN 0 ELSE 1
       /\ drawn  = IF b = None THEN 0 ELSE b.password
  BY DEF Init
<1>2. /\ locked = FALSE /\ plain = AllLive(env) /\ disk = env
      /\ tasks = <<>> /\ jobs = 0
      /\ menu = [t \in Tabs |-> None] /\ offer = [t \in Tabs |-> None]
      /\ never = {} /\ form = None
  BY DEF Init
<1> DEFINE h == [p \in Pws |-> IF p = drawn THEN env[1].body.urls ELSE {}]
           e == [p \in Pws |-> {}]
           o == Values(env)
<1>3. log = [home |-> h, given |-> e, owed |-> o, gone |-> {}, over |-> {}, torn |-> {},
             under |-> FALSE, late |-> FALSE, twice |-> {}]
  BY DEF Init
<1>4. b # None => b \in Bodies /\ [rev |-> 1, body |-> b] \in Envelopes /\ b.password \in Pws
  BY BodyParts DEF Envelopes
<1>5. 1 \in Ids
  BY DEF Ids
<1>6. env \in EnvMaps /\ \A i \in Ids : env[i] # None => i = 1 /\ b # None /\ env[i].body = b
  BY <1>1, <1>4 DEF EnvMaps
<1>7. plain \in [Ids -> Bodies \cup {None}] /\ \A i \in Ids : plain[i] = LiveOf(env[i])
  <2>1. DOMAIN env = Ids
    BY <1>6 DEF EnvMaps
  <2> QED BY <1>2, <1>6, <2>1, LiveTyped DEF AllLive
<1>8. o \in SUBSET Pws
  BY <1>6, ValuesTyped
<1>9. h \in [Pws -> SUBSET Sites]
  <2>1. ASSUME NEW p \in Pws, p = drawn PROVE env[1].body.urls \in SUBSET Sites
    <3>1. drawn # 0
      BY <2>1 DEF Pws
    <3>2. b # None
      BY <1>1, <3>1
    <3> QED BY <1>1, <1>4, <1>5, <3>2, BodyParts
  <2> QED BY <2>1
<1>10. \A p \in Pws : p = drawn => h[p] = env[1].body.urls
  OBVIOUS
<1>20. e \in [Pws -> SUBSET Sites] /\ \A p \in Pws : h[p] \cup e[p] = h[p]
  OBVIOUS
<1> HIDE DEF h, o, e
<1>11. /\ log \in Log /\ log.home = h /\ log.given = e /\ log.owed = o /\ log.gone = {}
       /\ log.over = {} /\ log.torn = {} /\ ~log.under /\ ~log.late /\ log.twice = {}
  BY <1>3, <1>8, <1>9, <1>20 DEF Log
<1>21. \A p \in Pws : p = drawn => FiledIn(log)[p] = env[1].body.urls
  BY <1>10, <1>11, <1>20 DEF FiledIn
<1>12. minted \in 0 .. MaxIds /\ drawn \in 0 .. MaxPws /\ jobs \in 0 .. MaxJobs
  BY <1>1, <1>2, <1>4 DEF Pws
<1>13. Waiting(tasks, minted) /\ DOMAIN tasks = {} /\ Len(tasks) <= MaxTasks
  <2>1. <<>> \in Seq(TaskRecs) /\ Len(<<>>) = 0 /\ DOMAIN <<>> = {}
    BY EmptySeq, EmptyMap
  <2> QED BY <1>2, <2>1 DEF Waiting
<1>14. \A i \in Ids : (env[i] # None => i <= minted) /\ (plain[i] # None => i <= minted)
  BY <1>1, <1>6, <1>7 DEF LiveOf
<1>15. Upto(env, minted) /\ Upto(disk, minted) /\ Upto(plain, minted)
  BY <1>2, <1>6, <1>7, <1>14 DEF Upto, EnvMaps
<1>16. menu \in [Tabs -> Menus \cup {None}] /\ offer \in [Tabs -> Offers \cup {None}]
  BY <1>2
<1>17. TypeOK
  BY <1>2, <1>6, <1>7, <1>11, <1>12, <1>13, <1>14, <1>16 DEF TypeOK
<1>18. TypeInv
  BY <1>13, <1>15, <1>17 DEF TypeInv
<1>19. Starts
  BY <1>1, <1>2, <1>4, <1>6, <1>11, <1>13, <1>16, <1>21 DEF Starts, o
<1> QED BY <1>18, <1>19

(* Every variable keeps its kind, and so does all that a handler took with *)
(* it over an await.                                                       *)
THEOREM TypeCorrect == Spec => []TypeOK
<1>1. Init => TypeInv
  BY InitTypes
<1>2. TypeInv /\ [Next]_vars => TypeInv'
  BY TypeStep
<1>3. TypeInv => TypeOK
  BY DEF TypeInv
<1> QED BY <1>1, <1>2, <1>3, PTL DEF Spec

-----------------------------------------------------------------------------
(* A locked vault is blank.                                                *)
NoneSeals(ts) == \A m \in DOMAIN ts : ~Sealing(ts[m])
BlankInv == locked /\ ~log.under => NoneSeals(tasks) /\ Blank

LEMMA SealsJoin ==
  ASSUME TypeInv, NEW k \in TaskRecs, Room(k) PROVE
    /\ \A m \in DOMAIN tasks' : tasks'[m] = k \/ \E j \in DOMAIN tasks : tasks'[m] = tasks[j]
  BY WaitFacts, Joins DEF Room

LEMMA TasksLeave ==
  ASSUME TypeInv, NEW n \in DOMAIN tasks
  PROVE  \A m \in DOMAIN RemoveAt(tasks, n) :
           \E j \in DOMAIN tasks : j # n /\ RemoveAt(tasks, n)[m] = tasks[j]
<1>1. tasks \in Seq(TaskRecs) /\ n \in 1 .. Len(tasks) /\ DOMAIN tasks = 1 .. Len(tasks) /\ Len(tasks) \in Nat
  BY WaitFacts
<1> DEFINE r == RemoveAt(tasks, n)
<1>2. r \in Seq(TaskRecs) /\ Len(r) = Len(tasks) - 1
  BY ONLY <1>1, Leaves
<1>3. \A i \in 1 .. Len(tasks) - 1 : r[i] = IF i < n THEN tasks[i] ELSE tasks[i + 1]
  BY ONLY <1>1, RemoveAtFacts
<1> HIDE DEF r
<1>4. DOMAIN r = 1 .. Len(tasks) - 1
  BY <1>2, LenProperties
<1>5. ASSUME NEW m \in DOMAIN r PROVE \E j \in DOMAIN tasks : j # n /\ r[m] = tasks[j]
  <2>1. CASE m < n
    BY <1>1, <1>3, <1>4, <2>1
  <2>2. CASE ~(m < n)
    <3>1. m + 1 \in DOMAIN tasks /\ m + 1 # n /\ r[m] = tasks[m + 1]
      BY <1>1, <1>3, <1>4, <2>2
    <3> QED BY <3>1
  <2> QED BY <2>1, <2>2
<1> QED BY <1>5 DEF r

LEMMA TasksMove ==
  ASSUME TypeInv, NEW n \in DOMAIN tasks, NEW s \in TaskRecs, tasks' = Append(RemoveAt(tasks, n), s)
  PROVE  \A m \in DOMAIN tasks' :
           tasks'[m] = s \/ \E j \in DOMAIN tasks : j # n /\ tasks'[m] = tasks[j]
<1> DEFINE r == RemoveAt(tasks, n)
<1>1. r \in Seq(TaskRecs)
  BY WaitFacts, WaitingLeaves DEF Waiting
<1>2. \A m \in DOMAIN r : \E j \in DOMAIN tasks : j # n /\ r[m] = tasks[j]
  BY TasksLeave
<1> HIDE DEF r
<1>3. \A m \in DOMAIN Append(r, s) : Append(r, s)[m] = s \/ \E j \in DOMAIN r : Append(r, s)[m] = r[j]
  BY <1>1, Joins
<1>4. tasks' = Append(r, s)
  BY DEF r
<1> QED BY <1>2, <1>3, <1>4

LEMMA BlankStep == ASSUME TypeInv, BlankInv, [Next]_vars PROVE BlankInv'
<1>1. Kinds
  BY EveryStep
<1>2. CASE Looks
  BY <1>2 DEF Looks, vault, BlankInv, Blank
<1>3. CASE Offered
  BY <1>3 DEF Offered, vault, BlankInv
<1>10. CASE Leads
  <2>1. /\ DOMAIN tasks' = DOMAIN tasks /\ \A m \in DOMAIN tasks : Alike(tasks'[m], tasks[m])
        /\ UNCHANGED <<locked, plain, log>>
        /\ \A t \in Tabs : /\ menu'[t] = menu[t] \/ menu'[t] = None
                           /\ offer'[t] = offer[t] \/ offer'[t] = None
    BY <1>10 DEF Leads, vault
  <2>2. NoneSeals(tasks) => NoneSeals(tasks')
    BY <2>1 DEF NoneSeals, Alike, Sealing
  <2> QED BY <2>1, <2>2 DEF BlankInv, Blank
<1>11. ASSUME NEW k, Sends(k) PROVE ~locked'
  BY <1>11 DEF Sends, vault
<1>4. ASSUME NEW k, NEW i, NEW b, Write(k, i, b) PROVE ~locked'
  BY <1>4 DEF Write, Begins, vault
<1>5. ASSUME NEW k, NEW i, Pulled(k, i), locked', ~log'.under PROVE NoneSeals(tasks') /\ Blank'
  <2>1. k \in TaskRecs /\ k.at = "store" /\ Room(k) /\ locked /\ ~log.under
        /\ UNCHANGED <<plain, menu, offer>>
    BY <1>5 DEF Pulled, Unchanged, page
  <2>2. ~Sealing(k)
    BY <2>1 DEF Sealing
  <2> QED BY <2>1, <2>2, SealsJoin DEF BlankInv, Blank, NoneSeals
<1>6. ASSUME NEW k, Opening(k), ~log'.under PROVE NoneSeals(tasks') /\ Blank'
  <2>1. k \in TaskRecs /\ k.does = "open" /\ Room(k) /\ locked /\ ~log.under
        /\ UNCHANGED <<plain, menu, offer>>
    BY <1>6 DEF Opening, vault, page
  <2>2. ~Sealing(k)
    BY <2>1 DEF Sealing
  <2> QED BY <2>1, <2>2, SealsJoin DEF BlankInv, Blank, NoneSeals
<1>7. CASE Locking
  BY <1>7 DEF Locking, BlankInv, Blank, NoneSeals
<1>8. CASE Crashing
  BY <1>8, EmptyMap DEF Crashing, BlankInv, Blank, NoneSeals
<1>9. ASSUME NEW n \in DOMAIN tasks, AtTask(n), locked', ~log'.under PROVE NoneSeals(tasks') /\ Blank'
  <2>1. locked /\ ~log.under
    BY <1>9 DEF AtTask, Opened, Landed, Synced, Ghost, Settled, SameGone, vault, Failed, Touches
  <2>2. ~Sealing(tasks[n]) /\ Blank
    BY <2>1 DEF BlankInv, NoneSeals
  <2>3. Settled(n, tasks[n]) \/ Failed(n)
    BY <1>9, <2>1, <2>2 DEF AtTask, Opened, Landed, Synced, Touches
  <2>4. tasks' = RemoveAt(tasks, n) /\ Blank'
    BY <2>2, <2>3 DEF Settled, Failed, Blank, vault, page
  <2> QED BY <2>1, <2>4, TasksLeave DEF BlankInv, NoneSeals
<1> QED BY <1>1, <1>2, <1>3, <1>4, <1>5, <1>6, <1>7, <1>8, <1>9, <1>10, <1>11 DEF Kinds, BlankInv, Opening

(* A locked vault shows nothing and offers nothing, unless a write was     *)
(* under way when it was locked: nothing else that waits can bring a body, *)
(* a menu or an offer back (vault.js, lock()).                             *)
THEOREM LockedAndBlank == Spec => []LockedIsBlank
<1>1. Init => TypeInv /\ BlankInv
  BY InitTypes DEF Starts, BlankInv
<1>2. TypeInv /\ BlankInv /\ [Next]_vars => (TypeInv /\ BlankInv)'
  BY TypeStep, BlankStep
<1>3. BlankInv => LockedIsBlank
  BY DEF BlankInv, Blank, LockedIsBlank
<1> QED BY <1>1, <1>2, <1>3, PTL DEF Spec

-----------------------------------------------------------------------------
(* The two maps of an open vault.                                          *)
LEMMA AgreeStep == ASSUME TypeInv, MapsAgree, [Next]_vars PROVE MapsAgree'
<1>1. Kinds
  BY EveryStep
<1>2. CASE Looks
  BY <1>2 DEF Looks, vault, MapsAgree
<1>3. CASE Offered
  BY <1>3 DEF Offered, vault, MapsAgree, SameLog
<1>4. ASSUME NEW k, NEW i, NEW b, Write(k, i, b) PROVE MapsAgree'
  BY <1>4 DEF Write, Begins, vault, MapsAgree, SameLog
<1>5. ASSUME NEW k, NEW i, Pulled(k, i) PROVE MapsAgree'
  BY <1>5 DEF Pulled, Unchanged, MapsAgree
<1>6. ASSUME NEW k, Opening(k) PROVE MapsAgree'
  BY <1>6 DEF Opening, vault, MapsAgree
<1>9. ASSUME NEW k, Sends(k) PROVE MapsAgree'
  BY <1>9 DEF Sends, vault, MapsAgree
<1>10. CASE Leads
  BY <1>10 DEF Leads, vault, MapsAgree
<1>7. CASE Locking \/ Crashing
  BY <1>7 DEF Locking, Crashing, MapsAgree
<1>8. ASSUME NEW n \in DOMAIN tasks, AtTask(n), ~locked', ~log'.late, NEW j \in Ids \ log'.torn
      PROVE  plain'[j] = LiveOf(env'[j])
  <2> DEFINE k == tasks[n]
  <2>1. CASE Opened(n, k)
    BY <1>8, <2>1 DEF Opened
  <2>2. ASSUME NEW i, Landed(k, i) PROVE plain'[j] = LiveOf(env'[j])
    <3>1. ~locked /\ ~log.late /\ log'.torn = log.torn
      BY <1>8, <2>2 DEF Landed, Ghost
    <3>2. CASE j = i
      <4>1. k.new[i] \in Envelopes /\ k.new[i] # None
        BY <2>2 DEF Landed, WritesOne
      <4> QED BY <2>2, <3>2, <4>1 DEF Landed, LiveOf
    <3>3. CASE j # i
      BY <2>2, <3>1, <3>3 DEF Landed, MapsAgree
    <3> QED BY <3>2, <3>3
  <2>3. CASE Synced(k)
    BY <1>8, <2>3 DEF Synced
  <2>4. CASE Settled(n, k)
    BY <1>8, <2>4 DEF Settled, SameGone, vault, MapsAgree
  <2>5. CASE Failed(n)
    BY <1>8, <2>5 DEF Failed, vault, MapsAgree
  <2>6. CASE Touches(n, k)
    BY <1>8, <2>6 DEF Touches, vault, MapsAgree
  <2> QED BY <1>8, <2>1, <2>2, <2>3, <2>4, <2>5, <2>6 DEF AtTask
<1> QED BY <1>1, <1>2, <1>3, <1>4, <1>5, <1>6, <1>7, <1>8, <1>9, <1>10 DEF Kinds, MapsAgree

LEMMA StartsAgree == ASSUME Starts PROVE MapsAgree
<1>1. DOMAIN env = Ids
  BY DEF Starts, EnvMaps
<1> QED BY <1>1 DEF Starts, AllLive, MapsAgree

(* What is shown of an open vault is what its envelopes hold, whatever     *)
(* lands in between, save for the records a sync wrote over a write        *)
(* (vault.js: "both maps change together").                                *)
THEOREM BothMapsAgree == Spec => []MapsAgree
<1>1. Init => TypeInv /\ MapsAgree
  BY InitTypes, StartsAgree
<1>2. TypeInv /\ MapsAgree /\ [Next]_vars => (TypeInv /\ MapsAgree)'
  BY TypeStep, AgreeStep
<1> QED BY <1>1, <1>2, PTL DEF Spec

-----------------------------------------------------------------------------
(* Passwords stay where they belong: every body anywhere, shown, sealed,   *)
(* stored or on its way, stands for sites its password has to do with.     *)
MapHome(m, h) == \A i \in DOMAIN m : Homely(LiveOf(m[i]), h)
TaskHome(k, h) ==
  /\ MapHome(k.seen, h) /\ MapHome(k.new, h)
  /\ k.does \in Fillers => k.site \in h[k.val]
HomeInv ==
  /\ ShownAtHome
  /\ MapHome(env, FiledIn(log)) /\ MapHome(disk, FiledIn(log))
  /\ \A n \in DOMAIN tasks : TaskHome(tasks[n], FiledIn(log))

LEMMA SameFiled ==
  ASSUME log'.home = log.home, log'.given = log.given PROVE FiledIn(log') = FiledIn(log)
  BY DEF FiledIn

LEMMA HomesGrow ==
  ASSUME TypeInv, HomeInv, NEW h, \A p \in Pws : FiledIn(log)[p] \subseteq h[p]
  PROVE  /\ \A i \in Ids : Homely(plain[i], h)
         /\ \A t \in Tabs : HomelyOffer(offer[t], h)
         /\ MapHome(env, h) /\ MapHome(disk, h)
         /\ \A n \in DOMAIN tasks : TaskHome(tasks[n], h)
<1>1. \A b \in Bodies \cup {None} : Homely(b, FiledIn(log)) => Homely(b, h)
  BY BodyParts DEF Homely
<1>2. \A m \in Maps : MapHome(m, FiledIn(log)) => MapHome(m, h)
  <2>1. ASSUME NEW m \in Maps, NEW i \in DOMAIN m PROVE LiveOf(m[i]) \in Bodies \cup {None}
    BY MapFacts DEF LiveOf, Envelopes
  <2> QED BY <1>1, <2>1 DEF MapHome
<1>3. \A i \in Ids : Homely(plain[i], h)
  BY <1>1, TypeParts DEF HomeInv, ShownAtHome
<1>4. \A t \in Tabs : HomelyOffer(offer[t], h)
  <2>1. \A t \in Tabs : offer[t] = None \/ offer[t].password \in Pws
    BY LookParts DEF Offers
  <2> QED BY <2>1 DEF HomeInv, ShownAtHome, HomelyOffer
<1>5. MapHome(env, h) /\ MapHome(disk, h)
  BY <1>2, TypeParts, MapFacts DEF HomeInv
<1>6. ASSUME NEW n \in DOMAIN tasks PROVE TaskHome(tasks[n], h)
  <2>1. tasks[n].seen \in Maps /\ tasks[n].new \in Maps /\ Carries(tasks[n])
    BY TaskParts DEF Shape
  <2>2. TaskHome(tasks[n], FiledIn(log))
    BY DEF HomeInv
  <2>3. tasks[n].does \in Fillers => tasks[n].site \in h[tasks[n].val]
    BY <2>1, <2>2 DEF TaskHome, Carries, Fillers
  <2> QED BY <1>2, <2>1, <2>2, <2>3 DEF TaskHome
<1> QED BY <1>3, <1>4, <1>5, <1>6

LEMMA HomeWrite ==
  ASSUME TypeInv, HomeInv, NEW k, NEW i, NEW b, Write(k, i, b) PROVE HomeInv'
<1> DEFINE w == Writing(k, i, b)
           h == FiledIn(log')
<1>1. /\ k \in TaskRecs /\ i \in Ids /\ b \in Bodies \cup {None} /\ Room(w)
      /\ env' = env /\ plain' = plain /\ disk' = disk /\ offer' = offer
      /\ \A p \in Pws : FiledIn(log)[p] \subseteq h[p]
  BY DEF Write, Begins, SealedTask, vault, SameLog
<1>2. /\ Homely(b, h) /\ (k.does \in Fillers => k.site \in h[k.val])
  BY DEF Write, StaysNear, HomeInv
<1>3. WritesAs(w, k, i, b, env[i])
  BY <1>1, WritingFacts, TypeParts
<1> HIDE DEF w, h
<1>4. /\ \A j \in Ids : Homely(plain[j], h)
      /\ \A t \in Tabs : HomelyOffer(offer[t], h)
      /\ MapHome(env, h) /\ MapHome(disk, h)
      /\ \A n \in DOMAIN tasks : TaskHome(tasks[n], h)
  BY <1>1, HomesGrow
<1>5. TaskHome(w, h)
  <2>1. DOMAIN env = Ids
    BY TypeParts DEF EnvMaps
  <2>2. MapHome(w.seen, h)
    BY <1>1, <1>3, <1>4, <2>1 DEF WritesAs, MapHome
  <2>3. w.new[i] # None
    BY <1>3 DEF WritesAs
  <2>4. MapHome(w.new, h)
    BY <1>2, <1>3, <2>3 DEF WritesAs, MapHome, LiveOf
  <2> QED BY <1>2, <1>3, <2>2, <2>4 DEF TaskHome, WritesAs
<1>6. \A n \in DOMAIN tasks' : TaskHome(tasks'[n], h)
  <2>1. w \in TaskRecs
    BY <1>3 DEF WritesAs
  <2> QED BY <1>1, <1>4, <1>5, <2>1, SealsJoin
<1> QED BY <1>1, <1>4, <1>6 DEF HomeInv, ShownAtHome, h

LEMMA HomePull ==
  ASSUME TypeInv, HomeInv, NEW k, NEW i, Pulled(k, i) PROVE HomeInv'
<1> DEFINE h == FiledIn(log')
<1>1. /\ k \in TaskRecs /\ k.does = "sync" /\ Room(k) /\ k.seen = env /\ k.new \in EnvMaps
      /\ plain' = plain /\ disk' = disk /\ offer' = offer
      /\ (env' = env \/ env' = k.new) /\ i \in Ids
      /\ \A p \in Pws : FiledIn(log)[p] \subseteq h[p]
  BY DEF Pulled, Unchanged, page
<1>2. /\ \A j \in Ids \ {i} : k.new[j] = env[j]
      /\ k.new[i] \in Envelopes
      /\ k.new[i].body # None =>
           \E p \in Pws : IsPatch(k.new[i].body, env[i].body, p) /\ env[i].body.urls \subseteq h[p]
  BY DEF Pulled
<1> HIDE DEF h
<1>3. /\ \A j \in Ids : Homely(plain[j], h)
      /\ \A t \in Tabs : HomelyOffer(offer[t], h)
      /\ MapHome(env, h) /\ MapHome(disk, h)
      /\ \A n \in DOMAIN tasks : TaskHome(tasks[n], h)
  BY <1>1, HomesGrow
<1>4. MapHome(k.new, h)
  <2>1. DOMAIN k.new = Ids /\ DOMAIN env = Ids
    BY <1>1, TypeParts DEF EnvMaps
  <2>2. Homely(LiveOf(k.new[i]), h)
    BY <1>2 DEF LiveOf, Homely, IsPatch
  <2> QED BY <1>2, <1>3, <2>1, <2>2 DEF MapHome
<1>5. TaskHome(k, h)
  BY <1>1, <1>3, <1>4 DEF TaskHome, Fillers
<1>6. \A n \in DOMAIN tasks' : TaskHome(tasks'[n], h)
  BY <1>1, <1>3, <1>5, SealsJoin
<1> QED BY <1>1, <1>3, <1>4, <1>6 DEF HomeInv, ShownAtHome, h

LEMMA HomeAtTask ==
  ASSUME TypeInv, HomeInv, NEW n \in DOMAIN tasks, AtTask(n) PROVE HomeInv'
<1> DEFINE k == tasks[n]
           h == FiledIn(log)
<1>1. k \in TaskRecs /\ TaskHome(k, h) /\ log \in Log /\ DOMAIN env = Ids /\ env \in EnvMaps
  BY TaskParts, TypeParts DEF HomeInv, EnvMaps
<1>2. /\ \A i \in Ids : Homely(plain[i], h) /\ Homely(LiveOf(env[i]), h)
      /\ \A t \in Tabs : HomelyOffer(offer[t], h)
      /\ \A m \in DOMAIN tasks : TaskHome(tasks[m], h)
  BY <1>1 DEF HomeInv, ShownAtHome, MapHome
<1>3. Homely(None, h) /\ HomelyOffer(None, h)
  BY DEF Homely, HomelyOffer
<1>4. CASE Opened(n, k)
  <2>1. \A i \in Ids : Homely(plain'[i], h)
    <3>1. \A i \in Ids : Homely(LiveOf(k.seen[i]), h)
      BY <1>1, <1>4 DEF TaskHome, MapHome, Opened, EnvMaps
    <3> QED BY <1>2, <1>4, <3>1 DEF Opened
  <2>2. \A m \in DOMAIN tasks' : TaskHome(tasks'[m], h)
    BY <1>2, <1>4, TasksLeave DEF Opened
  <2>3. /\ env' = env /\ disk' = disk /\ offer' = offer /\ FiledIn(log') = h
    BY <1>4, SameFiled DEF Opened, SameGone, page
  <2> QED BY <1>2, <2>1, <2>2, <2>3 DEF HomeInv, ShownAtHome
<1>5. ASSUME NEW i, Landed(k, i)
      PROVE  /\ MapHome(env', h) /\ \A j \in Ids : Homely(plain'[j], h)
             /\ disk' = disk /\ offer' = offer /\ FiledIn(log') = h
             /\ env' \in EnvMaps
  <2>1. i \in DOMAIN k.new /\ k.new[i] # None /\ i \in Ids /\ env' \in EnvMaps
    BY <1>5 DEF Landed, WritesOne
  <2>2. Homely(k.new[i].body, h)
    BY <1>1, <2>1 DEF TaskHome, MapHome, LiveOf
  <2>3. \A j \in Ids : Homely(plain'[j], h)
    BY <1>2, <1>5, <2>2 DEF Landed
  <2>4. ASSUME NEW j \in DOMAIN env' PROVE Homely(LiveOf(env'[j]), h)
    <3>1. j \in Ids
      BY <2>1 DEF EnvMaps
    <3>2. CASE j = i
      BY <1>5, <2>1, <2>2, <3>2 DEF Landed, LiveOf
    <3>3. CASE j # i
      BY <1>2, <1>5, <3>1, <3>3 DEF Landed
    <3> QED BY <3>2, <3>3
  <2> QED BY <1>5, <2>1, <2>3, <2>4, SameFiled DEF MapHome, Landed, Ghost, page
<1>6. ASSUME Toward(n, env'), MapHome(env', h), env' \in EnvMaps, k.does # "open"
      PROVE  \A m \in DOMAIN tasks' : TaskHome(tasks'[m], h)
  <2>1. PICK s : Storing(s, k, env') /\ tasks' = Append(RemoveAt(tasks, n), s)
    BY <1>6 DEF Toward
  <2>2. TaskHome(s, h)
    BY <1>1, <1>6, <2>1, EmptyMap DEF Storing, TaskHome, MapHome
  <2>3. s \in TaskRecs
    BY <2>1 DEF Storing
  <2> QED BY <1>2, <2>1, <2>2, <2>3, TasksMove
<1>7. CASE Toward(n, env') /\ \E i : Landed(k, i)
  <2>1. k.does # "open"
    BY <1>7 DEF Landed, Writers
  <2> QED BY <1>5, <1>6, <1>7, <1>2, <2>1 DEF HomeInv, ShownAtHome
<1>8. CASE Onward(n, k) /\ \E i : Landed(k, i)
  <2>1. \A m \in DOMAIN tasks' : TaskHome(tasks'[m], h)
    <3>1. CASE tasks' = RemoveAt(tasks, n)
      BY <1>2, <3>1, TasksLeave
    <3>2. ASSUME NEW w, NEW d, SealedTask(d), d.does = "complete", k.other \in Ids,
                 WritesAs(w, d, k.other, None, env[k.other]), tasks' = [tasks EXCEPT ![n] = w]
          PROVE  \A m \in DOMAIN tasks' : TaskHome(tasks'[m], h)
      <4>1. MapHome(w.seen, h)
        BY <1>2, <3>2 DEF WritesAs, MapHome
      <4>2. w.new[k.other] # None
        BY <3>2 DEF WritesAs
      <4>3. MapHome(w.new, h)
        BY <1>3, <3>2, <4>2 DEF WritesAs, MapHome, LiveOf
      <4>4. TaskHome(w, h)
        BY <3>2, <4>1, <4>3 DEF TaskHome, WritesAs, Fillers
      <4>5. \A m \in DOMAIN tasks' : m \in DOMAIN tasks /\ (tasks'[m] = tasks[m] \/ tasks'[m] = w)
        <5>1. tasks \in Seq(TaskRecs) /\ w \in TaskRecs
          BY <3>2, WaitFacts DEF WritesAs
        <5> QED BY <3>2, <5>1, ExceptSeq
      <4> QED BY <1>2, <4>4, <4>5
    <3> QED BY <1>8, <3>1, <3>2 DEF Onward
  <2> QED BY <1>2, <1>5, <1>8, <2>1 DEF HomeInv, ShownAtHome
<1>9. CASE Toward(n, env') /\ Synced(k)
  <2>1. \A i \in Ids : Homely(LiveOf(k.seen[i]), h) /\ Homely(LiveOf(k.new[i]), h)
    BY <1>1, <1>9 DEF TaskHome, MapHome, Synced, EnvMaps
  <2>2. \A i \in Ids : Homely(plain'[i], h) /\ Homely(LiveOf(env'[i]), h)
    BY <1>2, <1>9, <2>1 DEF Synced
  <2>3. env' \in EnvMaps /\ DOMAIN env' = Ids /\ k.does # "open"
    BY <1>9 DEF Synced, EnvMaps
  <2>4. MapHome(env', h)
    BY <2>2, <2>3 DEF MapHome
  <2>5. \A m \in DOMAIN tasks' : TaskHome(tasks'[m], h)
    BY <1>6, <1>9, <2>3, <2>4
  <2>6. disk' = disk /\ offer' = offer /\ FiledIn(log') = h
    BY <1>9, SameFiled DEF Synced, Ghost, page
  <2> QED BY <1>2, <2>2, <2>4, <2>5, <2>6 DEF HomeInv, ShownAtHome
<1>10. CASE Settled(n, k)
  <2>1. \A m \in DOMAIN tasks' : TaskHome(tasks'[m], h)
    BY <1>2, <1>10, TasksLeave DEF Settled
  <2>2. MapHome(disk', h)
    BY <1>1, <1>10 DEF Settled, TaskHome, HomeInv
  <2>3. \A t \in Tabs : HomelyOffer(offer'[t], h)
    BY <1>2, <1>3, <1>10 DEF Settled
  <2>5. env' = env /\ plain' = plain /\ FiledIn(log') = h
    BY <1>10, SameFiled DEF Settled, SameGone, vault
  <2> QED BY <1>2, <2>1, <2>2, <2>3, <2>5 DEF HomeInv, ShownAtHome
<1>11. CASE Failed(n)
  <2>1. \A m \in DOMAIN tasks' : TaskHome(tasks'[m], h)
    BY <1>2, <1>11, TasksLeave DEF Failed
  <2>2. env' = env /\ plain' = plain /\ disk' = disk /\ offer' = offer /\ log' = log
    BY <1>11 DEF Failed, vault, page
  <2> QED BY <1>2, <2>1, <2>2 DEF HomeInv, ShownAtHome
<1>12. CASE Touches(n, k)
  <2>1. PICK w, d : /\ SealedTask(d) /\ d.does = "touch"
                    /\ WritesAs(w, d, k.other, plain[k.other], env[k.other])
                    /\ tasks' = [tasks EXCEPT ![n] = w]
    BY <1>12 DEF Touches
  <2>2. k.other \in Ids /\ UNCHANGED <<vault, disk, page, log>>
    BY <1>12 DEF Touches
  <2>3. MapHome(w.seen, h)
    BY <1>2, <2>1, <2>2 DEF WritesAs, MapHome
  <2>4. w.new[k.other] # None
    BY <2>1 DEF WritesAs
  <2>5. MapHome(w.new, h)
    BY <1>2, <2>1, <2>2, <2>4 DEF WritesAs, MapHome, LiveOf
  <2>6. TaskHome(w, h)
    BY <2>1, <2>3, <2>5 DEF TaskHome, WritesAs, Fillers
  <2>7. \A m \in DOMAIN tasks' : m \in DOMAIN tasks /\ (tasks'[m] = tasks[m] \/ tasks'[m] = w)
    <3>1. tasks \in Seq(TaskRecs) /\ w \in TaskRecs
      BY <2>1, WaitFacts DEF WritesAs
    <3> QED BY <2>1, <3>1, ExceptSeq
  <2>8. \A m \in DOMAIN tasks' : TaskHome(tasks'[m], h)
    BY <1>2, <2>6, <2>7
  <2> QED BY <2>2, <2>8 DEF HomeInv, ShownAtHome, vault, page
<1> QED BY <1>4, <1>7, <1>8, <1>9, <1>10, <1>11, <1>12 DEF AtTask

LEMMA HomeStep == ASSUME TypeInv, HomeInv, [Next]_vars PROVE HomeInv'
<1>1. Kinds
  BY EveryStep
<1>2. CASE Looks
  <2>1. \A t \in Tabs : HomelyOffer(offer'[t], FiledIn(log))
    BY <1>2 DEF Looks, HomeInv, ShownAtHome, HomelyOffer
  <2> QED BY <1>2, <2>1 DEF Looks, vault, HomeInv, ShownAtHome
<1>3. CASE Offered
  <2>1. /\ env' = env /\ plain' = plain /\ disk' = disk /\ tasks' = tasks
        /\ \A p \in Pws : FiledIn(log)[p] \subseteq FiledIn(log')[p]
        /\ \A t \in Tabs : HomelyOffer(offer'[t], FiledIn(log'))
    BY <1>3 DEF Offered, vault, SameLog, HomeInv
  <2>2. /\ \A i \in Ids : Homely(plain[i], FiledIn(log'))
        /\ MapHome(env, FiledIn(log')) /\ MapHome(disk, FiledIn(log'))
        /\ \A n \in DOMAIN tasks : TaskHome(tasks[n], FiledIn(log'))
    BY <2>1, HomesGrow
  <2> QED BY <2>1, <2>2 DEF HomeInv, ShownAtHome
<1>4. CASE \E k, i, b : Write(k, i, b)
  BY <1>4, HomeWrite
<1>5. CASE \E k, i : Pulled(k, i)
  BY <1>5, HomePull
<1>6. ASSUME NEW k, Opening(k) PROVE HomeInv'
  <2>1. k \in TaskRecs /\ k.does = "open" /\ Room(k) /\ k.seen = env /\ k.new = <<>>
        /\ env' = env /\ plain' = plain /\ disk' = disk /\ offer' = offer /\ log' = log
    BY <1>6 DEF Opening, vault, page
  <2>2. TaskHome(k, FiledIn(log))
    BY <2>1, EmptyMap DEF TaskHome, MapHome, HomeInv, Fillers
  <2>3. \A n \in DOMAIN tasks' : TaskHome(tasks'[n], FiledIn(log))
    BY <2>1, <2>2, SealsJoin DEF HomeInv
  <2> QED BY <2>1, <2>3 DEF HomeInv, ShownAtHome
<1>10. ASSUME NEW k, Sends(k) PROVE HomeInv'
  <2>1. /\ k \in TaskRecs /\ Room(k) /\ k.seen = <<>> /\ k.new = <<>>
        /\ ShownAtHome => k.site \in FiledIn(log)[k.val]
        /\ env' = env /\ plain' = plain /\ disk' = disk /\ offer' = offer /\ log' = log
    BY <1>10 DEF Sends, vault, page
  <2>2. TaskHome(k, FiledIn(log))
    BY <2>1, EmptyMap DEF TaskHome, MapHome, HomeInv
  <2>3. \A n \in DOMAIN tasks' : TaskHome(tasks'[n], FiledIn(log))
    BY <2>1, <2>2, SealsJoin DEF HomeInv
  <2> QED BY <2>1, <2>3 DEF HomeInv, ShownAtHome
<1>11. CASE Leads
  <2>1. /\ env' = env /\ plain' = plain /\ disk' = disk /\ log' = log
        /\ DOMAIN tasks' = DOMAIN tasks /\ \A n \in DOMAIN tasks : Alike(tasks'[n], tasks[n])
        /\ \A t \in Tabs : offer'[t] = offer[t] \/ offer'[t] = None
    BY <1>11 DEF Leads, vault
  <2>2. \A n \in DOMAIN tasks' : TaskHome(tasks'[n], FiledIn(log))
    BY <2>1 DEF HomeInv, TaskHome, Alike
  <2>3. \A t \in Tabs : HomelyOffer(offer'[t], FiledIn(log))
    BY <2>1 DEF HomeInv, ShownAtHome, HomelyOffer
  <2> QED BY <2>1, <2>2, <2>3 DEF HomeInv, ShownAtHome
<1>7. CASE Locking
  BY <1>7, SameFiled DEF Locking, HomeInv, ShownAtHome, Homely, HomelyOffer
<1>8. CASE Crashing
  BY <1>8, EmptyMap, SameFiled DEF Crashing, HomeInv, ShownAtHome, Homely, HomelyOffer
<1>9. CASE \E n \in DOMAIN tasks : AtTask(n)
  BY <1>9, HomeAtTask
<1> QED BY <1>1, <1>2, <1>3, <1>4, <1>5, <1>6, <1>7, <1>8, <1>9, <1>10, <1>11 DEF Kinds

LEMMA StartsHome == ASSUME Starts PROVE HomeInv
<1>1. DOMAIN env = Ids
  BY DEF Starts, EnvMaps
<1>2. ASSUME NEW i \in Ids PROVE Homely(LiveOf(env[i]), FiledIn(log))
  <2>1. CASE env[i] = None
    BY <2>1 DEF LiveOf, Homely
  <2>2. CASE env[i] # None
    <3>1. i = 1 /\ env[i].body \in Bodies /\ env[i].body.password = drawn
      BY <2>2 DEF Starts
    <3>2. drawn \in Pws
      BY <3>1, BodyParts
    <3>3. FiledIn(log)[drawn] = env[1].body.urls
      BY <3>2 DEF Starts
    <3> QED BY <2>2, <3>1, <3>3 DEF LiveOf, Homely
  <2> QED BY <2>1, <2>2
<1>3. MapHome(env, FiledIn(log)) /\ \A i \in Ids : Homely(plain[i], FiledIn(log))
  BY <1>1, <1>2 DEF MapHome, Starts, AllLive
<1> QED BY <1>3 DEF Starts, HomeInv, ShownAtHome, HomelyOffer

(* A password is put into a form only on a site it was typed, generated,   *)
(* imported or filed for, through every merge, editor, import, offer and   *)
(* unlock on the way, unless the document it was asked for was left before *)
(* it came or it was written to an entry whose sites were widened behind   *)
(* it (match.js, canFill(), belongsOnlyTo()).                              *)
THEOREM PasswordsStayHome == Spec => StaysHome
<1>1. Init => TypeInv /\ HomeInv
  BY InitTypes, StartsHome
<1>2. TypeInv /\ HomeInv /\ [Next]_vars => (TypeInv /\ HomeInv)'
  BY TypeStep, HomeStep
<1>3. ASSUME TypeInv, HomeInv, NEW n \in DOMAIN tasks, Fills(n), tasks[n].there = tasks[n].site
      PROVE  tasks[n].there \in Filed(tasks[n].val)
  <2>1. Carries(tasks[n]) /\ tasks[n].there # None
    BY <1>3, TaskParts DEF Shape, Fills
  <2>2. tasks[n].does \in Fillers /\ tasks[n].val \in Pws
    BY <2>1 DEF Carries
  <2>3. tasks[n].site \in FiledIn(log)[tasks[n].val]
    BY <1>3, <2>2 DEF HomeInv, TaskHome
  <2> QED BY <1>3, <2>2, <2>3 DEF FiledIn, Filed
<1>4. TypeInv /\ HomeInv =>
        [\A n \in DOMAIN tasks : LET k == tasks[n] IN
           Fills(n) /\ k.there = k.site => k.there \in Filed(k.val)]_vars
  BY <1>3
<1> QED BY <1>1, <1>2, <1>4, PTL DEF Spec, StaysHome

-----------------------------------------------------------------------------
(* Nothing is lost.  What is stored, what waits to be stored, in order,    *)
(* and what the envelopes hold form a chain, each holding what the one     *)
(* before it does, but for what was dropped.                               *)
Told == {"generate", "save", "complete", "edit"}
StoreOK(k, d, e, g) ==
  k.at = "store" =>
    /\ d \ g \subseteq Values(k.new) /\ Values(k.new) \ g \subseteq e
    /\ k.does \in Told => k.val \in Values(k.new) \cup g
(* What a sealed write holds: no less than what it is written over.        *)
SealOK(k, e, g, t) ==
  Sealing(k) /\ k.does \in Writers => \A i \in DOMAIN k.new :
    LET b == k.new[i].body IN
    /\ i \notin t /\ b # None => ValuesOf(LiveOf(k.seen[i])) \subseteq ValuesOf(b)
    /\ k.does \in Told \cup {"rotate"} /\ b # None => b.password = k.val
    /\ b = None => k.does \in {"delete", "complete"}
    /\ b = None /\ k.does = "complete" => k.val \in e \cup g
InOrder(ts, g) ==
  \A a, b \in DOMAIN ts : a < b /\ ts[a].at = "store" /\ ts[b].at = "store" =>
    Values(ts[a].new) \ g \subseteq Values(ts[b].new)
TasksOK(ts, d, e, g, t) ==
  /\ \A n \in DOMAIN ts : StoreOK(ts[n], d, e, g) /\ SealOK(ts[n], e, g, t)
  /\ InOrder(ts, g)
KeptInv ==
  ~log.late =>
    /\ log.owed \ log.gone \subseteq Values(disk)
    /\ Values(disk) \ log.gone \subseteq Values(env)
    /\ TasksOK(tasks, Values(disk), Values(env), log.gone, log.torn)

(* What was dropped only grows, and nothing else leaves the envelopes.     *)
LEMMA TaskKeeps ==
  ASSUME NEW k, NEW d, NEW e, NEW g, NEW t, NEW f, NEW h, NEW u,
         StoreOK(k, d, e, g), SealOK(k, e, g, t),
         e \ h \subseteq f, g \subseteq h, t \subseteq u
  PROVE  StoreOK(k, d, f, h) /\ SealOK(k, f, h, u)
<1>1. StoreOK(k, d, f, h)
  BY DEF StoreOK
<1>2. ASSUME Sealing(k), k.does \in Writers, NEW i \in DOMAIN k.new
      PROVE  LET b == k.new[i].body IN
             /\ i \notin u /\ b # None => ValuesOf(LiveOf(k.seen[i])) \subseteq ValuesOf(b)
             /\ k.does \in Told \cup {"rotate"} /\ b # None => b.password = k.val
             /\ b = None => k.does \in {"delete", "complete"}
             /\ b = None /\ k.does = "complete" => k.val \in f \cup h
  BY <1>2 DEF SealOK
<1>3. SealOK(k, f, h, u)
  BY <1>2 DEF SealOK
<1> QED BY <1>1, <1>3

LEMMA OrderKeeps ==
  ASSUME NEW ts, NEW g, NEW h, InOrder(ts, g), g \subseteq h PROVE InOrder(ts, h)
  BY DEF InOrder

LEMMA OrderLeaves ==
  ASSUME TypeInv, NEW n \in DOMAIN tasks, NEW g, InOrder(tasks, g)
  PROVE  InOrder(RemoveAt(tasks, n), g)
<1> DEFINE r == RemoveAt(tasks, n)
<1>1. tasks \in Seq(TaskRecs) /\ n \in 1 .. Len(tasks) /\ DOMAIN tasks = 1 .. Len(tasks) /\ Len(tasks) \in Nat
  BY WaitFacts
<1>2. r \in Seq(TaskRecs) /\ Len(r) = Len(tasks) - 1
  BY ONLY <1>1, Leaves
<1>3. \A i \in 1 .. Len(tasks) - 1 : r[i] = IF i < n THEN tasks[i] ELSE tasks[i + 1]
  BY ONLY <1>1, RemoveAtFacts
<1> HIDE DEF r
<1>4. DOMAIN r = 1 .. Len(tasks) - 1
  BY <1>2, LenProperties
<1> DEFINE at(i) == IF i < n THEN i ELSE i + 1
<1>5. \A i \in DOMAIN r : at(i) \in DOMAIN tasks /\ r[i] = tasks[at(i)]
  BY <1>1, <1>3, <1>4
<1>6. \A a, b \in DOMAIN r : a < b => at(a) < at(b)
  BY <1>1, <1>4
<1> HIDE DEF at
<1>7. InOrder(r, g)
  BY <1>5, <1>6 DEF InOrder
<1> QED BY <1>7 DEF r

LEMMA OrderJoins ==
  ASSUME NEW ts \in Seq(TaskRecs), NEW k \in TaskRecs, NEW g, InOrder(ts, g),
         k.at = "store" => \A a \in DOMAIN ts : ts[a].at = "store" => Values(ts[a].new) \ g \subseteq Values(k.new)
  PROVE  InOrder(Append(ts, k), g)
<1> DEFINE q == Append(ts, k)
<1>1. /\ q \in Seq(TaskRecs) /\ Len(q) = Len(ts) + 1
      /\ \A i \in 1 .. Len(ts) : q[i] = ts[i]
      /\ q[Len(ts) + 1] = k
  BY AppendProperties
<1>2. DOMAIN q = 1 .. Len(ts) + 1 /\ DOMAIN ts = 1 .. Len(ts) /\ Len(ts) \in Nat
  BY <1>1, LenProperties
<1> HIDE DEF q
<1>3. ASSUME NEW a \in DOMAIN q, NEW b \in DOMAIN q, a < b, q[a].at = "store", q[b].at = "store"
      PROVE  Values(q[a].new) \ g \subseteq Values(q[b].new)
  <2>1. a \in DOMAIN ts /\ q[a] = ts[a]
    BY <1>1, <1>2, <1>3
  <2>2. CASE b \in DOMAIN ts
    <3>1. q[b] = ts[b]
      BY <1>1, <1>2, <2>2
    <3> QED BY <1>3, <2>1, <2>2, <3>1 DEF InOrder
  <2>3. CASE b = Len(ts) + 1
    BY <1>1, <1>3, <2>1, <2>3
  <2> QED BY <1>2, <2>2, <2>3
<1>4. InOrder(q, g)
  BY <1>3 DEF InOrder
<1> QED BY <1>4 DEF q

(* A record that is written over holds what it did, or it was counted as   *)
(* dropped.                                                                *)
LEMMA NothingElseLeaves ==
  ASSUME TypeInv, NEW k, NEW i, Landed(k, i), SealOK(k, Values(env), log.gone, log.torn)
  PROVE  /\ Values(env) \ log'.gone \subseteq Values(env')
         /\ log.gone \subseteq log'.gone
         /\ k.new[i].body # None => ValuesOf(k.new[i].body) \subseteq Values(env')
<1>1. /\ DOMAIN env = Ids /\ DOMAIN env' = Ids /\ i \in Ids /\ env'[i] = k.new[i]
      /\ \A j \in Ids \ {i} : env'[j] = env[j]
  BY TypeParts DEF Landed, EnvMaps
<1>2. DOMAIN k.new = {i} /\ k.new[i] # None /\ Sealing(k) /\ k.does \in Writers
  BY DEF Landed, WritesOne
<1>3. LiveOf(env'[i]) = k.new[i].body
  BY <1>1, <1>2 DEF LiveOf
<1>4. ASSUME log'.gone = log.gone \cup Dropped(env, env')
      PROVE  Values(env) \ log'.gone \subseteq Values(env') /\ log.gone \subseteq log'.gone
  BY <1>4 DEF Dropped
<1>5. ASSUME /\ log'.gone = log.gone /\ env[i] = k.seen[i] /\ i \notin log.torn
             /\ k.does # "rotate" => k.new[i].body # None
      PROVE  Values(env) \ log'.gone \subseteq Values(env') /\ log.gone \subseteq log'.gone
  <2>1. k.new[i].body # None
    BY <1>2, <1>5 DEF SealOK
  <2>2. ValuesOf(LiveOf(env[i])) \subseteq ValuesOf(LiveOf(env'[i]))
    BY <1>2, <1>3, <1>5, <2>1 DEF SealOK
  <2>3. Values(env) \subseteq Values(env')
    BY <1>1, <2>2 DEF Values
  <2> QED BY <1>5, <2>3
<1>6. k.new[i].body # None => ValuesOf(k.new[i].body) \subseteq Values(env')
  BY <1>1, <1>3 DEF Values
<1>7. (Values(env) \ log'.gone \subseteq Values(env')) /\ log.gone \subseteq log'.gone
  BY <1>4, <1>5 DEF Landed
<1> QED BY <1>6, <1>7

(* What the envelopes hold, what was dropped and which were torn, before   *)
(* and after.                                                              *)
Grew(e, g, t, f, h, u) == e \ h \subseteq f /\ g \subseteq h /\ t \subseteq u

(* A handler leaves its seal for storage with the envelopes as they are.   *)
Joining(s, f, h) ==
  /\ s \in TaskRecs /\ s.at = "store" /\ Values(s.new) = f
  /\ s.does \in Told => s.val \in f \cup h
Chain(ts, d, e, g, t) == ts \in Seq(TaskRecs) /\ d \ g \subseteq e /\ TasksOK(ts, d, e, g, t)

LEMMA ChainGrows ==
  ASSUME NEW ts, NEW s, NEW d, NEW e, NEW g, NEW t, NEW f, NEW h, NEW u,
         Chain(ts, d, e, g, t), Grew(e, g, t, f, h, u), Joining(s, f, h)
  PROVE  TasksOK(Append(ts, s), d, f, h, u) /\ d \ h \subseteq f
<1>. /\ e \ h \subseteq f /\ g \subseteq h /\ t \subseteq u
     /\ ts \in Seq(TaskRecs) /\ d \ g \subseteq e /\ TasksOK(ts, d, e, g, t)
     /\ s \in TaskRecs /\ s.at = "store" /\ Values(s.new) = f
     /\ s.does \in Told => s.val \in f \cup h
  BY DEF Grew, Chain, Joining
<1>1. d \ h \subseteq f
  OBVIOUS
<1>2. \A n \in DOMAIN ts : StoreOK(ts[n], d, f, h) /\ SealOK(ts[n], f, h, u)
  <2>1. ASSUME NEW n \in DOMAIN ts PROVE StoreOK(ts[n], d, f, h) /\ SealOK(ts[n], f, h, u)
    <3>1. StoreOK(ts[n], d, e, g) /\ SealOK(ts[n], e, g, t)
      BY DEF TasksOK
    <3>2. e \ h \subseteq f /\ g \subseteq h /\ t \subseteq u
      OBVIOUS
    <3> QED BY ONLY <3>1, <3>2, TaskKeeps
  <2> QED BY <2>1
<1>3. StoreOK(s, d, f, h)
  BY <1>1 DEF StoreOK
<1>4. SealOK(s, f, h, u)
  BY DEF SealOK, Sealing
<1>5. \A n \in DOMAIN Append(ts, s) : StoreOK(Append(ts, s)[n], d, f, h) /\ SealOK(Append(ts, s)[n], f, h, u)
  BY <1>2, <1>3, <1>4, Joins
<1>6. InOrder(ts, h)
  BY OrderKeeps DEF TasksOK
<1>7. \A a \in DOMAIN ts : ts[a].at = "store" => Values(ts[a].new) \ h \subseteq Values(s.new)
  BY <1>2 DEF StoreOK
<1>8. InOrder(Append(ts, s), h)
  BY <1>6, <1>7, OrderJoins
<1> QED BY <1>1, <1>5, <1>8 DEF TasksOK

LEMMA ChainLeaves ==
  ASSUME TypeInv, NEW n \in DOMAIN tasks, NEW d, NEW e, NEW g, NEW t, TasksOK(tasks, d, e, g, t)
  PROVE  TasksOK(RemoveAt(tasks, n), d, e, g, t)
  BY TasksLeave, OrderLeaves DEF TasksOK

LEMMA ChainStays ==
  ASSUME NEW ts, NEW d, NEW e, NEW g, NEW t, NEW f, NEW h, NEW u,
         TasksOK(ts, d, e, g, t), e \ h \subseteq f, g \subseteq h, t \subseteq u
  PROVE  TasksOK(ts, d, f, h, u)
<1>1. \A n \in DOMAIN ts : StoreOK(ts[n], d, f, h) /\ SealOK(ts[n], f, h, u)
  <2>1. ASSUME NEW n \in DOMAIN ts PROVE StoreOK(ts[n], d, f, h) /\ SealOK(ts[n], f, h, u)
    <3>1. StoreOK(ts[n], d, e, g) /\ SealOK(ts[n], e, g, t)
      BY DEF TasksOK
    <3> QED BY <3>1, TaskKeeps
  <2> QED BY <2>1
<1>2. InOrder(ts, h)
  BY OrderKeeps DEF TasksOK
<1> QED BY <1>1, <1>2 DEF TasksOK

LEMMA KeptWrite ==
  ASSUME TypeInv, MapsAgree, KeptInv, NEW k, NEW i, NEW b, Write(k, i, b) PROVE KeptInv'
<1> SUFFICES ASSUME ~log'.late PROVE KeptInv'
  BY DEF KeptInv
<1> DEFINE w == Writing(k, i, b)
           D == Values(disk)
           E == Values(env)
<1>1. /\ k \in TaskRecs /\ k.at = "seal" /\ k.does \in Writers /\ i \in Ids /\ b \in Bodies \cup {None}
      /\ Room(w) /\ env' = env /\ disk' = disk /\ ~locked
      /\ log'.owed = log.owed /\ log'.gone = log.gone /\ log'.torn = log.torn /\ ~log.late
  BY DEF Write, Begins, SealedTask, vault, SameLog
<1>2. /\ b = None <=> k.does = "delete"
      /\ plain[i] # None /\ b # None => ValuesOf(plain[i]) \subseteq ValuesOf(b)
      /\ k.does \in {"generate", "save", "complete", "edit", "rotate"} => b.password = k.val
  BY DEF Write, Grows
<1>3. WritesAs(w, k, i, b, env[i])
  BY <1>1, WritingFacts, TypeParts
<1>4. /\ log.owed \ log.gone \subseteq D /\ D \ log.gone \subseteq E
      /\ TasksOK(tasks, D, E, log.gone, log.torn)
  BY <1>1 DEF KeptInv
<1> HIDE DEF w
<1>5. i \notin log.torn /\ b # None => ValuesOf(LiveOf(env[i])) \subseteq ValuesOf(b)
  <2>1. i \notin log.torn => plain[i] = LiveOf(env[i])
    BY <1>1 DEF MapsAgree
  <2> QED BY <1>2, <2>1 DEF ValuesOf
<1>6. SealOK(w, E, log.gone, log.torn)
  BY <1>2, <1>3, <1>5 DEF SealOK, WritesAs, Told
<1>7. StoreOK(w, D, E, log.gone)
  BY <1>1, <1>3 DEF StoreOK, WritesAs
<1>8. w \in TaskRecs /\ w.at = "seal"
  BY <1>1, <1>3 DEF WritesAs
<1>9. \A n \in DOMAIN tasks' : StoreOK(tasks'[n], D, E, log.gone) /\ SealOK(tasks'[n], E, log.gone, log.torn)
  BY <1>1, <1>4, <1>6, <1>7, <1>8, SealsJoin DEF TasksOK
<1>10. InOrder(tasks', log.gone)
  BY <1>1, <1>4, <1>8, OrderJoins, WaitFacts DEF Room, TasksOK
<1> QED BY <1>1, <1>4, <1>9, <1>10 DEF KeptInv, TasksOK

LEMMA KeptPull ==
  ASSUME TypeInv, KeptInv, NEW k, NEW i, Pulled(k, i) PROVE KeptInv'
<1> SUFFICES ASSUME ~log'.late PROVE KeptInv'
  BY DEF KeptInv
<1> DEFINE D == Values(disk)
           E == Values(env)
           g == log.gone
           t == log.torn
<1>1. /\ k \in TaskRecs /\ k.does = "sync" /\ Room(k) /\ disk' = disk
      /\ log'.owed = log.owed /\ log'.torn = t /\ ~log.late
  BY DEF Pulled, Unchanged, page
<1>2. log.owed \ g \subseteq D /\ D \ g \subseteq E /\ TasksOK(tasks, D, E, g, t)
  BY <1>1 DEF KeptInv
<1>3. tasks \in Seq(TaskRecs) /\ tasks' = Append(tasks, k)
  BY <1>1, WaitFacts DEF Room
<1>4. CASE k.at = "seal" /\ env' = env /\ log'.gone = g
  <2>1. StoreOK(k, D, E, g) /\ SealOK(k, E, g, t)
    BY <1>1, <1>4 DEF StoreOK, SealOK, Writers
  <2>2. \A n \in DOMAIN tasks' : StoreOK(tasks'[n], D, E, g) /\ SealOK(tasks'[n], E, g, t)
    BY <1>1, <1>2, <2>1, SealsJoin DEF TasksOK
  <2>3. InOrder(tasks', g)
    BY <1>1, <1>2, <1>3, <1>4, OrderJoins DEF TasksOK
  <2> QED BY <1>1, <1>2, <1>4, <2>2, <2>3 DEF KeptInv, TasksOK
<1>5. CASE k.at = "store" /\ env' = k.new /\ log'.gone = g \cup Dropped(env, env')
  <2> DEFINE h == log'.gone
             f == Values(env')
  <2>1. E \ h \subseteq f /\ g \subseteq h /\ t \subseteq t
    BY <1>5 DEF Dropped
  <2>2. k.does \notin Told /\ Values(k.new) = f
    BY <1>1, <1>5 DEF Told
  <2> HIDE DEF h, f, D, E, g, t
  <2>3. TasksOK(Append(tasks, k), D, f, h, t) /\ D \ h \subseteq f
    <3>1. Chain(tasks, D, E, g, t) /\ Grew(E, g, t, f, h, t) /\ Joining(k, f, h)
      BY <1>1, <1>2, <1>3, <1>5, <2>1, <2>2 DEF Grew, Chain, Joining
    <3> QED BY ONLY <3>1, ChainGrows
  <2>4. log.owed \ h \subseteq D
    BY <1>2, <2>1
  <2> QED BY <1>1, <1>3, <2>3, <2>4 DEF KeptInv, h, f, D, E, g, t
<1> QED BY <1>4, <1>5 DEF Pulled

LEMMA KeptAtTask ==
  ASSUME TypeInv, MapsAgree, KeptInv, NEW n \in DOMAIN tasks, AtTask(n) PROVE KeptInv'
<1> SUFFICES ASSUME ~log'.late PROVE KeptInv'
  BY DEF KeptInv
<1> DEFINE k == tasks[n]
           D == Values(disk)
           E == Values(env)
           g == log.gone
           t == log.torn
           h == log'.gone
           f == Values(env')
           r == RemoveAt(tasks, n)
<1>1. ~log.late
  BY DEF AtTask, Opened, Landed, Synced, Ghost, Settled, Failed, Touches
<1>2. log.owed \ g \subseteq D /\ D \ g \subseteq E /\ TasksOK(tasks, D, E, g, t)
  BY <1>1 DEF KeptInv
<1>3. /\ TasksOK(r, D, E, g, t) /\ r \in Seq(TaskRecs)
      /\ StoreOK(k, D, E, g) /\ SealOK(k, E, g, t) /\ k \in TaskRecs
  BY <1>2, ChainLeaves, LeavingWaits, TaskParts DEF TasksOK, Waiting
<1>4. CASE Opened(n, k)
  <2>1. env' = env /\ disk' = disk /\ tasks' = r /\ log'.owed = log.owed /\ h = g /\ log'.torn = t
    BY <1>4 DEF Opened, SameGone, page
  <2> QED BY <1>2, <1>3, <2>1 DEF KeptInv
(* What the next in line stores is the envelopes as they are now.          *)
<1>5. ASSUME Toward(n, env'), disk' = disk, log'.owed = log.owed, t \subseteq log'.torn,
             E \ h \subseteq f, g \subseteq h, k.does \in Told => k.val \in f \cup h
      PROVE  KeptInv'
  <2>1. PICK s : Storing(s, k, env') /\ tasks' = Append(r, s)
    BY <1>5 DEF Toward
  <2>2. s \in TaskRecs /\ s.at = "store" /\ Values(s.new) = f /\ (s.does \in Told => s.val \in f \cup h)
    BY <1>5, <2>1 DEF Storing
  <2> HIDE DEF r, f, h, D, E, g, t
  <2> DEFINE u == log'.torn
  <2>5. t \subseteq u
    BY <1>5
  <2> HIDE DEF u
  <2>3. TasksOK(Append(r, s), D, f, h, u) /\ D \ h \subseteq f
    <3>1. Chain(r, D, E, g, t) /\ Grew(E, g, t, f, h, u) /\ Joining(s, f, h)
      BY <1>2, <1>3, <1>5, <2>2, <2>5 DEF Grew, Chain, Joining
    <3> QED BY ONLY <3>1, ChainGrows
  <2>4. log.owed \ h \subseteq D
    BY <1>2, <1>5
  <2> QED BY <1>5, <2>1, <2>3, <2>4 DEF KeptInv, f, h, D, E, g, t, u
<1>6. ASSUME NEW i, Landed(k, i)
      PROVE  /\ E \ h \subseteq f /\ g \subseteq h
             /\ k.does \in Told \cup {"rotate"} => k.val \in f \cup h
             /\ disk' = disk /\ log'.owed = log.owed /\ log'.torn = t
  <2>1. /\ E \ h \subseteq f /\ g \subseteq h
        /\ k.new[i].body # None => ValuesOf(k.new[i].body) \subseteq f
    BY <1>3, <1>6, NothingElseLeaves
  <2>2. disk' = disk /\ log'.owed = log.owed /\ log'.torn = t
    BY <1>6 DEF Landed, Ghost, page
  <2>3. i \in DOMAIN k.new /\ k.new[i] \in Envelopes /\ Sealing(k) /\ k.does \in Writers
    BY <1>6 DEF Landed, WritesOne
  <2>4. ASSUME k.does \in Told \cup {"rotate"} PROVE k.val \in f \cup h
    <3>1. CASE k.new[i].body # None
      <4>1. k.new[i].body \in Bodies /\ k.new[i].body.password = k.val
        BY <1>3, <2>3, <2>4, <3>1 DEF SealOK, Envelopes
      <4> QED BY <2>1, <3>1, <4>1, BodyParts
    <3>2. CASE k.new[i].body = None
      <4>1. k.does \in {"delete", "complete"}
        BY <1>3, <2>3, <3>2 DEF SealOK
      <4>2. k.does = "complete"
        BY <2>4, <4>1 DEF Told
      <4>3. k.val \in E \cup g
        BY <1>3, <2>3, <3>2, <4>2 DEF SealOK
      <4> QED BY <2>1, <4>3
    <3> QED BY <3>1, <3>2
  <2> QED BY <2>1, <2>2, <2>4
<1>7. CASE Toward(n, env') /\ \E i : Landed(k, i)
  BY <1>5, <1>6, <1>7
<1>8. CASE Onward(n, k) /\ k.does = "rotate" /\ \E i : Landed(k, i)
  <2>1. /\ E \ h \subseteq f /\ g \subseteq h /\ k.val \in f \cup h
        /\ disk' = disk /\ log'.owed = log.owed /\ log'.torn = t
    BY <1>6, <1>8
  <2>2. TasksOK(tasks', D, f, h, t)
    <3>1. CASE tasks' = r
      <4> HIDE DEF r, f, h, D, E, g, t
      <4> QED BY <1>3, <2>1, <3>1, ChainStays
    <3>2. ASSUME NEW w, NEW d, SealedTask(d), d.does = "complete", d.val = k.val,
                 WritesAs(w, d, k.other, None, env[k.other]), tasks' = [tasks EXCEPT ![n] = w]
          PROVE  TasksOK(tasks', D, f, h, t)
      <4>1. TasksOK(tasks, D, f, h, t)
        <5> HIDE DEF r, f, h, D, E, g, t
        <5> QED BY <1>2, <2>1, ChainStays
      <4>2. w \in TaskRecs /\ w.at = "seal" /\ w.does = "complete" /\ w.val = k.val
            /\ DOMAIN w.new = {k.other} /\ w.new[k.other].body = None
        BY <3>2 DEF WritesAs, SealedTask
      <4>3. StoreOK(w, D, f, h) /\ SealOK(w, f, h, t)
        BY <2>1, <4>2 DEF StoreOK, SealOK
      <4>4. /\ DOMAIN tasks' = DOMAIN tasks
            /\ \A m \in DOMAIN tasks' : tasks'[m] = tasks[m] \/ tasks'[m] = w
        <5>1. tasks \in Seq(TaskRecs)
          BY WaitFacts
        <5> QED BY <3>2, <4>2, <5>1, ExceptSeq
      <4>5. InOrder(tasks', h)
        BY <4>1, <4>2, <4>4 DEF TasksOK, InOrder
      <4> QED BY <4>1, <4>3, <4>4, <4>5 DEF TasksOK
    <3> QED BY <1>8, <3>1, <3>2 DEF Onward
  <2>3. log.owed \ h \subseteq D /\ D \ h \subseteq f
    BY <1>2, <2>1
  <2> QED BY <2>1, <2>2, <2>3 DEF KeptInv
<1>9. CASE Toward(n, env') /\ Synced(k)
  <2>1. /\ k.does \notin Told /\ disk' = disk /\ log'.owed = log.owed /\ t \subseteq log'.torn
        /\ h = g \cup Dropped(env, env')
    BY <1>9 DEF Synced, Ghost, page, Told
  <2>2. E \ h \subseteq f /\ g \subseteq h
    BY <2>1 DEF Dropped
  <2> QED BY <1>5, <1>9, <2>1, <2>2
<1>10. CASE Settled(n, k)
  <2>1. /\ env' = env /\ tasks' = r /\ h = g /\ log'.torn = t /\ FirstStore(n)
        /\ \/ disk' = k.new
           \/ disk' = disk /\ log'.owed = log.owed
        /\ \/ log'.owed = log.owed
           \/ log'.owed = log.owed \cup {k.val} /\ k.does \in Told
    BY <1>10 DEF Settled, SameGone, vault, Told
  <2>2. CASE disk' = disk /\ log'.owed = log.owed
    BY <1>2, <1>3, <2>1, <2>2 DEF KeptInv
  <2>3. CASE disk' = k.new
    <3> DEFINE C == Values(k.new)
    <3>1. D \ g \subseteq C /\ C \ g \subseteq E /\ (k.does \in Told => k.val \in C \cup g)
      BY <1>3, <2>1 DEF StoreOK, FirstStore
    <3>2. log'.owed \ g \subseteq C
      BY <1>2, <2>1, <3>1
    <3>3. ASSUME NEW m \in DOMAIN r, r[m].at = "store" PROVE C \ g \subseteq Values(r[m].new)
      <4>1. PICK j \in DOMAIN tasks : j # n /\ r[m] = tasks[j]
        BY TasksLeave
      <4>2. n < j
        <5>1. j \in Nat /\ n \in Nat /\ j \in 1 .. Len(tasks) /\ n \in 1 .. Len(tasks)
          BY WaitFacts
        <5>2. ~(j \in 1 .. n - 1)
          BY <2>1, <3>3, <4>1 DEF FirstStore
        <5> QED BY <4>1, <5>1, <5>2
      <4> QED BY <1>2, <2>1, <3>3, <4>1, <4>2 DEF TasksOK, InOrder, FirstStore
    <3>4. TasksOK(r, C, E, g, t)
      <4>1. \A m \in DOMAIN r : StoreOK(r[m], D, E, g)
        BY <1>3 DEF TasksOK
      <4>2. \A m \in DOMAIN r : StoreOK(r[m], C, E, g)
        BY <3>3, <4>1 DEF StoreOK
      <4> QED BY <1>3, <4>2 DEF TasksOK
    <3> QED BY <2>1, <2>3, <3>1, <3>2, <3>4 DEF KeptInv
  <2> QED BY <2>1, <2>2, <2>3
<1>11. CASE Failed(n)
  <2>1. env' = env /\ disk' = disk /\ tasks' = r /\ log' = log
    BY <1>11 DEF Failed, vault, page
  <2> QED BY <1>2, <1>3, <2>1 DEF KeptInv
<1>12. CASE Touches(n, k)
  <2>1. PICK w, d : /\ SealedTask(d) /\ d.does = "touch"
                    /\ WritesAs(w, d, k.other, plain[k.other], env[k.other])
                    /\ tasks' = [tasks EXCEPT ![n] = w]
    BY <1>12 DEF Touches
  <2>2. /\ k.other \in Ids /\ plain[k.other] # None /\ ~locked
        /\ env' = env /\ disk' = disk /\ log' = log
    BY <1>12 DEF Touches, vault
  <2>3. /\ w \in TaskRecs /\ w.at = "seal" /\ w.does = "touch" /\ DOMAIN w.new = {k.other}
        /\ w.seen[k.other] = env[k.other] /\ w.new[k.other].body = plain[k.other]
    BY <2>1, <2>2 DEF WritesAs, SealedTask
  <2>4. k.other \notin t => plain[k.other] = LiveOf(env[k.other])
    BY <1>1, <2>2 DEF MapsAgree
  <2>5. StoreOK(w, D, E, g) /\ SealOK(w, E, g, t)
    BY <2>2, <2>3, <2>4 DEF StoreOK, SealOK, Told
  <2>6. /\ DOMAIN tasks' = DOMAIN tasks
        /\ \A m \in DOMAIN tasks' : tasks'[m] = tasks[m] \/ tasks'[m] = w
    BY <2>1, <2>3, WaitFacts, ExceptSeq
  <2>7. InOrder(tasks', g)
    BY <1>2, <2>3, <2>6 DEF TasksOK, InOrder
  <2>8. TasksOK(tasks', D, E, g, t)
    BY <1>2, <2>5, <2>6, <2>7 DEF TasksOK
  <2> QED BY <1>2, <2>2, <2>8 DEF KeptInv
<1> QED BY <1>4, <1>7, <1>8, <1>9, <1>10, <1>11, <1>12 DEF AtTask

LEMMA KeptStep == ASSUME TypeInv, MapsAgree, KeptInv, [Next]_vars PROVE KeptInv'
<1>1. Kinds
  BY EveryStep
<1>2. CASE Looks
  BY <1>2 DEF Looks, vault, KeptInv
<1>3. CASE Offered
  BY <1>3 DEF Offered, vault, KeptInv, SameLog
<1>4. CASE \E k, i, b : Write(k, i, b)
  BY <1>4, KeptWrite
<1>5. CASE \E k, i : Pulled(k, i)
  BY <1>5, KeptPull
<1>6. ASSUME NEW k, Opening(k), ~log.late PROVE KeptInv'
  <2>1. k \in TaskRecs /\ k.does = "open" /\ k.at = "seal" /\ Room(k)
        /\ env' = env /\ disk' = disk /\ log' = log
    BY <1>6 DEF Opening, vault, page
  <2>2. \A d, e, g, t : StoreOK(k, d, e, g) /\ SealOK(k, e, g, t)
    BY <2>1 DEF StoreOK, SealOK, Writers
  <2>3. TasksOK(tasks, Values(disk), Values(env), log.gone, log.torn)
    BY <1>6 DEF KeptInv
  <2>4. \A n \in DOMAIN tasks' : /\ StoreOK(tasks'[n], Values(disk), Values(env), log.gone)
                                 /\ SealOK(tasks'[n], Values(env), log.gone, log.torn)
    BY <2>1, <2>2, <2>3, SealsJoin DEF TasksOK
  <2>5. InOrder(tasks', log.gone)
    BY <2>1, <2>3, OrderJoins, WaitFacts DEF Room, TasksOK
  <2> QED BY <2>1, <2>4, <2>5 DEF KeptInv, TasksOK
<1>11. ASSUME NEW k, Sends(k), ~log.late PROVE KeptInv'
  <2>1. k \in TaskRecs /\ k.at = "page" /\ Room(k) /\ env' = env /\ disk' = disk /\ log' = log
    BY <1>11 DEF Sends, vault, page
  <2>2. \A d, e, g, t : StoreOK(k, d, e, g) /\ SealOK(k, e, g, t)
    BY <2>1 DEF StoreOK, SealOK, Sealing
  <2>3. TasksOK(tasks, Values(disk), Values(env), log.gone, log.torn)
    BY <1>11 DEF KeptInv
  <2>4. \A n \in DOMAIN tasks' : /\ StoreOK(tasks'[n], Values(disk), Values(env), log.gone)
                                 /\ SealOK(tasks'[n], Values(env), log.gone, log.torn)
    BY <2>1, <2>2, <2>3, SealsJoin DEF TasksOK
  <2>5. InOrder(tasks', log.gone)
    BY <2>1, <2>3, OrderJoins, WaitFacts DEF Room, TasksOK
  <2> QED BY <1>11, <2>1, <2>4, <2>5 DEF KeptInv, TasksOK
<1>12. CASE Leads
  <2>1. /\ env' = env /\ disk' = disk /\ log' = log
        /\ DOMAIN tasks' = DOMAIN tasks /\ \A n \in DOMAIN tasks : Alike(tasks'[n], tasks[n])
    BY <1>12 DEF Leads, vault
  <2>2. \A d, e, g, t : TasksOK(tasks, d, e, g, t) => TasksOK(tasks', d, e, g, t)
    BY <2>1 DEF TasksOK, StoreOK, SealOK, Sealing, InOrder, Alike
  <2> QED BY <2>1, <2>2 DEF KeptInv
<1>7. CASE Locking
  BY <1>7 DEF Locking, KeptInv
<1>8. CASE Crashing
  BY <1>8, EmptyMap DEF Crashing, KeptInv, TasksOK, InOrder
<1>9. CASE \E n \in DOMAIN tasks : AtTask(n)
  BY <1>9, KeptAtTask
<1>10. CASE log.late /\ \E k : Opening(k) \/ Sends(k)
  BY <1>10 DEF Opening, Sends, KeptInv
<1> QED BY <1>1, <1>2, <1>3, <1>4, <1>5, <1>6, <1>7, <1>8, <1>9, <1>10, <1>11, <1>12 DEF Kinds

(* No password is lost: what was generated for a form, or somebody was     *)
(* told is kept, is in the stored vault, through crashes, failed writes,   *)
(* locks and syncs, unless it was deleted or an overlapping write dropped  *)
(* it.                                                                     *)
THEOREM NothingIsLost == Spec => []KeptOnDisk
<1>1. Init => TypeInv /\ MapsAgree /\ KeptInv
  <2>1. Starts => KeptInv
    BY EmptyMap DEF Starts, KeptInv, TasksOK, InOrder
  <2> QED BY <2>1, InitTypes, StartsAgree
<1>2. TypeInv /\ MapsAgree /\ KeptInv /\ [Next]_vars => (TypeInv /\ MapsAgree /\ KeptInv)'
  BY TypeStep, AgreeStep, KeptStep
<1>3. KeptInv => KeptOnDisk
  BY DEF KeptInv, KeptOnDisk
<1> QED BY <1>1, <1>2, <1>3, PTL DEF Spec

-----------------------------------------------------------------------------
(* Half-made entries.  One id at most holds one for a site, or is about to *)
(* because a write made from what its record is now is under way: so of    *)
(* every map that is stored or waits to be, at most one record is one.     *)
Half(e, s) == LiveOf(e) # None /\ e.body.provisional /\ e.body.urls = {s}
Makes(k, i, s, e) ==
  /\ Sealing(k) /\ k.does \in Writers /\ i \in DOMAIN k.new
  /\ RevOf(k.seen[i]) = RevOf(e[i]) /\ Half(k.new[i], s)
(* Revisions only rise, so what was overtaken stays so.                    *)
Rising(k, e) ==
  /\ Sealing(k) /\ k.does \in Writers =>
       \A i \in DOMAIN k.new :
         RevOf(k.seen[i]) <= RevOf(e[i]) /\ RevOf(k.new[i]) = RevOf(k.seen[i]) + 1
  /\ Sealing(k) /\ k.does = "sync" =>
       \A i \in Ids : /\ k.new[i] = k.seen[i] \/ RevOf(k.seen[i]) < RevOf(k.new[i])
                      /\ \A s \in Sites : Half(k.new[i], s) => Half(k.seen[i], s)
Spot(i, s) == Half(env[i], s) \/ \E n \in DOMAIN tasks : Makes(tasks[n], i, s, env)
Alone(m, s) == \A i, j \in Ids : Half(m[i], s) /\ Half(m[j], s) => i = j
OneSpot(s) ==
  /\ Alone(disk, s) /\ \A n \in DOMAIN tasks : tasks[n].at = "store" => Alone(tasks[n].new, s)
  /\ \A i, j \in Ids : Spot(i, s) /\ Spot(j, s) => i = j
  /\ \A n \in DOMAIN tasks, i \in Ids :
       Makes(tasks[n], i, s, env) => Half(env[i], s) \/ Generating(tasks[n], s)
HalfInv ==
  /\ log.torn \subseteq log.over
  /\ log.late \/ log.over # {} \/
       /\ \A n \in DOMAIN tasks : Rising(tasks[n], env)
       /\ \A s \in Sites \ log.twice : OneSpot(s)

LEMMA RevTyped ==
  ASSUME TypeInv
  PROVE  /\ \A m \in Maps : \A i \in DOMAIN m : RevOf(m[i]) \in Nat
         /\ \A m \in EnvMaps : \A i \in Ids : RevOf(m[i]) \in Nat
<1>1. \A e \in Envelopes \cup {None} : RevOf(e) \in Nat
  BY DEF RevOf, Envelopes
<1> QED BY <1>1, MapFacts DEF EnvMaps

(* A handler that joins: it is in step, stores what there is, writes one   *)
(* record, and makes a half-made entry only where there is one, or where   *)
(* there is none for its site.                                             *)
Fits(w) ==
  /\ Rising(w, env') /\ (w.at = "store" => w.new = env')
  /\ Sealing(w) /\ w.does \in Writers => \A i, j \in DOMAIN w.new : i = j
  /\ \A s \in Sites \ log'.twice, i \in Ids : Makes(w, i, s, env') =>
       \/ Half(env'[i], s)
       \/ Generating(w, s) /\ \A j \in Ids : ~Spot(j, s)
Rises(e, f) == \A i \in Ids : f[i] = e[i] \/ RevOf(e[i]) < RevOf(f[i])
(* What every step but a crash does.                                       *)
Follows(w) ==
  /\ log.twice \subseteq log'.twice
  /\ Rises(env, env')
  /\ \A s \in Sites \ log'.twice, i \in Ids : Half(env'[i], s) => Spot(i, s)
  /\ \A m \in DOMAIN tasks' :
       (\E n \in DOMAIN tasks : tasks'[m] = tasks[n]) \/ (tasks'[m] = w /\ Fits(w))
  /\ \/ disk' = disk
     \/ \E n \in DOMAIN tasks : tasks[n].at = "store" /\ disk' = tasks[n].new

LEMMA Overtaken ==
  ASSUME TypeInv, TypeInv', Rises(env, env'), NEW n \in DOMAIN tasks, Rising(tasks[n], env)
  PROVE  /\ Rising(tasks[n], env')
         /\ \A i \in Ids : \A s : Makes(tasks[n], i, s, env') =>
                                env'[i] = env[i] /\ Makes(tasks[n], i, s, env)
<1> DEFINE k == tasks[n]
<1>1. /\ \A i \in Ids : RevOf(env[i]) \in Nat /\ RevOf(env'[i]) \in Nat
      /\ \A i \in Ids : RevOf(env[i]) <= RevOf(env'[i])
  <2>1. \A i \in Ids : RevOf(env[i]) \in Nat /\ RevOf(env'[i]) \in Nat
    BY RevTyped, TypeParts DEF TypeInv, TypeOK
  <2> QED BY <2>1 DEF Rises
<1>2. ASSUME Sealing(k), k.does \in Writers
      PROVE  \A i \in DOMAIN k.new : i \in Ids /\ RevOf(k.seen[i]) \in Nat
  <2>1. PICK j \in Ids : WritesOne(k, j)
    BY <1>2, TaskParts DEF Shape, Sealing
  <2>2. k.seen \in Maps /\ DOMAIN k.seen = {j} /\ DOMAIN k.new = {j}
    BY <2>1, TaskParts DEF WritesOne
  <2> QED BY <2>2, RevTyped
<1> HIDE DEF k
<1>3. Rising(k, env')
  <2>1. ASSUME Sealing(k), k.does \in Writers, NEW i \in DOMAIN k.new
        PROVE  RevOf(k.seen[i]) <= RevOf(env'[i]) /\ RevOf(k.new[i]) = RevOf(k.seen[i]) + 1
    <3>1. i \in Ids /\ RevOf(k.seen[i]) \in Nat
      BY <1>2, <2>1
    <3>2. RevOf(k.seen[i]) <= RevOf(env[i]) /\ RevOf(k.new[i]) = RevOf(k.seen[i]) + 1
      BY <2>1 DEF Rising, k
    <3> QED BY <1>1, <3>1, <3>2
  <2> QED BY <2>1 DEF Rising, k
<1>4. ASSUME NEW i \in Ids, NEW s, Makes(k, i, s, env')
      PROVE  env'[i] = env[i] /\ Makes(k, i, s, env)
  <2>1. /\ Sealing(k) /\ k.does \in Writers /\ i \in DOMAIN k.new
        /\ RevOf(k.seen[i]) = RevOf(env'[i]) /\ Half(k.new[i], s)
    BY <1>4 DEF Makes
  <2>2. RevOf(k.seen[i]) <= RevOf(env[i]) /\ RevOf(k.seen[i]) \in Nat
    BY <1>2, <2>1 DEF Rising, k
  <2>3. RevOf(env[i]) = RevOf(env'[i])
    BY <1>1, <2>1, <2>2
  <2>4. env'[i] = env[i]
    BY <1>1, <2>3 DEF Rises
  <2> QED BY <2>1, <2>4 DEF Makes
<1> QED BY <1>3, <1>4 DEF k

LEMMA HalfFollows ==
  ASSUME TypeInv, TypeInv', NEW w, Follows(w),
         \A n \in DOMAIN tasks : Rising(tasks[n], env),
         \A s \in Sites \ log.twice : OneSpot(s)
  PROVE  /\ \A m \in DOMAIN tasks' : Rising(tasks'[m], env')
         /\ \A s \in Sites \ log'.twice : OneSpot(s)'
<1> DEFINE Old(m) == \E n \in DOMAIN tasks : tasks'[m] = tasks[n]
<1>1. \A m \in DOMAIN tasks' : Old(m) \/ (tasks'[m] = w /\ Fits(w))
  BY DEF Follows
<1>2. ASSUME NEW m \in DOMAIN tasks', Old(m)
      PROVE  /\ Rising(tasks'[m], env')
             /\ \A i \in Ids : \A s : Makes(tasks'[m], i, s, env') =>
                  /\ env'[i] = env[i]
                  /\ \E n \in DOMAIN tasks : tasks'[m] = tasks[n] /\ Makes(tasks[n], i, s, env)
  BY <1>2, Overtaken DEF Follows
<1>3. \A m \in DOMAIN tasks' : Rising(tasks'[m], env')
  BY <1>1, <1>2 DEF Fits
<1>4. ASSUME NEW s \in Sites \ log'.twice PROVE OneSpot(s)'
  <2> DEFINE fresh == Fits(w) /\ \A j \in Ids : ~Spot(j, s)
  <2>1. s \in Sites \ log.twice /\ OneSpot(s)
    BY DEF Follows
  <2>2. \A i \in Ids : Half(env'[i], s) => Spot(i, s)
    BY DEF Follows
  <2>3. ASSUME NEW i \in Ids, NEW m \in DOMAIN tasks', Makes(tasks'[m], i, s, env')
        PROVE  /\ Half(env'[i], s) \/ Generating(tasks'[m], s)
               /\ Spot(i, s) \/ (fresh /\ tasks'[m] = w)
    <3>1. CASE Old(m)
      <4>1. /\ env'[i] = env[i]
            /\ \E n \in DOMAIN tasks : tasks'[m] = tasks[n] /\ Makes(tasks[n], i, s, env)
        BY <1>2, <2>3, <3>1
      <4> QED BY <2>1, <4>1 DEF OneSpot, Spot
    <3>2. CASE tasks'[m] = w /\ Fits(w)
      BY <2>2, <2>3, <3>2 DEF Fits
    <3> QED BY <1>1, <3>1, <3>2
  <2>4. \A i \in Ids : Spot(i, s)' => Spot(i, s) \/ (fresh /\ Makes(w, i, s, env'))
    BY <2>2, <2>3 DEF Spot
  <2>5. \A i, j \in Ids : Spot(i, s)' /\ Spot(j, s)' => i = j
    <3>1. CASE fresh
      BY <2>4, <3>1 DEF Makes, Fits
    <3>2. CASE ~fresh
      BY <2>1, <2>4, <3>2 DEF OneSpot
    <3> QED BY <3>1, <3>2
  <2>6. Alone(env', s)
    BY <2>5 DEF Alone, Spot
  <2>7. Alone(disk', s)
    BY <2>1 DEF OneSpot, Follows
  <2>8. \A m \in DOMAIN tasks' : tasks'[m].at = "store" => Alone(tasks'[m].new, s)
    BY <1>1, <2>1, <2>6 DEF OneSpot, Fits
  <2> HIDE DEF fresh
  <2>9. OneSpot(s)' <=>
          /\ Alone(disk', s)
          /\ \A m \in DOMAIN tasks' : tasks'[m].at = "store" => Alone(tasks'[m].new, s)
          /\ \A i, j \in Ids : Spot(i, s)' /\ Spot(j, s)' => i = j
          /\ \A m \in DOMAIN tasks', i \in Ids :
               Makes(tasks'[m], i, s, env') => Half(env'[i], s) \/ Generating(tasks'[m], s)
    BY DEF OneSpot, Alone, Makes, Half, Generating, Sealing
  <2> QED BY <2>3, <2>5, <2>7, <2>8, <2>9
<1> QED BY <1>3, <1>4

LEMMA HalfWrite ==
  ASSUME TypeInv, MapsAgree, ~log.late, log.torn = {}, NEW k, NEW i, NEW b, Write(k, i, b),
         \A s \in Sites \ log.twice : OneSpot(s)
  PROVE  Follows(Writing(k, i, b))
<1> DEFINE w == Writing(k, i, b)
<1>1. /\ k \in TaskRecs /\ k.at = "seal" /\ k.does \in Writers /\ i \in Ids
      /\ b \in Bodies \cup {None} /\ Room(w) /\ ~locked
      /\ env' = env /\ disk' = disk /\ log.twice \subseteq log'.twice
  BY DEF Write, Begins, SealedTask, vault, SameLog
<1>2. WritesAs(w, k, i, b, env[i])
  BY <1>1, WritingFacts, TypeParts
<1> HIDE DEF w
<1>3. /\ w \in TaskRecs /\ w.at = "seal" /\ w.does \in Writers /\ DOMAIN w.new = {i}
      /\ w.seen[i] = env[i] /\ w.new[i] # None /\ w.new[i].body = b
      /\ RevOf(w.new[i]) = RevOf(env[i]) + 1 /\ w.does = k.does /\ w.site = k.site
  BY <1>1, <1>2 DEF WritesAs, RevOf
<1>4. Rising(w, env')
  <2>1. RevOf(env[i]) \in Nat
    BY <1>1, RevTyped, TypeParts
  <2> QED BY <1>1, <1>3, <2>1 DEF Rising, Writers
<1>5. \A j \in Ids : plain[j] = LiveOf(env[j])
  BY <1>1 DEF MapsAgree
<1>6. ASSUME NEW s \in Sites \ log'.twice, NEW j \in Ids, Makes(w, j, s, env')
      PROVE  Half(env'[j], s) \/ (Generating(w, s) /\ \A l \in Ids : ~Spot(l, s))
  <2>1. j = i /\ b # None /\ b.provisional /\ b.urls = {s}
    BY <1>3, <1>6 DEF Makes, Half, LiveOf
  <2>2. CASE /\ plain[i] # None /\ plain[i].provisional
             /\ b.urls = plain[i].urls \/ b.urls \subseteq log'.twice
    BY <1>1, <1>5, <2>1, <2>2 DEF Half, LiveOf
  <2>3. CASE k.does = "generate" /\ b.urls = {k.site} /\ Provisional(k.site) = {}
    <3>1. k.site = s
      BY <2>1, <2>3
    <3>2. \A n \in DOMAIN tasks : ~Generating(tasks[n], s)
      BY <2>3, <3>1 DEF Write, HalfMade
    <3>3. \A l \in Ids : ~Half(env[l], s)
      BY <1>5, <2>3, <3>1 DEF Provisional, MatchesFor, Known, Half, LiveOf
    <3>4. \A l \in Ids : ~Spot(l, s)
      BY <1>1, <3>2, <3>3 DEF Spot, OneSpot
    <3>5. Generating(w, s)
      BY <1>3, <2>3, <3>1 DEF Generating, Sealing
    <3> QED BY <3>4, <3>5
  <2> QED BY <2>1, <2>2, <2>3 DEF Write, HalfMade
<1>7. Fits(w)
  BY <1>3, <1>4, <1>6 DEF Fits
<1>8. \A m \in DOMAIN tasks' : (\E n \in DOMAIN tasks : tasks'[m] = tasks[n]) \/ tasks'[m] = w
  BY <1>1, <1>3, SealsJoin
<1> QED BY <1>1, <1>7, <1>8 DEF Follows, Rises, Spot, w

LEMMA HalfPull ==
  ASSUME TypeInv, NEW k, NEW i, Pulled(k, i) PROVE Follows(k)
<1>1. /\ k \in TaskRecs /\ k.does = "sync" /\ k.seen = env /\ i \in Ids /\ Room(k)
      /\ \A j \in Ids \ {i} : k.new[j] = env[j]
      /\ RevOf(env[i]) < RevOf(k.new[i]) /\ env[i] \in Envelopes /\ env[i].body \in Bodies
      /\ k.new[i] \in Envelopes
      /\ disk' = disk /\ log'.twice = log.twice
      /\ (k.at = "seal" /\ env' = env) \/ (k.at = "store" /\ env' = k.new)
  BY DEF Pulled, page
<1>2. ASSUME NEW j \in Ids, NEW s, Half(k.new[j], s) PROVE Half(env[j], s)
  <2>1. CASE j = i
    <3>1. k.new[i].body # None /\ k.new[i].body.provisional /\ k.new[i].body.urls = {s}
      BY <1>1, <1>2, <2>1 DEF Half, LiveOf
    <3>2. k.new[i].body.urls = env[i].body.urls /\ k.new[i].body.provisional = env[i].body.provisional
      BY <3>1 DEF Pulled, IsPatch
    <3> QED BY <1>1, <2>1, <3>1, <3>2 DEF Half, LiveOf
  <2> QED BY <1>1, <1>2, <2>1
<1>3. \A j \in Ids : k.new[j] = env[j] \/ RevOf(env[j]) < RevOf(k.new[j])
  BY <1>1
<1>4. Fits(k)
  BY <1>1, <1>2, <1>3 DEF Fits, Rising, Makes, Writers
<1>5. \A m \in DOMAIN tasks' : tasks'[m] = k \/ \E j \in DOMAIN tasks : tasks'[m] = tasks[j]
  BY <1>1, SealsJoin
<1>6. \A s \in Sites \ log'.twice, j \in Ids : Half(env'[j], s) => Spot(j, s)
  BY <1>1, <1>2 DEF Spot
<1> QED BY <1>1, <1>3, <1>4, <1>5, <1>6 DEF Follows, Rises

LEMMA HalfOpening ==
  ASSUME TypeInv, NEW k, Opening(k) PROVE Follows(k)
<1>1. /\ k \in TaskRecs /\ k.does = "open" /\ k.at = "seal" /\ Room(k)
      /\ env' = env /\ disk' = disk /\ log' = log
  BY DEF Opening, vault
<1>2. Fits(k)
  BY <1>1 DEF Fits, Rising, Makes, Sealing
<1> QED BY <1>1, <1>2, SealsJoin DEF Follows, Rises, Spot

LEMMA HalfSend ==
  ASSUME TypeInv, NEW k, Sends(k) PROVE Follows(k)
<1>1. /\ k \in TaskRecs /\ k.does = "send" /\ k.at = "page" /\ Room(k)
      /\ env' = env /\ disk' = disk /\ log' = log
  BY DEF Sends, vault
<1>2. Fits(k)
  BY <1>1 DEF Fits, Rising, Makes, Sealing
<1> QED BY <1>1, <1>2, SealsJoin DEF Follows, Rises, Spot

(* Where a tab leads changes nothing that a half-made entry rests on.      *)
LEMMA HalfLead ==
  ASSUME TypeInv, Leads,
         \A n \in DOMAIN tasks : Rising(tasks[n], env),
         \A s \in Sites \ log.twice : OneSpot(s)
  PROVE  /\ \A m \in DOMAIN tasks' : Rising(tasks'[m], env')
         /\ \A s \in Sites \ log'.twice : OneSpot(s)'
<1>1. /\ env' = env /\ disk' = disk /\ log' = log
      /\ DOMAIN tasks' = DOMAIN tasks /\ \A n \in DOMAIN tasks : Alike(tasks'[n], tasks[n])
  BY DEF Leads, vault
<1>2. ASSUME NEW m \in DOMAIN tasks'
      PROVE  /\ Rising(tasks'[m], env') /\ m \in DOMAIN tasks
             /\ tasks'[m].at = tasks[m].at /\ tasks'[m].new = tasks[m].new
             /\ \A i, s : Makes(tasks'[m], i, s, env') <=> Makes(tasks[m], i, s, env)
             /\ \A s : Generating(tasks'[m], s) <=> Generating(tasks[m], s)
  <2>1. m \in DOMAIN tasks /\ Alike(tasks'[m], tasks[m]) /\ Rising(tasks[m], env)
    BY <1>1
  <2> QED BY <1>1, <2>1 DEF Alike, Rising, Makes, Generating, Sealing
<1>3. ASSUME NEW s \in Sites \ log'.twice PROVE OneSpot(s)'
  <2>1. OneSpot(s)
    BY <1>1
  <2>2. \A i \in Ids : Spot(i, s)' => Spot(i, s)
    BY <1>1, <1>2 DEF Spot
  <2>3. /\ Alone(disk, s)'
        /\ \A m \in DOMAIN tasks' : tasks'[m].at = "store" => Alone(tasks'[m].new, s)
    BY <1>1, <1>2, <2>1 DEF OneSpot, Alone
  <2>4. \A i, j \in Ids : Spot(i, s)' /\ Spot(j, s)' => i = j
    BY <2>1, <2>2 DEF OneSpot
  <2>5. \A m \in DOMAIN tasks', i \in Ids :
          Makes(tasks'[m], i, s, env') => Half(env'[i], s) \/ Generating(tasks'[m], s)
    BY <1>1, <1>2, <2>1 DEF OneSpot
  <2>6. OneSpot(s)' <=>
          /\ Alone(disk', s)
          /\ \A m \in DOMAIN tasks' : tasks'[m].at = "store" => Alone(tasks'[m].new, s)
          /\ \A i, j \in Ids : Spot(i, s)' /\ Spot(j, s)' => i = j
          /\ \A m \in DOMAIN tasks', i \in Ids :
               Makes(tasks'[m], i, s, env') => Half(env'[i], s) \/ Generating(tasks'[m], s)
    BY DEF OneSpot, Alone, Makes, Half, Generating, Sealing
  <2> QED BY <2>3, <2>4, <2>5, <2>6
<1> QED BY <1>2, <1>3

(* A seal that lands in time.                                              *)
LEMMA HalfLands ==
  ASSUME TypeInv, TypeInv', NEW n \in DOMAIN tasks, Rising(tasks[n], env),
         Stale(tasks[n]) = {}, (\E i : Landed(tasks[n], i)) \/ Synced(tasks[n])
  PROVE  /\ Rises(env, env') /\ disk' = disk /\ log'.twice = log.twice
         /\ \A s \in Sites, i \in Ids : Half(env'[i], s) => Spot(i, s)
<1> DEFINE k == tasks[n]
<1>1. ASSUME NEW i, Landed(k, i)
      PROVE  /\ Rises(env, env') /\ disk' = disk /\ log'.twice = log.twice
             /\ \A s \in Sites, j \in Ids : Half(env'[j], s) => Spot(j, s)
  <2>1. /\ Sealing(k) /\ k.does \in Writers /\ i \in Ids /\ env'[i] = k.new[i]
        /\ \A j \in Ids \ {i} : env'[j] = env[j]
        /\ disk' = disk /\ log'.twice = log.twice
        /\ DOMAIN k.seen = {i} /\ DOMAIN k.new = {i}
    BY <1>1 DEF Landed, Ghost, WritesOne
  <2>2. k.seen[i] = env[i]
    BY <2>1 DEF Stale
  <2>3. RevOf(env[i]) \in Nat /\ RevOf(k.new[i]) = RevOf(env[i]) + 1
    BY <2>1, <2>2, RevTyped, TypeParts DEF Rising
  <2>4. Rises(env, env')
    BY <2>1, <2>3 DEF Rises
  <2>5. ASSUME NEW s \in Sites, NEW j \in Ids, Half(env'[j], s) PROVE Spot(j, s)
    <3>1. CASE j = i
      <4>1. Makes(k, i, s, env)
        BY <2>1, <2>2, <2>5, <3>1 DEF Makes
      <4> QED BY <3>1, <4>1 DEF Spot
    <3>2. CASE j # i
      BY <2>1, <2>5, <3>2 DEF Spot
    <3> QED BY <3>1, <3>2
  <2> QED BY <2>1, <2>4, <2>5
<1>2. CASE Synced(k)
  <2>1. /\ Sealing(k) /\ k.does = "sync" /\ DOMAIN k.seen = Ids
        /\ \A i \in Ids : env'[i] = k.new[i]
        /\ disk' = disk /\ log'.twice = log.twice
    BY <1>2 DEF Synced, EnvMaps, Ghost
  <2>2. \A i \in Ids : k.seen[i] = env[i]
    BY <2>1 DEF Stale
  <2> QED BY <2>1, <2>2 DEF Rising, Rises, Spot
<1> QED BY <1>1, <1>2

LEMMA HalfAtTask ==
  ASSUME TypeInv, TypeInv', MapsAgree, ~log.late, log.torn = {}, NEW n \in DOMAIN tasks, AtTask(n), Rising(tasks[n], env),
         log'.over = {}
  PROVE  \E w : Follows(w)
<1> DEFINE k == tasks[n]
<1>1. ASSUME tasks' = RemoveAt(tasks, n), env' = env, log'.twice = log.twice,
             disk' = disk \/ (k.at = "store" /\ disk' = k.new)
      PROVE  \E w : Follows(w)
  <2>1. \A m \in DOMAIN tasks' : \E j \in DOMAIN tasks : tasks'[m] = tasks[j]
    BY <1>1, TasksLeave
  <2>2. Follows(None)
    BY <1>1, <2>1 DEF Follows, Rises, Spot
  <2> QED BY <2>2
<1>2. ASSUME (\E i : Landed(k, i)) \/ Synced(k)
      PROVE  /\ Rises(env, env') /\ disk' = disk /\ log'.twice = log.twice
             /\ \A s \in Sites, i \in Ids : Half(env'[i], s) => Spot(i, s)
             /\ env' \in EnvMaps
  <2>1. Stale(k) = {} /\ env' \in EnvMaps
    BY <1>2 DEF Landed, Synced
  <2> QED BY <1>2, <2>1, HalfLands
<1>3. ASSUME Toward(n, env'), (\E i : Landed(k, i)) \/ Synced(k) PROVE \E w : Follows(w)
  <2>1. PICK w : Storing(w, k, env') /\ tasks' = Append(RemoveAt(tasks, n), w)
    BY <1>3 DEF Toward
  <2>2. w \in TaskRecs /\ w.at = "store" /\ w.new = env'
    BY <2>1 DEF Storing
  <2>3. Fits(w)
    BY <2>2 DEF Fits, Rising, Makes, Sealing
  <2>4. \A m \in DOMAIN tasks' : tasks'[m] = w \/ \E j \in DOMAIN tasks : tasks'[m] = tasks[j]
    BY <2>1, <2>2, TasksMove
  <2>5. Follows(w)
    BY <1>2, <1>3, <2>3, <2>4 DEF Follows
  <2> QED BY <2>5
<1>4. ASSUME Onward(n, k), NEW i, Landed(k, i) PROVE \E w : Follows(w)
  <2>1. CASE tasks' = RemoveAt(tasks, n)
    <3>1. \A m \in DOMAIN tasks' : \E j \in DOMAIN tasks : tasks'[m] = tasks[j]
      BY <2>1, TasksLeave
    <3>2. Follows(None)
      BY <1>2, <1>4, <3>1 DEF Follows
    <3> QED BY <3>2
  <2>2. ASSUME NEW w, NEW d, SealedTask(d), d.does = "complete", k.other \in Ids,
               WritesAs(w, d, k.other, None, env[k.other]), tasks' = [tasks EXCEPT ![n] = w]
        PROVE  Follows(w)
    <3>1. /\ w \in TaskRecs /\ w.at = "seal" /\ w.does = "complete" /\ DOMAIN w.new = {k.other}
          /\ w.seen[k.other] = env[k.other] /\ w.new[k.other] # None /\ w.new[k.other].body = None
          /\ RevOf(w.new[k.other]) = RevOf(env[k.other]) + 1
      BY <2>2 DEF WritesAs, SealedTask, RevOf
    <3>2. RevOf(env[k.other]) <= RevOf(env'[k.other])
      <4>1. RevOf(env[k.other]) \in Nat /\ RevOf(env'[k.other]) \in Nat
        BY <1>2, <1>4, <2>2, RevTyped, TypeParts
      <4> QED BY <1>2, <1>4, <2>2, <4>1 DEF Rises
    <3>3. Rising(w, env')
      BY <3>1, <3>2 DEF Rising
    <3>4. \A s, j : ~Makes(w, j, s, env')
      BY <3>1 DEF Makes, Half, LiveOf
    <3>5. Fits(w)
      BY <3>1, <3>3, <3>4 DEF Fits
    <3>6. \A m \in DOMAIN tasks' : m \in DOMAIN tasks /\ (tasks'[m] = tasks[m] \/ tasks'[m] = w)
      BY <2>2, <3>1, WaitFacts, ExceptSeq
    <3> QED BY <1>2, <1>4, <3>5, <3>6 DEF Follows
  <2> QED BY <1>4, <2>1, <2>2 DEF Onward
<1>5. CASE Opened(n, k)
  BY <1>1, <1>5 DEF Opened, SameGone, page
<1>6. CASE Settled(n, k)
  BY <1>1, <1>6 DEF Settled, SameGone, vault, FirstStore
<1>7. CASE Failed(n)
  BY <1>1, <1>7 DEF Failed, vault, page
<1>8. CASE Touches(n, k)
  <2>1. PICK w, d : /\ SealedTask(d) /\ d.does = "touch"
                    /\ WritesAs(w, d, k.other, plain[k.other], env[k.other])
                    /\ tasks' = [tasks EXCEPT ![n] = w]
    BY <1>8 DEF Touches
  <2>2. /\ k.other \in Ids /\ plain[k.other] = LiveOf(env[k.other])
        /\ env' = env /\ disk' = disk /\ log' = log
    BY <1>8 DEF Touches, vault, MapsAgree
  <2>3. /\ w \in TaskRecs /\ w.at = "seal" /\ w.does = "touch" /\ DOMAIN w.new = {k.other}
        /\ w.seen[k.other] = env[k.other] /\ w.new[k.other] # None
        /\ w.new[k.other].body = plain[k.other]
        /\ RevOf(w.new[k.other]) = RevOf(env[k.other]) + 1
    BY <2>1, <2>2 DEF WritesAs, SealedTask, RevOf
  <2>4. Rising(w, env')
    <3>1. RevOf(env[k.other]) \in Nat
      BY <2>2, RevTyped, TypeParts
    <3> QED BY <2>2, <2>3, <3>1 DEF Rising
  <2>5. \A s, j : Makes(w, j, s, env') => Half(env'[j], s)
    BY <2>2, <2>3 DEF Makes, Half, LiveOf
  <2>6. Fits(w)
    BY <2>3, <2>4, <2>5 DEF Fits
  <2>7. \A m \in DOMAIN tasks' : m \in DOMAIN tasks /\ (tasks'[m] = tasks[m] \/ tasks'[m] = w)
    BY <2>1, <2>3, WaitFacts, ExceptSeq
  <2>8. Follows(w)
    BY <2>2, <2>6, <2>7 DEF Follows, Rises, Spot
  <2> QED BY <2>8
<1> QED BY <1>3, <1>4, <1>5, <1>6, <1>7, <1>8 DEF AtTask

(* What every step leaves of the ghost.                                    *)
LEMMA GhostGrows ==
  ASSUME TypeInv, log.torn \subseteq log.over, [Next]_vars
  PROVE  /\ log'.torn \subseteq log'.over /\ (~log'.late => ~log.late)
         /\ (log'.over = {} => log.over = {})
<1>1. Kinds
  BY EveryStep
<1>2. ASSUME NEW n \in DOMAIN tasks, AtTask(n)
      PROVE  /\ log'.torn \subseteq log'.over /\ (~log'.late => ~log.late)
             /\ (log'.over = {} => log.over = {})
  BY <1>2 DEF AtTask, Opened, SameGone, Landed, Synced, Ghost, Settled, Failed, Touches
<1> QED BY <1>1, <1>2 DEF Kinds, Looks, Offered, Leads, SameLog, Write, Begins, Pulled, Unchanged,
       Sends, Opening, Locking, Crashing

LEMMA HalfStep == ASSUME TypeInv, MapsAgree, HalfInv, [Next]_vars PROVE HalfInv'
<1>1. Kinds /\ TypeInv' /\ log'.torn \subseteq log'.over
  BY EveryStep, TypeStep, GhostGrows DEF HalfInv
<1> SUFFICES ASSUME ~log'.late, log'.over = {}
             PROVE  /\ \A m \in DOMAIN tasks' : Rising(tasks'[m], env')
                    /\ \A s \in Sites \ log'.twice : OneSpot(s)'
  BY <1>1 DEF HalfInv, Rising, Half, Sealing
<1>2. /\ ~log.late /\ log.over = {} /\ log.torn = {}
      /\ \A n \in DOMAIN tasks : Rising(tasks[n], env)
      /\ \A s \in Sites \ log.twice : OneSpot(s)
  BY GhostGrows DEF HalfInv
<1>3. ASSUME NEW w, Follows(w)
      PROVE  /\ \A m \in DOMAIN tasks' : Rising(tasks'[m], env')
             /\ \A s \in Sites \ log'.twice : OneSpot(s)'
  BY <1>1, <1>2, <1>3, HalfFollows
<1>4. ASSUME UNCHANGED <<env, disk, tasks>>, log'.twice = log.twice PROVE Follows(None)
  BY <1>4 DEF Follows, Rises, Spot
<1>5. CASE Looks \/ Offered \/ Locking
  BY <1>3, <1>4, <1>5 DEF Looks, Offered, Locking, vault
<1>6. ASSUME NEW k, NEW i, NEW b, Write(k, i, b) PROVE \E w : Follows(w)
  BY <1>2, <1>6, HalfWrite
<1>7. ASSUME NEW k, NEW i, Pulled(k, i) PROVE \E w : Follows(w)
  BY <1>7, HalfPull
<1>8. ASSUME NEW k, Opening(k) PROVE \E w : Follows(w)
  BY <1>8, HalfOpening
<1>11. ASSUME NEW k, Sends(k) PROVE \E w : Follows(w)
  BY <1>11, HalfSend
<1>12. CASE Leads
  BY <1>2, <1>12, HalfLead
<1>9. CASE Crashing
  <2>1. /\ tasks' = <<>> /\ DOMAIN tasks' = {} /\ env' = disk /\ disk' = disk /\ log'.twice = log.twice
    BY <1>9, EmptyMap DEF Crashing
  <2>2. ASSUME NEW s \in Sites \ log'.twice PROVE OneSpot(s)'
    BY <1>2, <2>1 DEF OneSpot, Spot, Alone, Half
  <2> QED BY <2>1, <2>2
<1>10. ASSUME NEW n \in DOMAIN tasks, AtTask(n) PROVE \E w : Follows(w)
  BY <1>1, <1>2, <1>10, HalfAtTask
<1> QED BY <1>1, <1>3, <1>5, <1>6, <1>7, <1>8, <1>9, <1>10, <1>11, <1>12 DEF Kinds

LEMMA StartsHalf == ASSUME Starts PROVE HalfInv
<1>1. \A i, j \in Ids : LiveOf(env[i]) # None /\ LiveOf(env[j]) # None => i = j
  BY DEF Starts, LiveOf
<1>2. ASSUME NEW s \in Sites PROVE OneSpot(s)
  BY <1>1 DEF Starts, OneSpot, Alone, Spot, Half
<1> QED BY <1>2 DEF Starts, HalfInv

(* However often a password is generated for a site, over crashes, locks,  *)
(* failed writes and syncs, one half-made entry stands for it, unless two  *)
(* handlers generated for it at once, somebody moved another there, or a   *)
(* write overlapped another (keepGenerated()).                             *)
THEOREM OneHalfMade == Spec => []OneProvisional
<1>1. Init => TypeInv /\ MapsAgree /\ HalfInv
  BY InitTypes, StartsAgree, StartsHalf
<1>2. TypeInv /\ MapsAgree /\ HalfInv /\ [Next]_vars => (TypeInv /\ MapsAgree /\ HalfInv)'
  BY TypeStep, AgreeStep, HalfStep
<1>3. HalfInv => OneProvisional
  <2>1. ASSUME HalfInv, ~log.late, log.over = {}, NEW s \in Sites \ log.twice
        PROVE  Cardinality({i \in Ids : /\ LiveOf(env[i]) # None
                             /\ env[i].body.provisional /\ env[i].body.urls = {s}}) <= 1
    <3> DEFINE T == {i \in Ids : /\ LiveOf(env[i]) # None
                             /\ env[i].body.provisional /\ env[i].body.urls = {s}}
    <3>1. \A i, j \in T : i = j
      BY <2>1 DEF HalfInv, OneSpot, Spot, Half
    <3> HIDE DEF T
    <3>2. T = {} \/ \E i : T = {i}
      <4>1. ASSUME NEW i \in T PROVE T = {i}
        BY <3>1, <4>1
      <4> QED BY <4>1
    <3>3. Cardinality(T) = 0 \/ Cardinality(T) = 1
      BY <3>2, FS_EmptySet, FS_Singleton
    <3>4. Cardinality(T) <= 1
      BY <3>3
    <3> QED BY <3>4 DEF T
  <2> QED BY <2>1 DEF OneProvisional
<1> QED BY <1>1, <1>2, <1>3, PTL DEF Spec

=============================================================================
