----------------------------- MODULE TabProofs -----------------------------
(***************************************************************************)
(* Tab.tla, for every page, form and site, every number of documents, and  *)
(* anything the person and the page may do.                                *)
(***************************************************************************)
EXTENDS Tab, SequenceTheorems, FiniteSetTheorems, TLAPS

USE BoxAssumption, BoundsAssumption, NoneAssumption

LEMMA Least ==
  ASSUME NEW T, T \subseteq Nat, T # {}
  PROVE  \E n \in T : \A m \in T : n <= m
<1> DEFINE R == StrictSubsetOrdering(Nat)
           U == {1 .. n : n \in T}
<1>1. IsWellFoundedOn(R, FiniteSubsetsOf(Nat))
  BY FS_StrictSubsetOrderingWellFounded
<1>2. ASSUME NEW n \in Nat PROVE 1 .. n \in FiniteSubsetsOf(Nat)
  BY FS_Interval DEF FiniteSubsetsOf
<1>3. U \subseteq FiniteSubsetsOf(Nat) /\ U # {}
  <2>1. ASSUME NEW u \in U PROVE u \in FiniteSubsetsOf(Nat)
    <3>1. PICK n \in T : u = 1 .. n
      OBVIOUS
    <3>2. n \in Nat
      OBVIOUS
    <3> QED BY <1>2, <3>1, <3>2
  <2>2. PICK n \in T : TRUE
    OBVIOUS
  <2>3. 1 .. n \in U
    OBVIOUS
  <2> QED BY <2>1, <2>3
<1> HIDE DEF R
<1>4. \E x \in U : \A y \in U : <<y, x>> \notin R
  BY <1>1, <1>3, WFMin
<1>5. PICK n \in T : \A m \in T : <<1 .. m, 1 .. n>> \notin R
  BY <1>4
<1>6. ASSUME NEW m \in T, m < n PROVE FALSE
  <2>1. 1 .. m \in SUBSET Nat /\ 1 .. n \in SUBSET Nat /\ 1 .. m \subseteq 1 .. n /\ n \notin 1 .. m /\ n \in 1 .. n
    BY <1>6
  <2>2. 1 .. m # 1 .. n
    BY <2>1
  <2>3. <<1 .. m, 1 .. n>> \in R
    BY <2>1, <2>2 DEF R, StrictSubsetOrdering
  <2> QED BY <1>5, <2>3
<1>7. \A m \in T : n <= m
  BY <1>6
<1> QED BY <1>7

-----------------------------------------------------------------------------
(* Queues.  Of the messages in T, those that none in S has come after; and *)
(* whether there is at most one of S.                                      *)
Standing(q, T, S) ==
  {m \in T : \E n \in DOMAIN q : q[n] = m /\ \A k \in DOMAIN q : k > n => q[k] \notin S}
Once(q, S) == \A i, j \in DOMAIN q : q[i] \in S /\ q[j] \in S => i = j
Free(q, S) == \A n \in DOMAIN q : q[n] \notin S

LEMMA AppendFacts ==
  ASSUME NEW A, NEW q \in Seq(A), NEW m \in A
  PROVE  /\ Append(q, m) \in Seq(A) /\ DOMAIN Append(q, m) = DOMAIN q \cup {Len(q) + 1}
         /\ DOMAIN q \subseteq Nat /\ Len(q) + 1 \notin DOMAIN q
         /\ \A n \in DOMAIN q : n < Len(q) + 1 /\ Append(q, m)[n] = q[n]
         /\ Append(q, m)[Len(q) + 1] = m /\ Append(q, m) # <<>>
<1>1. /\ Append(q, m) \in Seq(A) /\ Len(Append(q, m)) = Len(q) + 1
      /\ \A i \in 1 .. Len(q) : Append(q, m)[i] = q[i]
      /\ Append(q, m)[Len(q) + 1] = m /\ Append(q, m) # <<>>
  BY AppendProperties
<1>2. DOMAIN Append(q, m) = 1 .. Len(q) + 1 /\ DOMAIN q = 1 .. Len(q) /\ Len(q) \in Nat
  BY <1>1, LenProperties
<1> QED BY <1>1, <1>2

LEMMA TailFacts ==
  ASSUME NEW A, NEW q \in Seq(A), q # <<>>
  PROVE  /\ Tail(q) \in Seq(A) /\ Head(q) \in A /\ 1 \in DOMAIN q /\ q[1] = Head(q)
         /\ DOMAIN q \subseteq Nat /\ DOMAIN Tail(q) \subseteq Nat
         /\ \A n \in DOMAIN Tail(q) : n + 1 \in DOMAIN q /\ Tail(q)[n] = q[n + 1]
         /\ \A n \in DOMAIN q : n = 1 \/ (n > 1 /\ n - 1 \in DOMAIN Tail(q) /\ Tail(q)[n - 1] = q[n])
<1>1. /\ Head(q) \in A /\ Tail(q) \in Seq(A) /\ Len(Tail(q)) = Len(q) - 1
      /\ \A i \in 1 .. Len(Tail(q)) : Tail(q)[i] = q[i + 1]
  BY HeadTailProperties
<1>2. /\ DOMAIN Tail(q) = 1 .. Len(q) - 1 /\ DOMAIN q = 1 .. Len(q)
      /\ Len(q) \in Nat /\ Len(q) # 0
  BY <1>1, LenProperties, EmptySeq
<1>3. q[1] = Head(q)
  BY <1>2
<1> QED BY <1>1, <1>2, <1>3

LEMMA AppendStanding ==
  ASSUME NEW A, NEW q \in Seq(A), NEW m \in A, NEW T, NEW S
  PROVE  /\ m \in S => Standing(Append(q, m), T, S) \subseteq {m}
         /\ m \notin S => Standing(Append(q, m), T, S) \subseteq Standing(q, T, S) \cup ({m} \cap T)
         /\ Free(Append(q, m), S) => Free(q, S) /\ m \notin S
         /\ Free(q, S) /\ m \notin S => Free(Append(q, m), S)
         /\ Once(q, S) /\ (m \notin S \/ Free(q, S)) => Once(Append(q, m), S)
<1> DEFINE p == Append(q, m)
           l == Len(q) + 1
<1>1. /\ DOMAIN p = DOMAIN q \cup {l} /\ DOMAIN q \subseteq Nat /\ l \notin DOMAIN q
      /\ \A n \in DOMAIN q : n < l /\ p[n] = q[n]
      /\ p[l] = m
  BY AppendFacts
<1> HIDE DEF p, l
<1>2. m \in S => Standing(p, T, S) \subseteq {m}
  BY <1>1 DEF Standing
<1>3. m \notin S => Standing(p, T, S) \subseteq Standing(q, T, S) \cup ({m} \cap T)
  BY <1>1 DEF Standing
<1>4. Free(p, S) <=> Free(q, S) /\ m \notin S
  BY <1>1 DEF Free
<1>5. Once(q, S) /\ (m \notin S \/ Free(q, S)) => Once(p, S)
  BY <1>1 DEF Free, Once
<1> QED BY <1>2, <1>3, <1>4, <1>5 DEF p

LEMMA TailStanding ==
  ASSUME NEW A, NEW q \in Seq(A), q # <<>>, NEW T, NEW S
  PROVE  /\ Standing(Tail(q), T, S) \subseteq Standing(q, T, S)
         /\ Free(Tail(q), S) /\ Head(q) \in T => Head(q) \in Standing(q, T, S)
         /\ Free(Tail(q), S) /\ Head(q) \notin S => Free(q, S)
         /\ Free(q, S) => Free(Tail(q), S) /\ Head(q) \notin S
         /\ Once(q, S) => Once(Tail(q), S) /\ (Head(q) \in S => Free(Tail(q), S))
<1> DEFINE t == Tail(q)
           h == Head(q)
<1>1. /\ 1 \in DOMAIN q /\ q[1] = h /\ DOMAIN q \subseteq Nat /\ DOMAIN t \subseteq Nat
      /\ \A n \in DOMAIN t : n + 1 \in DOMAIN q /\ t[n] = q[n + 1]
      /\ \A n \in DOMAIN q : n = 1 \/ (n > 1 /\ n - 1 \in DOMAIN t /\ t[n - 1] = q[n])
  BY TailFacts
<1> HIDE DEF t, h
<1>2. Standing(t, T, S) \subseteq Standing(q, T, S)
  <2> SUFFICES ASSUME NEW m \in T, NEW n \in DOMAIN t, t[n] = m,
                      \A k \in DOMAIN t : k > n => t[k] \notin S
               PROVE  m \in Standing(q, T, S)
    BY DEF Standing
  <2>1. n + 1 \in DOMAIN q /\ q[n + 1] = m
    BY <1>1
  <2>2. ASSUME NEW k \in DOMAIN q, k > n + 1 PROVE q[k] \notin S
    <3>1. k # 1 /\ k - 1 > n
      BY <1>1, <2>2
    <3> QED BY <1>1, <3>1
  <2> QED BY <2>1, <2>2 DEF Standing
<1>3. Free(t, S) /\ h \in T => h \in Standing(q, T, S)
  BY <1>1 DEF Standing, Free
<1>4. Free(t, S) /\ h \notin S => Free(q, S)
  BY <1>1 DEF Free
<1>5. Free(q, S) => Free(t, S) /\ h \notin S
  BY <1>1 DEF Free
<1>6. ASSUME Once(q, S) PROVE Once(t, S) /\ (h \in S => Free(t, S))
  <2>1. Once(t, S)
    <3> SUFFICES ASSUME NEW i \in DOMAIN t, NEW j \in DOMAIN t, t[i] \in S, t[j] \in S
                 PROVE  i = j
      BY DEF Once
    <3>1. i + 1 = j + 1
      BY <1>1, <1>6 DEF Once
    <3> QED BY <1>1, <3>1
  <2>2. ASSUME h \in S, NEW n \in DOMAIN t PROVE t[n] \notin S
    <3>1. n + 1 \in DOMAIN q /\ q[n + 1] = t[n] /\ n + 1 # 1
      <4>1. n \in Nat /\ n + 1 \in DOMAIN q /\ q[n + 1] = t[n]
        BY <1>1
      <4>2. n # 0
        BY TailFacts, HeadTailProperties, LenProperties DEF t
      <4> QED BY <4>1, <4>2
    <3> QED BY <1>1, <1>6, <2>2, <3>1 DEF Once
  <2> QED BY <2>1, <2>2 DEF Free
<1> QED BY <1>2, <1>3, <1>4, <1>5, <1>6 DEF t, h

(* The same, of the count alone.                                           *)
LEMMA AppendOnce ==
  ASSUME NEW A, NEW q \in Seq(A), NEW m \in A, NEW S
  PROVE  /\ Free(Append(q, m), S) <=> Free(q, S) /\ m \notin S
         /\ Once(q, S) /\ (m \notin S \/ Free(q, S)) => Once(Append(q, m), S)
<1> DEFINE T == {}
<1> HIDE DEF T
<1> QED BY AppendStanding

LEMMA TailOnce ==
  ASSUME NEW A, NEW q \in Seq(A), q # <<>>, NEW S
  PROVE  /\ Free(q, S) <=> Free(Tail(q), S) /\ Head(q) \notin S
         /\ Once(q, S) => Once(Tail(q), S) /\ (Head(q) \in S => Free(Tail(q), S))
<1> DEFINE T == {}
<1> HIDE DEF T
<1> QED BY TailStanding

(* The same, of the queue that comes of it.                                *)
LEMMA AppendedIn ==
  ASSUME NEW A, NEW q \in Seq(A), NEW m \in A, NEW p, p = Append(q, m), NEW T, NEW S, m \in S
  PROVE  Standing(p, T, S) \subseteq {m} /\ ~Free(p, S)
<1>1. Standing(p, T, S) \subseteq {m}
  BY AppendStanding
<1>2. ~Free(p, S)
  BY AppendOnce
<1> QED BY <1>1, <1>2

LEMMA AppendedOut ==
  ASSUME NEW A, NEW q \in Seq(A), NEW m \in A, NEW p, p = Append(q, m), NEW T, NEW S, m \notin S
  PROVE  /\ Standing(p, T, S) \subseteq Standing(q, T, S) \cup {m}
         /\ m \notin T => Standing(p, T, S) \subseteq Standing(q, T, S)
<1>1. Standing(p, T, S) \subseteq Standing(q, T, S) \cup ({m} \cap T)
  BY AppendStanding
<1> QED BY <1>1

LEMMA EmptyQueue ==
  ASSUME NEW T, NEW S
  PROVE  Standing(<<>>, T, S) = {} /\ Free(<<>>, S) /\ Once(<<>>, S)
<1>1. DOMAIN <<>> = {}
  OBVIOUS
<1> QED BY <1>1 DEF Standing, Free, Once

-----------------------------------------------------------------------------
(* The kinds of the messages, and what numbers may occur in them.          *)
SaidBy(d, a) ==
  {m \in Said : m.doc <= d /\ (m.is \in {"candidates", "capture"} => m.id <= a)}
ToldBy(a) ==
  {m \in Told : m.is \in {"menu", "fill", "notice", "dismiss"} => m.id <= a}
FrameBy(a) == [id : 1 .. a, kind : Kinds \cup {"locked"}]
PickBy(a)  == [what : {"stored", "made"}, id : 1 .. a, at : Forms]

LEMMA SaidParts ==
  ASSUME NEW d, NEW a, NEW m \in SaidBy(d, a)
  PROVE  /\ m.doc \in Nat /\ m.doc <= d
         /\ m.is \in {"describe", "candidates", "capture"}
         /\ m.is = "describe" => m.fields \in Seq(Boxes)
         /\ m.is = "candidates" => /\ m.id \in Acts /\ m.id <= a /\ m.box \in Boxes
                                   /\ m.kind \in Kinds /\ m.site \in Sites
         /\ m.is = "capture" => m.id \in Acts /\ m.id <= a
BY DEF SaidBy, Said

LEMMA ToldParts ==
  ASSUME NEW a, NEW m \in ToldBy(a)
  PROVE  /\ m.is \in {"groups", "menu", "fill", "notice", "dismiss", "lock"}
         /\ m.is = "groups" => m.fields \in Seq(Boxes) /\ m.locked \in BOOLEAN
         /\ m.is = "menu" => /\ m.id \in Acts /\ m.id <= a /\ m.box \in Boxes
                             /\ m.kind \in Kinds \cup {"locked"} /\ m.asked \in Kinds
         /\ m.is = "fill" => /\ m.id \in Acts /\ m.id <= a /\ m.at \in Forms
                             /\ m.what \in {"stored", "made"}
         /\ m.is = "notice" => m.id \in 0 .. MaxActs /\ m.id <= a
         /\ m.is = "dismiss" => m.open \in BOOLEAN /\ m.id \in Acts /\ m.id <= a
         /\ m.is = "lock" => m.locked \in BOOLEAN
BY DEF ToldBy, Told

(* Roles are places among the boxes described.                             *)
LEMMA IndexIn ==
  ASSUME NEW found \in Seq(Boxes), NEW S
  PROVE  /\ IndexOf(found, S) \in Nat
         /\ IndexOf(found, S) \in DOMAIN found => found[IndexOf(found, S)] \in S
<1> DEFINE at == {n \in DOMAIN found : found[n] \in S}
<1>1. DOMAIN found \subseteq Nat /\ 0 \notin DOMAIN found
  BY LenProperties
<1>2. CASE at = {}
  BY <1>1, <1>2 DEF IndexOf
<1>3. CASE at # {}
  <2>1. \E n \in at : \A m \in at : n <= m
    BY <1>1, <1>3, Least
  <2>2. IndexOf(found, S) \in at
    BY <1>3, <2>1 DEF IndexOf
  <2> QED BY <1>1, <2>2
<1> QED BY <1>2, <1>3

LEMMA GroupIn ==
  ASSUME NEW found \in Seq(Boxes), NEW f
  PROVE  /\ GroupOf(found, f) \in Roles
         /\ \A i \in {GroupOf(found, f).user, GroupOf(found, f).pass, GroupOf(found, f).new} :
              i \in DOMAIN found => Form[found[i]] = f
         /\ GroupOf(found, f).pass \in DOMAIN found =>
              Kind[found[GroupOf(found, f).pass]] = "pass"
<1> DEFINE In(k) == {b \in Boxes : Form[b] = f /\ Kind[b] = k}
           g == GroupOf(found, f)
<1>1. /\ g.from = IndexOf(found, {b \in Boxes : Form[b] = f})
      /\ g.user = IndexOf(found, In("user")) /\ g.pass = IndexOf(found, In("pass"))
      /\ g.new = IndexOf(found, In("new"))
      /\ g = [from |-> g.from, user |-> g.user, pass |-> g.pass, new |-> g.new]
  BY DEF GroupOf
<1>2. {g.from, g.user, g.pass, g.new} \subseteq Nat
  BY <1>1, IndexIn
<1>3. /\ g.user \in DOMAIN found => found[g.user] \in In("user")
      /\ g.pass \in DOMAIN found => found[g.pass] \in In("pass")
      /\ g.new \in DOMAIN found => found[g.new] \in In("new")
  BY <1>1, IndexIn
<1> HIDE DEF g
<1>4. g \in Roles
  BY <1>1, <1>2 DEF Roles
<1> QED BY <1>3, <1>4 DEF g

LEMMA GroupsIn ==
  ASSUME NEW found \in Seq(Boxes)
  PROVE  Groups(found) \subseteq Roles
BY GroupIn DEF Groups

LEMMA AnchoredKinds ==
  ASSUME NEW fs, NEW gs, NEW b \in DOMAIN Anchored(fs, gs)
  PROVE  Anchored(fs, gs)[b] \in Kinds
BY DEF Anchored, Kinds

-----------------------------------------------------------------------------
(* Types.  Nothing is numbered above the acts there were, and no document  *)
(* above the one there is.                                                 *)
Plain ==
  /\ doc \in [no : 1 .. MaxDocs, site : Sites] /\ page \in Seq(Boxes)
  /\ val \in [Boxes -> Marks] /\ due \in BOOLEAN
  /\ fields \in Seq(Boxes) /\ groups \subseteq Roles /\ active \in Roles \cup {None}
  /\ anchor \in [box : Boxes, kind : Kinds] \cup {None}
  /\ bound \in [Boxes -> Kinds \cup {None}]
  /\ painted \in BOOLEAN /\ last \in [user : Marks, pass : Marks] /\ filled \in BOOLEAN
  /\ locked \in BOOLEAN /\ opening \in BOOLEAN /\ sessions \subseteq Asked
  /\ casts \in Seq(BOOLEAN) /\ acts \in 0 .. MaxActs /\ log \in Log
Numbers(d, a) ==
  /\ frames \in Seq(FrameBy(a)) /\ shown \in 0 .. a /\ toast \in 0 .. a
  /\ offer \in 0 .. a /\ saving \subseteq 1 .. a /\ picks \subseteq PickBy(a)
  /\ \A s \in sessions : s.id <= a
  /\ log.turn <= a
  /\ up \in Seq(SaidBy(d, a)) /\ down \in Seq(ToldBy(a))
TypeInv == Plain /\ Numbers(doc.no, acts)

LEMMA NumbersGrow ==
  ASSUME Plain, NEW d \in Nat, NEW a \in Nat, NEW e \in Nat, NEW b \in Nat,
         Numbers(d, a), d <= e, a <= b
  PROVE  Numbers(e, b)
<1>1. 1 .. a \subseteq 1 .. b /\ 0 .. a \subseteq 0 .. b
  OBVIOUS
<1>2. FrameBy(a) \subseteq FrameBy(b) /\ PickBy(a) \subseteq PickBy(b)
  BY <1>1 DEF FrameBy, PickBy
<1>3. SaidBy(d, a) \subseteq SaidBy(e, b)
  <2> SUFFICES ASSUME NEW m \in SaidBy(d, a) PROVE m \in SaidBy(e, b)
    OBVIOUS
  <2>1. m.doc \in Nat /\ (m.is \in {"candidates", "capture"} => m.id \in Nat)
    BY SaidParts DEF Acts
  <2> QED BY <2>1 DEF SaidBy
<1>4. ToldBy(a) \subseteq ToldBy(b)
  <2> SUFFICES ASSUME NEW m \in ToldBy(a) PROVE m \in ToldBy(b)
    OBVIOUS
  <2>1. m.is \in {"menu", "fill", "notice", "dismiss"} => m.id \in Nat
    BY ToldParts DEF Acts
  <2> QED BY <2>1 DEF ToldBy
<1>5. /\ frames \in Seq(FrameBy(b)) /\ up \in Seq(SaidBy(e, b)) /\ down \in Seq(ToldBy(b))
  BY <1>2, <1>3, <1>4, SeqMonotonic DEF Numbers
<1>6. \A s \in sessions : s.id \in Nat
  BY DEF Plain, Asked, Acts
<1>7. log.turn \in Nat
  BY DEF Plain, Log
<1> QED BY <1>1, <1>2, <1>5, <1>6, <1>7 DEF Numbers

LEMMA TypesFit == ASSUME TypeInv PROVE TypeOK
<1>1. SaidBy(doc.no, acts) \subseteq Said /\ ToldBy(acts) \subseteq Told
  BY DEF SaidBy, ToldBy
<1>2. up \in Seq(Said) /\ down \in Seq(Told)
  BY <1>1, SeqMonotonic DEF TypeInv, Numbers
<1> QED BY <1>2 DEF TypeInv, TypeOK, Plain, Numbers, FrameBy, PickBy

LEMMA AtType == ASSUME Plain PROVE \A i : At(i) \in Boxes \cup {None}
BY LenProperties DEF Plain, At

LEMMA EitherType ==
  ASSUME NEW S, NEW a \in S, NEW b \in S
  PROVE  Either(a, b) \in S
BY DEF Either

LEMMA RememberType ==
  ASSUME Plain, NEW l \in [user : Marks, pass : Marks], NEW v \in [Boxes -> Marks]
  PROVE  Remember(l, v) \in [user : Marks, pass : Marks]
<1> DEFINE u == At(Login.user)
           p == Either(At(Login.pass), At(Login.new))
<1>1. u \in Boxes \cup {None} /\ p \in Boxes \cup {None}
  BY AtType, EitherType
<1> HIDE DEF u, p
<1>2. Remember(l, v) = [user |-> IF u # None /\ v[u] # None THEN v[u] ELSE l.user,
                        pass |-> IF p # None /\ v[p] # None THEN v[p] ELSE l.pass]
  BY DEF Remember, u, p
<1> QED BY <1>1, <1>2

LEMMA NoticedType ==
  ASSUME Plain, NEW l \in [user : Marks, pass : Marks], NEW v \in [Boxes -> Marks], NEW b
  PROVE  Noticed(b, l, v) \in [user : Marks, pass : Marks]
BY RememberType DEF Noticed

LEMMA PutType ==
  ASSUME NEW b \in Boxes \cup {None}, NEW w \in Marks, NEW v \in [Boxes -> Marks]
  PROVE  Put(b, w, v) \in [Boxes -> Marks]
BY DEF Put

LEMMA BindType ==
  ASSUME Plain, NEW fs, NEW gs
  PROVE  Bind(fs, gs) \in [Boxes -> Kinds \cup {None}]
BY AnchoredKinds DEF Bind, Plain

LEMMA GroupForIn ==
  ASSUME Plain, NEW b, GroupFor(b) # None
  PROVE  /\ GroupFor(b) \in groups
         /\ \E i \in {GroupFor(b).user, GroupFor(b).pass, GroupFor(b).new} : At(i) = b
<1> DEFINE gs == {g \in groups : \E i \in {g.user, g.pass, g.new} : At(i) = b}
<1>1. gs # {} /\ GroupFor(b) = CHOOSE g \in gs : TRUE
  BY DEF GroupFor
<1>2. GroupFor(b) \in gs
  BY <1>1
<1> QED BY <1>2

LEMMA GroupForType ==
  ASSUME Plain, NEW b
  PROVE  GroupFor(b) \in Roles \cup {None}
BY GroupForIn DEF Plain

LEMMA NothingYetType == NothingYet \in [user : Marks, pass : Marks]
BY DEF NothingYet, Marks

(* A queue grows by a message, or is read.                                 *)
LEMMA Grows ==
  ASSUME NEW A, NEW q \in Seq(A), NEW m \in A
  PROVE  Append(q, m) \in Seq(A)
BY AppendFacts

LEMMA Reads ==
  ASSUME NEW A, NEW q \in Seq(A), q # <<>>
  PROVE  Head(q) \in A /\ Tail(q) \in Seq(A)
BY TailFacts

LEMMA ClosedType ==
  ASSUME NEW A, NEW q \in Seq(A)
  PROVE  Closed(q) \in Seq(A)
BY Reads DEF Closed

(* What has been numbered fits the numbers there are after the step.       *)
LEMMA Acted ==
  ASSUME TypeInv, Act
  PROVE  /\ acts \in Nat /\ acts' = acts + 1 /\ acts' \in 0 .. MaxActs /\ acts + 1 \in Acts
         /\ Numbers(doc.no, acts')
<1>1. acts \in Nat /\ acts' = acts + 1 /\ acts' \in 0 .. MaxActs /\ acts + 1 \in Acts /\ doc.no \in Nat
  BY DEF TypeInv, Plain, Act, Acts
<1> QED BY <1>1, NumbersGrow DEF TypeInv

LEMMA CaptureSaid ==
  ASSUME TypeInv, Act, NEW l, OfferCapture(l)
  PROVE  up' \in Seq(SaidBy(doc.no, acts'))
<1>1. up \in Seq(SaidBy(doc.no, acts'))
  BY Acted DEF Numbers
<1>2. [is |-> "capture", doc |-> doc.no, id |-> acts + 1] \in SaidBy(doc.no, acts')
  <2>1. doc.no \in Nat /\ acts + 1 \in Acts /\ acts' = acts + 1 /\ acts' \in Nat
    BY Acted DEF TypeInv, Plain
  <2> DEFINE m == [is |-> "capture", doc |-> doc.no, id |-> acts + 1]
  <2>2. m \in Said /\ m.doc <= doc.no /\ m.id <= acts'
    BY <2>1 DEF Said
  <2> QED BY <2>2 DEF SaidBy
<1> DEFINE m == [is |-> "capture", doc |-> doc.no, id |-> acts + 1]
<1>3. up' = up \/ up' = Append(up, m)
  BY DEF OfferCapture, Say
<1>4. Append(up, m) \in Seq(SaidBy(doc.no, acts'))
  BY <1>1, <1>2, Grows
<1> QED BY <1>1, <1>3, <1>4

LEMMA PageTypes ==
  ASSUME TypeInv,
         \/ \E l \in Layouts : Redraw(l) \/ \E s \in Sites : Leave(s, l)
         \/ \E b \in Boxes : Type(b)
         \/ Submit \/ Route
  PROVE  TypeInv'
<1> USE DEF paper, scanned, menu, capture, content, back
<1>1. ASSUME NEW l \in Layouts, Redraw(l) PROVE TypeInv'
  <2>1. Plain'
    BY <1>1, Acted DEF Redraw, Plain, TypeInv
  <2>2. Numbers(doc.no, acts)'
    BY <1>1, Acted DEF Redraw, Numbers
  <2> QED BY <2>1, <2>2 DEF TypeInv
<1>2. ASSUME NEW l \in Layouts, NEW s \in Sites, Leave(s, l) PROVE TypeInv'
  <2>1. /\ Act /\ doc.no < MaxDocs /\ doc' = [no |-> doc.no + 1, site |-> s]
        /\ OfferCapture(last) /\ down' = <<>>
        /\ log' = [put |-> log.put, turn |-> 0, moved |-> FALSE, twice |-> FALSE]
        /\ page' = l /\ val' = [b \in Boxes |-> None] /\ due' = TRUE
        /\ fields' = <<>> /\ groups' = {} /\ bound' = [b \in Boxes |-> None]
        /\ active' = None /\ anchor' = None /\ frames' = <<>> /\ shown' = 0
        /\ painted' = TRUE /\ toast' = 0 /\ last' = NothingYet /\ filled' = FALSE
        /\ UNCHANGED back
    BY <1>2 DEF Leave
  <2>2. Plain'
    <3>1. doc' \in [no : 1 .. MaxDocs, site : Sites] /\ page' \in Seq(Boxes)
      BY <2>1 DEF TypeInv, Plain
    <3>2. log' \in Log
      BY <2>1 DEF TypeInv, Plain, Log
    <3>3. val' \in [Boxes -> Marks] /\ fields' \in Seq(Boxes)
      BY <2>1 DEF Marks
    <3> QED BY <2>1, <3>1, <3>2, <3>3, Acted, NothingYetType DEF TypeInv, Plain
  <2>3. doc.no \in Nat /\ doc'.no = doc.no + 1
    BY <2>1 DEF TypeInv, Plain
  <2>4. SaidBy(doc.no, acts') \subseteq SaidBy(doc'.no, acts')
    <3> SUFFICES ASSUME NEW m \in SaidBy(doc.no, acts') PROVE m \in SaidBy(doc'.no, acts')
      OBVIOUS
    <3>1. m.doc \in Nat /\ m.doc <= doc.no
      BY SaidParts
    <3> QED BY <2>3, <3>1 DEF SaidBy
  <2>5. up' \in Seq(SaidBy(doc'.no, acts'))
    BY <2>1, <2>4, CaptureSaid, SeqMonotonic
  <2>6. log'.turn = 0
    BY <2>1 DEF TypeInv, Plain, Log
  <2>7. frames' \in Seq(FrameBy(acts')) /\ down' \in Seq(ToldBy(acts'))
    BY <2>1
  <2>8. Numbers(doc.no, acts)'
    BY <2>1, <2>5, <2>6, <2>7, Acted DEF Numbers
  <2> QED BY <2>2, <2>8 DEF TypeInv
<1>3. ASSUME NEW b \in Boxes, Type(b) PROVE TypeInv'
  <2>1. val' \in [Boxes -> Marks]
    BY <1>3 DEF Type, TypeInv, Plain, Marks
  <2>2. last' \in [user : Marks, pass : Marks]
    BY <1>3, <2>1, RememberType DEF Type, TypeInv, Plain
  <2>3. Plain'
    BY <1>3, <2>1, <2>2, Acted DEF Type, Plain, TypeInv
  <2>4. Numbers(doc.no, acts)'
    BY <1>3, Acted DEF Type, Numbers
  <2> QED BY <2>3, <2>4 DEF TypeInv
<1>4. ASSUME Submit \/ Route PROVE TypeInv'
  <2>1. /\ Act /\ up' \in Seq(SaidBy(doc.no, acts')) /\ last' = NothingYet /\ due' \in BOOLEAN
        /\ UNCHANGED <<paper, scanned, active, menu, painted, toast, filled, back, down, log>>
    BY <1>4, CaptureSaid DEF Submit, Route, TypeInv, Plain
  <2>2. Plain'
    BY <2>1, NothingYetType, Acted DEF Plain, TypeInv
  <2>3. Numbers(doc.no, acts)'
    BY <2>1, Acted DEF Numbers
  <2> QED BY <2>2, <2>3 DEF TypeInv
<1> QED BY <1>1, <1>2, <1>3, <1>4

(* What is on its way fits, and so does what is asked and answered.        *)
LEMMA HeardIn ==
  ASSUME TypeInv, NEW k, Hear(k)
  PROVE  /\ Head(up) \in SaidBy(doc.no, acts) /\ Head(up).is = k
         /\ up' \in Seq(SaidBy(doc.no, acts)) /\ up # <<>>
BY Reads DEF Hear, TypeInv, Numbers

LEMMA ArrivedIn ==
  ASSUME TypeInv, NEW k, Arrives(k)
  PROVE  /\ Head(down) \in ToldBy(acts) /\ Head(down).is = k
         /\ down' \in Seq(ToldBy(acts)) /\ down # <<>>
BY Reads DEF Arrives, TypeInv, Numbers

LEMMA TellTypes ==
  ASSUME NEW a, NEW m \in ToldBy(a), down \in Seq(ToldBy(a)), Tell(m)
  PROVE  down' \in Seq(ToldBy(a))
BY Grows DEF Tell

LEMMA ReplyTypes ==
  ASSUME NEW a, NEW m \in ToldBy(a), NEW r, down \in Seq(ToldBy(a)), Reply(r, m)
  PROVE  down' \in Seq(ToldBy(a))
BY TellTypes DEF Reply

LEMMA NoticeIn ==
  ASSUME NEW a \in Nat, NEW id \in 0 .. MaxActs, id <= a
  PROVE  [is |-> "notice", id |-> id] \in ToldBy(a)
BY DEF ToldBy, Told

LEMMA DismissIn ==
  ASSUME NEW a \in Nat, NEW id \in Acts, id <= a, NEW o \in BOOLEAN
  PROVE  [is |-> "dismiss", open |-> o, id |-> id] \in ToldBy(a)
BY DEF ToldBy, Told

LEMMA FillIn ==
  ASSUME NEW a \in Nat, NEW id \in Acts, id <= a, NEW w \in {"stored", "made"}, NEW f \in Forms
  PROVE  [is |-> "fill", what |-> w, id |-> id, at |-> f] \in ToldBy(a)
BY DEF ToldBy, Told

LEMMA MenuIn ==
  ASSUME NEW a \in Nat, NEW id \in Acts, id <= a, NEW k \in Kinds \cup {"locked"},
         NEW q \in Kinds, NEW b \in Boxes
  PROVE  [is |-> "menu", id |-> id, kind |-> k, asked |-> q, box |-> b] \in ToldBy(a)
BY DEF ToldBy, Told

LEMMA LockIn ==
  ASSUME NEW a, NEW c \in BOOLEAN
  PROVE  [is |-> "lock", locked |-> c] \in ToldBy(a)
BY DEF ToldBy, Told

LEMMA GroupsTold ==
  ASSUME NEW a, NEW c \in BOOLEAN, NEW fs \in Seq(Boxes)
  PROVE  [is |-> "groups", fields |-> fs, locked |-> c] \in ToldBy(a)
BY DEF ToldBy, Told

LEMMA RequestTypes ==
  ASSUME TypeInv, NEW b \in Boxes, NEW k \in Kinds, NEW id \in Acts, NEW a \in Nat,
         Numbers(doc.no, a), id <= a, Request(b, k, id, frames) \/ Request(b, k, id, Closed(frames))
  PROVE  /\ active' \in Roles \cup {None} /\ frames' \in Seq(FrameBy(a)) /\ shown' = 0
         /\ up' \in Seq(SaidBy(doc.no, a)) /\ log' \in Log /\ log'.turn <= a
<1> DEFINE m == [is |-> "candidates", doc |-> doc.no, id |-> id, box |-> b, kind |-> k, site |-> doc.site]
<1>1. PICK fs \in {frames, Closed(frames)} : Request(b, k, id, fs)
  OBVIOUS
<1>2. frames \in Seq(FrameBy(a)) /\ up \in Seq(SaidBy(doc.no, a))
  BY DEF Numbers
<1>3. Closed(fs) \in Seq(FrameBy(a))
  BY <1>2, ClosedType
<1>4. m \in SaidBy(doc.no, a)
  <2>1. doc.no \in Nat /\ doc.site \in Sites
    BY DEF TypeInv, Plain
  <2>2. m \in Said /\ m.doc <= doc.no /\ m.id <= a
    BY <2>1 DEF Said
  <2> QED BY <2>2 DEF SaidBy
<1>5. Append(up, m) \in Seq(SaidBy(doc.no, a))
  BY <1>2, <1>4, Grows
<1>6. log \in Log
  BY DEF TypeInv, Plain
<1>7. ASSUME NEW x \in BOOLEAN, NEW y \in BOOLEAN
      PROVE  [put |-> log.put, turn |-> id, moved |-> x, twice |-> log.twice \/ y] \in Log
  BY <1>6 DEF Log, Acts
<1>8. log' \in Log /\ log'.turn = id
  BY <1>1, <1>7 DEF Request
<1>9. active' \in Roles \cup {None}
  BY <1>1, GroupForType DEF Request, TypeInv
<1> QED BY <1>1, <1>3, <1>5, <1>8, <1>9 DEF Request, Say

LEMMA MenuTypes ==
  ASSUME TypeInv,
         \/ \E b \in Boxes : ClickAnchor(b) \/ ClickBox(b)
         \/ Dismiss \/ Shortcut \/ Candidates \/ DrawMenu \/ TakeDismiss
         \/ \E s \in sessions : CloseFrame(s) \/ Expire(s)
  PROVE  TypeInv'
<1> USE DEF paper, scanned, menu, capture, content, back
<1>0. Plain /\ Numbers(doc.no, acts) /\ acts \in Nat /\ doc.no \in Nat /\ acts <= MaxActs
  BY DEF TypeInv, Plain
<1>1. ASSUME NEW b \in Boxes, ClickAnchor(b) \/ ClickBox(b) PROVE TypeInv'
  <2>1. PICK k \in Kinds : Request(b, k, acts', frames)
    <3>1. CASE ClickAnchor(b)
      BY <3>1, AnchoredKinds DEF ClickAnchor
    <3>2. CASE ClickBox(b)
      <4>1. bound[b] \in Kinds
        BY <1>0, <3>2 DEF ClickBox, Plain
      <4> QED BY <3>2, <4>1 DEF ClickBox
    <3> QED BY <1>1, <3>1, <3>2
  <2>2. /\ Act
        /\ UNCHANGED <<paper, due, scanned, anchor, painted, toast, capture, back, down>>
    BY <1>1 DEF ClickAnchor, ClickBox
  <2>3. /\ active' \in Roles \cup {None} /\ frames' \in Seq(FrameBy(acts')) /\ shown' = 0
        /\ up' \in Seq(SaidBy(doc.no, acts')) /\ log' \in Log /\ log'.turn <= acts'
    BY <2>1, <2>2, Acted, RequestTypes
  <2>4. Plain'
    BY <1>0, <2>2, <2>3, Acted DEF Plain
  <2>5. Numbers(doc.no, acts)'
    BY <2>2, <2>3, Acted DEF Numbers
  <2> QED BY <2>4, <2>5 DEF TypeInv
<1>2. ASSUME Dismiss PROVE TypeInv'
  <2>1. Plain'
    BY <1>0, <1>2 DEF Dismiss, CloseMenu, Plain
  <2>2. Numbers(doc.no, acts)'
    BY <1>0, <1>2, ClosedType DEF Dismiss, CloseMenu, Numbers
  <2> QED BY <2>1, <2>2 DEF TypeInv
<1>3. ASSUME Shortcut PROVE TypeInv'
  <2>1. [is |-> "dismiss", open |-> TRUE, id |-> acts'] \in ToldBy(acts')
    <3>1. acts' \in Nat /\ acts' \in Acts /\ acts' <= acts' /\ TRUE \in BOOLEAN
      BY <1>3, Acted DEF Shortcut
    <3> QED BY <3>1, DismissIn
  <2>2. down' \in Seq(ToldBy(acts'))
    BY <1>3, <2>1, Acted, TellTypes DEF Shortcut, Numbers
  <2>3. Plain'
    BY <1>0, <1>3, Acted DEF Shortcut, Plain
  <2>4. Numbers(doc.no, acts)'
    BY <1>3, <2>2, Acted DEF Shortcut, Numbers
  <2> QED BY <2>3, <2>4 DEF TypeInv
<1>4. ASSUME Candidates PROVE TypeInv'
  <2> DEFINE m == Head(up)
             k == IF locked THEN "locked" ELSE m.kind
             s == [id |-> m.id, kind |-> k, doc |-> m.doc, at |-> Form[m.box]]
             r == [is |-> "menu", id |-> m.id, kind |-> k, asked |-> m.kind, box |-> m.box]
  <2>1. /\ Hear("candidates")
        /\ sessions' = sessions \/ sessions' = sessions \cup {s}
        /\ down' = down \/ Reply(m, r)
        /\ UNCHANGED <<paper, content, locked, opening, picks, offer, saving, casts, acts, log>>
    BY <1>4 DEF Candidates
  <2>2. m \in SaidBy(doc.no, acts) /\ m.is = "candidates" /\ up' \in Seq(SaidBy(doc.no, acts))
    BY <2>1, HeardIn
  <2>3. /\ m.doc \in Nat /\ m.id \in Acts /\ m.id <= acts /\ m.box \in Boxes
        /\ m.kind \in Kinds /\ k \in Kinds \cup {"locked"}
    BY <2>2, SaidParts
  <2>4. s \in Asked /\ s.id <= acts
    BY <2>3 DEF Asked
  <2>5. r \in ToldBy(acts)
    BY <1>0, <2>3, MenuIn
  <2>6. down' \in Seq(ToldBy(acts))
    BY <1>0, <2>1, <2>5, ReplyTypes DEF Numbers
  <2> HIDE DEF s, r, m, k
  <2>7. Plain'
    BY <1>0, <2>1, <2>4 DEF Plain
  <2>8. Numbers(doc.no, acts)'
    BY <1>0, <2>1, <2>2, <2>4, <2>6 DEF Numbers
  <2> QED BY <2>7, <2>8 DEF TypeInv
<1>5. ASSUME DrawMenu PROVE TypeInv'
  <2> DEFINE m == Head(down)
             f == [id |-> m.id, kind |-> m.kind]
  <2>1. m \in ToldBy(acts) /\ m.is = "menu" /\ down' \in Seq(ToldBy(acts))
    BY <1>5, ArrivedIn DEF DrawMenu
  <2>2. m.id \in Acts /\ m.id <= acts /\ m.box \in Boxes /\ m.kind \in Kinds \cup {"locked"} /\ m.asked \in Kinds
    BY <2>1, ToldParts
  <2>3. f \in FrameBy(acts)
    BY <1>0, <2>2 DEF FrameBy, Acts
  <2>4. frames' \in Seq(FrameBy(acts))
    BY <1>0, <1>5, <2>3, Grows DEF DrawMenu, Numbers
  <2>5. Plain'
    BY <1>0, <1>5, <2>2 DEF DrawMenu, Plain
  <2>6. Numbers(doc.no, acts)'
    BY <1>0, <1>5, <2>1, <2>2, <2>4 DEF DrawMenu, Numbers, Acts
  <2> QED BY <2>5, <2>6 DEF TypeInv
<1>6. ASSUME TakeDismiss PROVE TypeInv'
  <2> DEFINE m == Head(down)
             g == FirstGroup
             first == Either(At(g.pass), Either(At(g.user), At(g.new)))
             b == IF anchor # None THEN anchor.box ELSE first
             k == IF anchor # None THEN anchor.kind ELSE "login"
  <2>1. /\ Arrives("dismiss")
        /\ IF m.open /\ b # None THEN Request(b, k, m.id, Closed(frames))
           ELSE CloseMenu /\ UNCHANGED <<active, up, log>>
        /\ UNCHANGED <<paper, due, scanned, anchor, painted, toast, capture, back, acts>>
    BY <1>6 DEF TakeDismiss
  <2>2. m \in ToldBy(acts) /\ m.is = "dismiss" /\ down' \in Seq(ToldBy(acts))
    BY <2>1, ArrivedIn
  <2>3. m.id \in Acts /\ m.id <= acts
    BY <2>2, ToldParts
  <2>4. b \in Boxes \cup {None}
    <3>1. first \in Boxes \cup {None}
      BY <1>0, AtType, EitherType
    <3> HIDE DEF first
    <3> QED BY <1>0, <3>1 DEF Plain
  <2>5. k \in Kinds
    BY <1>0 DEF Plain, Kinds
  <2> HIDE DEF m, b, k
  <2>6. /\ active' \in Roles \cup {None} /\ frames' \in Seq(FrameBy(acts)) /\ shown' = 0
        /\ up' \in Seq(SaidBy(doc.no, acts)) /\ log' \in Log /\ log'.turn <= acts
    <3>1. CASE m.open /\ b # None
      <4>1. Request(b, k, m.id, Closed(frames)) /\ b \in Boxes
        BY <2>1, <2>4, <3>1
      <4> QED BY <1>0, <2>3, <2>5, <4>1, RequestTypes
    <3>2. CASE ~(m.open /\ b # None)
      BY <1>0, <2>1, <3>2, ClosedType DEF CloseMenu, Plain, Numbers
    <3> QED BY <3>1, <3>2
  <2>7. Plain'
    BY <1>0, <2>1, <2>6 DEF Plain
  <2>8. Numbers(doc.no, acts)'
    BY <1>0, <2>1, <2>2, <2>6 DEF Numbers
  <2> QED BY <2>7, <2>8 DEF TypeInv
<1>7. ASSUME NEW s \in sessions, CloseFrame(s) PROVE TypeInv'
  <2>1. s.id \in Acts /\ s.id <= acts
    BY <1>0 DEF Plain, Numbers, Asked
  <2>2. [is |-> "dismiss", open |-> FALSE, id |-> s.id] \in ToldBy(acts)
    BY <1>0, <2>1, DismissIn
  <2>3. down' \in Seq(ToldBy(acts))
    BY <1>0, <1>7, <2>2, TellTypes DEF CloseFrame, Numbers
  <2>4. Plain'
    BY <1>0, <1>7 DEF CloseFrame, Plain
  <2>5. Numbers(doc.no, acts)'
    BY <1>0, <1>7, <2>3 DEF CloseFrame, Numbers
  <2> QED BY <2>4, <2>5 DEF TypeInv
<1>8. ASSUME NEW s \in sessions, Expire(s) PROVE TypeInv'
  <2>1. Plain'
    BY <1>0, <1>8 DEF Expire, Plain
  <2>2. Numbers(doc.no, acts)'
    BY <1>0, <1>8 DEF Expire, Numbers
  <2> QED BY <2>1, <2>2 DEF TypeInv
<1> QED BY <1>1, <1>2, <1>3, <1>4, <1>5, <1>6, <1>7, <1>8

LEMMA FillTypes ==
  ASSUME TypeInv,
         \/ \E s \in sessions, w \in {"stored", "made"} : Pick(s, w)
         \/ \E p \in picks : SendFill(p)
         \/ TakeStored \/ TakeMade \/ Scan \/ Describe \/ TakeGroups
  PROVE  TypeInv'
<1> USE DEF paper, scanned, menu, capture, content, back
<1>0. Plain /\ Numbers(doc.no, acts) /\ acts \in Nat /\ doc.no \in Nat /\ acts <= MaxActs
  BY DEF TypeInv, Plain
<1>1. ASSUME NEW s \in sessions, NEW w \in {"stored", "made"}, Pick(s, w) PROVE TypeInv'
  <2>1. s.id \in Acts /\ s.id <= acts /\ s.at \in Forms
    BY <1>0 DEF Plain, Numbers, Asked
  <2>2. /\ Act /\ picks' = picks \cup {[what |-> w, id |-> s.id, at |-> s.at]}
        /\ UNCHANGED <<paper, content, locked, opening, sessions, offer, saving, casts, up, down, log>>
    BY <1>1 DEF Pick
  <2>3. [what |-> w, id |-> s.id, at |-> s.at] \in PickBy(acts')
    BY <1>0, <2>1, <2>2, Acted DEF PickBy, Acts
  <2>4. Plain'
    BY <1>0, <2>2, Acted DEF Plain
  <2>5. Numbers(doc.no, acts)'
    BY <2>2, <2>3, Acted DEF Numbers
  <2> QED BY <2>4, <2>5 DEF TypeInv
<1>2. ASSUME NEW p \in picks, SendFill(p) PROVE TypeInv'
  <2>1. p.id \in Acts /\ p.id <= acts /\ p.at \in Forms /\ p.what \in {"stored", "made"}
    BY <1>0 DEF Numbers, PickBy, Acts
  <2>2. [is |-> "fill", what |-> p.what, id |-> p.id, at |-> p.at] \in ToldBy(acts)
    BY <1>0, <2>1, FillIn
  <2>3. down' \in Seq(ToldBy(acts))
    BY <1>0, <1>2, <2>2, TellTypes DEF SendFill, Numbers
  <2>4. sessions' \subseteq sessions
    BY <1>2 DEF SendFill
  <2>5. Plain'
    BY <1>0, <1>2, <2>4 DEF SendFill, Plain
  <2>6. Numbers(doc.no, acts)'
    BY <1>0, <1>2, <2>3, <2>4 DEF SendFill, Numbers
  <2> QED BY <2>5, <2>6 DEF TypeInv
<1>3. ASSUME TakeStored PROVE TypeInv'
  <2> DEFINE m == Head(down)
             u == At(Login.user)
             p == At(PassOf(Login))
             v1 == Put(u, "stored", val)
             v2 == Put(p, "stored", v1)
             clean == ~log.moved /\ log.turn = m.id
             l1 == Noticed(u, last, v1)
             l2 == Noticed(p, l1, v2)
             put == log.put \cup IF p = None THEN {} ELSE {[box |-> p, at |-> m.at, clean |-> clean]}
  <2>1. /\ Arrives("fill") /\ val' = v2 /\ filled' = TRUE
        /\ last' = IF p = None /\ u # None THEN [l1 EXCEPT !.user = "stored"] ELSE l2
        /\ log' = [log EXCEPT !.put = put]
        /\ CloseMenu
        /\ UNCHANGED <<doc, page, due, scanned, active, anchor, painted, toast, back, up, acts>>
    BY <1>3 DEF TakeStored
  <2>2. m \in ToldBy(acts) /\ m.is = "fill" /\ down' \in Seq(ToldBy(acts))
    BY <2>1, ArrivedIn
  <2>3. m.at \in Forms
    BY <2>2, ToldParts
  <2>4. u \in Boxes \cup {None} /\ p \in Boxes \cup {None}
    BY <1>0, AtType
  <2>5. "stored" \in Marks /\ val \in [Boxes -> Marks] /\ last \in [user : Marks, pass : Marks]
    BY <1>0 DEF Marks, Plain
  <2>6. v1 \in [Boxes -> Marks]
    BY <2>4, <2>5, PutType
  <2> HIDE DEF v1
  <2>7. v2 \in [Boxes -> Marks]
    BY <2>4, <2>5, <2>6, PutType
  <2> HIDE DEF v2
  <2>8. l1 \in [user : Marks, pass : Marks]
    BY <1>0, <2>5, <2>6, NoticedType
  <2> HIDE DEF l1
  <2>9. l2 \in [user : Marks, pass : Marks]
    BY <1>0, <2>7, <2>8, NoticedType
  <2> HIDE DEF l2, u
  <2>10. last' \in [user : Marks, pass : Marks]
    BY <2>1, <2>5, <2>8, <2>9
  <2>11. log \in Log /\ clean \in BOOLEAN
    BY <1>0 DEF Plain
  <2> HIDE DEF clean, p, m
  <2>12. put \subseteq [box : Boxes, at : Forms, clean : BOOLEAN]
    BY <2>3, <2>4, <2>11 DEF Log
  <2> HIDE DEF put
  <2>13. log' \in Log /\ log'.turn = log.turn
    BY <2>1, <2>11, <2>12 DEF Log
  <2>14. Plain'
    BY <1>0, <2>1, <2>7, <2>10, <2>13 DEF Plain
  <2>15. Numbers(doc.no, acts)'
    BY <1>0, <2>1, <2>2, <2>13, ClosedType DEF Numbers, CloseMenu
  <2> QED BY <2>14, <2>15 DEF TypeInv
<1>4. ASSUME TakeMade PROVE TypeInv'
  <2> DEFINE b == Either(At(Login.new), At(Login.pass))
             v == Put(b, "made", val)
  <2>1. /\ Arrives("fill") /\ val' = v /\ last' = Noticed(b, last, v) /\ CloseMenu
        /\ UNCHANGED <<doc, page, due, scanned, active, anchor, painted, toast, filled, back, up, acts, log>>
    BY <1>4 DEF TakeMade
  <2>2. down' \in Seq(ToldBy(acts))
    BY <2>1, ArrivedIn
  <2>3. b \in Boxes \cup {None}
    BY <1>0, AtType, EitherType
  <2> HIDE DEF b
  <2>4. v \in [Boxes -> Marks]
    BY <1>0, <2>3, PutType DEF Marks, Plain
  <2> HIDE DEF v
  <2>5. last' \in [user : Marks, pass : Marks]
    BY <1>0, <2>1, <2>4, NoticedType DEF Plain
  <2>6. Plain'
    BY <1>0, <2>1, <2>4, <2>5 DEF Plain
  <2>7. Numbers(doc.no, acts)'
    BY <1>0, <2>1, <2>2, ClosedType DEF Numbers, CloseMenu
  <2> QED BY <2>6, <2>7 DEF TypeInv
<1>5. ASSUME Scan PROVE TypeInv'
  <2>1. [is |-> "describe", doc |-> doc.no, fields |-> page] \in SaidBy(doc.no, acts)
    BY <1>0 DEF SaidBy, Said, Plain
  <2>2. up' \in Seq(SaidBy(doc.no, acts))
    <3>1. up \in Seq(SaidBy(doc.no, acts))
      BY <1>0 DEF Numbers
    <3>2. Append(up, [is |-> "describe", doc |-> doc.no, fields |-> page]) \in Seq(SaidBy(doc.no, acts))
      BY <2>1, <3>1, Grows
    <3> QED BY <1>5, <3>1, <3>2 DEF Scan, Say
  <2>3. /\ due' = FALSE /\ fields' \in Seq(Boxes) /\ groups' \subseteq Roles
        /\ UNCHANGED <<paper, bound, active, menu, painted, toast, capture, back, down, acts, log>>
    BY <1>0, <1>5 DEF Scan, Plain
  <2>4. Plain'
    BY <1>0, <2>3 DEF Plain
  <2>5. Numbers(doc.no, acts)'
    BY <1>0, <2>2, <2>3 DEF Numbers
  <2> QED BY <2>4, <2>5 DEF TypeInv
<1>6. ASSUME Describe PROVE TypeInv'
  <2>1. Head(up) \in SaidBy(doc.no, acts) /\ Head(up).is = "describe" /\ up' \in Seq(SaidBy(doc.no, acts))
    BY <1>6, HeardIn DEF Describe
  <2>2. Head(up).fields \in Seq(Boxes) /\ locked \in BOOLEAN
    BY <1>0, <2>1, SaidParts DEF Plain
  <2>3. [is |-> "groups", fields |-> Head(up).fields, locked |-> locked] \in ToldBy(acts)
    BY <2>2, GroupsTold
  <2>4. down' \in Seq(ToldBy(acts))
    BY <1>0, <1>6, <2>3, ReplyTypes DEF Describe, Numbers
  <2>5. Plain'
    BY <1>0, <1>6 DEF Describe, Plain
  <2>6. Numbers(doc.no, acts)'
    BY <1>0, <1>6, <2>1, <2>4 DEF Describe, Numbers
  <2> QED BY <2>5, <2>6 DEF TypeInv
<1>7. ASSUME TakeGroups PROVE TypeInv'
  <2>1. Head(down) \in ToldBy(acts) /\ Head(down).is = "groups" /\ down' \in Seq(ToldBy(acts))
    BY <1>7, ArrivedIn DEF TakeGroups
  <2>2. Head(down).fields \in Seq(Boxes) /\ Head(down).locked \in BOOLEAN
    BY <2>1, ToldParts
  <2>3. groups' \subseteq Roles /\ bound' \in [Boxes -> Kinds \cup {None}]
    BY <1>0, <1>7, <2>2, GroupsIn, BindType DEF TakeGroups
  <2>4. log' \in Log /\ log'.turn = log.turn
    BY <1>0, <1>7 DEF TakeGroups, Plain, Log
  <2>5. Plain'
    BY <1>0, <1>7, <2>2, <2>3, <2>4 DEF TakeGroups, Plain
  <2>6. Numbers(doc.no, acts)'
    BY <1>0, <1>7, <2>1, <2>4 DEF TakeGroups, Numbers
  <2> QED BY <2>5, <2>6 DEF TypeInv
<1> QED BY <1>1, <1>2, <1>3, <1>4, <1>5, <1>6, <1>7

LEMMA OfferTypes ==
  ASSUME TypeInv,
         \/ Capture \/ TakeNotice \/ CloseToast \/ Save \/ Discard
         \/ \E id \in saving : EndSave(id)
         \/ Lock \/ Unlock \/ Announce \/ Broadcast \/ TakeLock
  PROVE  TypeInv'
<1> USE DEF paper, scanned, menu, capture, content, back
<1>0. Plain /\ Numbers(doc.no, acts) /\ acts \in Nat /\ doc.no \in Nat /\ acts <= MaxActs
  BY DEF TypeInv, Plain
<1>1. ASSUME NEW id \in 0 .. acts, Notice(id) PROVE down' \in Seq(ToldBy(acts))
  <2>1. id \in 0 .. MaxActs /\ id <= acts
    BY <1>0
  <2>2. [is |-> "notice", id |-> id] \in ToldBy(acts)
    BY <1>0, <2>1, NoticeIn
  <2> QED BY <1>0, <1>1, <2>2, TellTypes DEF Notice, Numbers
<1>2. ASSUME Capture PROVE TypeInv'
  <2>1. Head(up) \in SaidBy(doc.no, acts) /\ Head(up).is = "capture" /\ up' \in Seq(SaidBy(doc.no, acts))
    BY <1>2, HeardIn DEF Capture
  <2>2. Head(up).id \in 1 .. acts
    BY <1>0, <2>1, SaidParts DEF Acts
  <2>3. /\ offer' \in 0 .. acts /\ saving' \subseteq 1 .. acts /\ down' \in Seq(ToldBy(acts))
        /\ UNCHANGED <<paper, content, locked, opening, sessions, picks, casts, acts, log>>
    <3>1. CASE UNCHANGED <<offer, saving, down>>
      BY <1>0, <1>2, <3>1 DEF Capture, Numbers
    <3>2. CASE \E id \in {0, Head(up).id} : offer' = id /\ Notice(id) /\ UNCHANGED saving
      <4>1. PICK id \in {0, Head(up).id} : offer' = id /\ Notice(id) /\ UNCHANGED saving
        BY <3>2
      <4>2. id \in 0 .. acts
        BY <1>0, <2>2
      <4> QED BY <1>0, <1>1, <1>2, <4>1, <4>2 DEF Capture, Numbers
    <3>3. CASE saving' = saving \cup {Head(up).id} /\ UNCHANGED <<offer, down>>
      BY <1>0, <1>2, <2>2, <3>3 DEF Capture, Numbers
    <3> QED BY <1>2, <3>1, <3>2, <3>3 DEF Capture
  <2>4. Plain'
    BY <1>0, <2>3 DEF Plain
  <2>5. Numbers(doc.no, acts)'
    BY <1>0, <2>1, <2>3 DEF Numbers
  <2> QED BY <2>4, <2>5 DEF TypeInv
<1>3. ASSUME TakeNotice PROVE TypeInv'
  <2>1. Head(down) \in ToldBy(acts) /\ Head(down).is = "notice" /\ down' \in Seq(ToldBy(acts))
    BY <1>3, ArrivedIn DEF TakeNotice
  <2>2. Head(down).id \in 0 .. acts
    BY <1>0, <2>1, ToldParts
  <2>3. Plain'
    BY <1>0, <1>3 DEF TakeNotice, Plain
  <2>4. Numbers(doc.no, acts)'
    BY <1>0, <1>3, <2>1, <2>2 DEF TakeNotice, Numbers
  <2> QED BY <2>3, <2>4 DEF TypeInv
<1>4. ASSUME CloseToast PROVE TypeInv'
  <2>1. Plain'
    BY <1>0, <1>4 DEF CloseToast, Plain
  <2>2. Numbers(doc.no, acts)'
    BY <1>0, <1>4 DEF CloseToast, Numbers
  <2> QED BY <2>1, <2>2 DEF TypeInv
<1>5. ASSUME Save PROVE TypeInv'
  <2>1. Plain'
    BY <1>0, <1>5, Acted DEF Save, Plain
  <2>2. Numbers(doc.no, acts)'
    BY <1>0, <1>5, Acted DEF Save, Numbers
  <2> QED BY <2>1, <2>2 DEF TypeInv
<1>6. ASSUME Discard PROVE TypeInv'
  <2>1. down' \in Seq(ToldBy(acts))
    BY <1>0, <1>1, <1>6 DEF Discard
  <2>2. Plain'
    BY <1>0, <1>6 DEF Discard, Plain
  <2>3. Numbers(doc.no, acts)'
    BY <1>0, <1>6, <2>1 DEF Discard, Numbers
  <2> QED BY <2>2, <2>3 DEF TypeInv
<1>7. ASSUME NEW id \in saving, EndSave(id) PROVE TypeInv'
  <2>1. offer' \in 0 .. acts /\ down' \in Seq(ToldBy(acts))
    BY <1>0, <1>1, <1>7 DEF EndSave, Numbers
  <2>2. Plain'
    BY <1>0, <1>7 DEF EndSave, Plain
  <2>3. Numbers(doc.no, acts)'
    BY <1>0, <1>7, <2>1 DEF EndSave, Numbers
  <2> QED BY <2>2, <2>3 DEF TypeInv
<1>8. ASSUME NEW c \in BOOLEAN PROVE Append(casts, c) \in Seq(BOOLEAN)
  BY <1>0, Grows DEF Plain
<1>9. ASSUME Lock PROVE TypeInv'
  <2>1. Plain'
    BY <1>0, <1>8, <1>9, Acted DEF Lock, Plain
  <2>2. Numbers(doc.no, acts)'
    BY <1>0, <1>9, Acted DEF Lock, Numbers
  <2> QED BY <2>1, <2>2 DEF TypeInv
<1>10. ASSUME Unlock PROVE TypeInv'
  <2>1. Plain'
    BY <1>0, <1>10, Acted DEF Unlock, Plain
  <2>2. Numbers(doc.no, acts)'
    BY <1>10, Acted DEF Unlock, Numbers
  <2> QED BY <2>1, <2>2 DEF TypeInv
<1>11. ASSUME Announce PROVE TypeInv'
  <2>1. Plain'
    BY <1>0, <1>8, <1>11 DEF Announce, Plain, Shut
  <2>2. Numbers(doc.no, acts)'
    BY <1>0, <1>11 DEF Announce, Numbers
  <2> QED BY <2>1, <2>2 DEF TypeInv
<1>12. ASSUME Broadcast PROVE TypeInv'
  <2>1. Head(casts) \in BOOLEAN /\ Tail(casts) \in Seq(BOOLEAN)
    BY <1>0, <1>12, Reads DEF Broadcast, Plain
  <2>2. [is |-> "lock", locked |-> Head(casts)] \in ToldBy(acts)
    BY <2>1, LockIn
  <2>3. down' \in Seq(ToldBy(acts))
    BY <1>0, <1>12, <2>2, TellTypes DEF Broadcast, Numbers
  <2>4. Plain'
    BY <1>0, <1>12, <2>1 DEF Broadcast, Plain
  <2>5. Numbers(doc.no, acts)'
    BY <1>0, <1>12, <2>3 DEF Broadcast, Numbers
  <2> QED BY <2>4, <2>5 DEF TypeInv
<1>13. ASSUME TakeLock PROVE TypeInv'
  <2>1. Head(down) \in ToldBy(acts) /\ Head(down).is = "lock" /\ down' \in Seq(ToldBy(acts))
    BY <1>13, ArrivedIn DEF TakeLock
  <2>2. Head(down).locked \in BOOLEAN
    BY <2>1, ToldParts
  <2>3. toast' \in 0 .. acts
    BY <1>0, <1>13 DEF TakeLock, Hidden, Numbers
  <2>4. bound' \in [Boxes -> Kinds \cup {None}]
    BY <1>0, <1>13, BindType DEF TakeLock
  <2>5. Plain'
    BY <1>0, <1>13, <2>2, <2>4 DEF TakeLock, CloseMenu, Plain
  <2>6. Numbers(doc.no, acts)'
    BY <1>0, <1>13, <2>1, <2>3, ClosedType DEF TakeLock, CloseMenu, Numbers
  <2> QED BY <2>5, <2>6 DEF TypeInv
<1> QED BY <1>2, <1>3, <1>4, <1>5, <1>6, <1>7, <1>9, <1>10, <1>11, <1>12, <1>13

LEMMA TypesStart == ASSUME Init PROVE TypeInv
<1>1. Plain
  <2>1. doc \in [no : 1 .. MaxDocs, site : Sites] /\ page \in Seq(Boxes)
    BY DEF Init
  <2>2. log \in Log
    BY DEF Init, Log
  <2>3. val \in [Boxes -> Marks] /\ bound \in [Boxes -> Kinds \cup {None}]
    BY DEF Init, Marks
  <2>4. /\ fields \in Seq(Boxes) /\ casts \in Seq(BOOLEAN) /\ groups \subseteq Roles
        /\ sessions \subseteq Asked /\ acts \in 0 .. MaxActs
    BY DEF Init
  <2>5. /\ due \in BOOLEAN /\ active \in Roles \cup {None}
        /\ anchor \in [box : Boxes, kind : Kinds] \cup {None}
        /\ painted \in BOOLEAN /\ last \in [user : Marks, pass : Marks] /\ filled \in BOOLEAN
        /\ locked \in BOOLEAN /\ opening \in BOOLEAN
    BY NothingYetType DEF Init
  <2> QED BY <2>1, <2>2, <2>3, <2>4, <2>5 DEF Plain
<1>2. Numbers(doc.no, acts)
  BY DEF Init, Numbers
<1> QED BY <1>1, <1>2 DEF TypeInv

LEMMA TypesKept == ASSUME TypeInv, [Next]_vars PROVE TypeInv'
<1>1. CASE UNCHANGED vars
  BY <1>1 DEF vars, TypeInv, Plain, Numbers
<1> QED BY <1>1, PageTypes, MenuTypes, FillTypes, OfferTypes DEF Next

LEMMA TypesHold == Spec => []TypeInv
BY TypesStart, TypesKept, PTL DEF Spec

(* The tab keeps its types, and nothing in it, waiting in the background   *)
(* page or on its way between them is numbered above the acts there were   *)
(* (content.js, background.js).                                            *)
THEOREM TypeCorrect == Spec => []TypeOK
BY TypesFit, TypesHold, PTL

-----------------------------------------------------------------------------
(* What the steps do to the queues.  One message comes or goes, of a kind, *)
(* and what is said of the other kinds stands.                             *)
Moves(q, p, k) ==
  \/ p = q
  \/ \E m : m.is = k /\ p = Append(q, m)
  \/ q # <<>> /\ Head(q).is = k /\ p = Tail(q)

LEMMA Aside ==
  ASSUME NEW A, NEW q \in Seq(A), NEW p, NEW k, Moves(q, p, k), NEW S, NEW T,
         \A m \in S \cup T : m.is # k
  PROVE  /\ Free(q, S) <=> Free(p, S)
         /\ Once(q, S) => Once(p, S)
         /\ Standing(p, T, S) \subseteq Standing(q, T, S)
<1>1. CASE p = q
  BY <1>1
<1>2. ASSUME NEW m, m.is = k, p = Append(q, m)
      PROVE  /\ Free(q, S) <=> Free(p, S)
             /\ Once(q, S) => Once(p, S)
             /\ Standing(p, T, S) \subseteq Standing(q, T, S)
  <2>1. q \in Seq(A \cup {m}) /\ m \in A \cup {m}
    BY SeqMonotonic
  <2>2. m \notin S /\ {m} \cap T = {}
    BY <1>2
  <2> QED BY <1>2, <2>1, <2>2, AppendStanding
<1>3. CASE q # <<>> /\ Head(q).is = k /\ p = Tail(q)
  <2>1. Head(q) \notin S
    BY <1>3
  <2> QED BY <1>3, <2>1, TailStanding
<1> QED BY <1>1, <1>2, <1>3 DEF Moves

LEMMA AsideOnce ==
  ASSUME NEW A, NEW q \in Seq(A), NEW p, NEW k, Moves(q, p, k), NEW S,
         \A m \in S : m.is # k
  PROVE  /\ Free(q, S) <=> Free(p, S)
         /\ Once(q, S) => Once(p, S)
<1>1. \A m \in S \cup {} : m.is # k
  OBVIOUS
<1> DEFINE T == {}
<1>2. \A m \in S \cup T : m.is # k
  BY <1>1
<1> HIDE DEF T
<1> QED BY <1>2, Aside

LEMMA Traffic ==
  /\ \A k, m : k = m.is /\ Say(m) => Moves(up, up', k)
  /\ \A k, m : k = m.is /\ Tell(m) => Moves(down, down', k)
  /\ \A k, m, r : k = m.is /\ Reply(r, m) => Moves(down, down', k)
  /\ \A k : Hear(k) => Moves(up, up', k)
  /\ \A k : Arrives(k) => Moves(down, down', k)
  /\ \A k : UNCHANGED up => Moves(up, up', k)
  /\ \A k : UNCHANGED down => Moves(down, down', k)
BY DEF Say, Tell, Reply, Hear, Arrives, Moves

-----------------------------------------------------------------------------
(* One menu.  Unless two were asked for at once, what is asked for this    *)
(* document and not answered, and what is answered and not drawn, is one   *)
(* menu, and none is on screen until it is.                                *)
Requests == {m \in Said : m.is = "candidates" /\ m.doc = doc.no}
Menus == {m \in Told : m.is = "menu"}
MenuInv ==
  log.twice \/
    /\ Once(up, Requests) /\ Once(down, Menus)
    /\ Free(up, Requests) \/ Free(down, Menus)
    /\ ~(Free(up, Requests) /\ Free(down, Menus)) => frames = <<>> /\ shown = 0
    /\ Len(frames) <= 1 /\ (shown # 0 => frames # <<>> /\ frames[1].id = shown)

LEMMA ClosedMenu ==
  ASSUME TypeInv
  PROVE  /\ frames = <<>> => Closed(frames) = <<>>
         /\ Len(frames) <= 1 => Closed(frames) = <<>>
<1>1. frames \in Seq(FrameBy(acts))
  BY DEF TypeInv, Numbers
<1>2. ASSUME frames # <<>>, Len(frames) <= 1 PROVE Tail(frames) = <<>>
  <2>1. Tail(frames) \in Seq(FrameBy(acts)) /\ Len(Tail(frames)) = Len(frames) - 1
    BY <1>1, <1>2, HeadTailProperties
  <2>2. Len(frames) \in Nat /\ Len(frames) # 0
    BY <1>1, <1>2, EmptySeq, LenProperties
  <2>3. Len(Tail(frames)) = 0
    BY <1>2, <2>1, <2>2
  <2> QED BY <2>1, <2>3, EmptySeq
<1> QED BY <1>2 DEF Closed

(* Nothing is asked for, or answered: a menu on screen may be closed.      *)
MenuAside ==
  /\ doc' = doc /\ log'.twice = log.twice
  /\ (frames' = frames /\ shown' = shown) \/ CloseMenu
  /\ \E k \in {"describe", "capture"} : Moves(up, up', k)
  /\ \E k \in {"groups", "fill", "notice", "dismiss", "lock"} : Moves(down, down', k)

LEMMA MenuAsideKept ==
  ASSUME TypeInv, MenuInv, MenuAside
  PROVE  MenuInv'
<1>1. up \in Seq(SaidBy(doc.no, acts)) /\ down \in Seq(ToldBy(acts)) /\ frames \in Seq(FrameBy(acts))
  BY DEF TypeInv, Numbers
<1>2. Requests' = Requests /\ Menus' = Menus
  BY DEF MenuAside, Requests, Menus
<1>3. /\ Free(up, Requests) <=> Free(up', Requests)
      /\ Once(up, Requests) => Once(up', Requests)
  <2>1. PICK k \in {"describe", "capture"} : Moves(up, up', k)
    BY DEF MenuAside
  <2>2. \A m \in Requests : m.is # k
    BY DEF Requests
  <2> QED BY <1>1, <2>1, <2>2, AsideOnce
<1>4. /\ Free(down, Menus) <=> Free(down', Menus)
      /\ Once(down, Menus) => Once(down', Menus)
  <2>1. PICK k \in {"groups", "fill", "notice", "dismiss", "lock"} : Moves(down, down', k)
    BY DEF MenuAside
  <2>2. \A m \in Menus : m.is # k
    BY DEF Menus
  <2> QED BY <1>1, <2>1, <2>2, AsideOnce
<1>5. CASE log.twice
  BY <1>5 DEF MenuInv, MenuAside
<1>6. CASE frames' = frames /\ shown' = shown
  BY <1>2, <1>3, <1>4, <1>6 DEF MenuInv, MenuAside
<1>7. CASE ~log.twice /\ CloseMenu
  <2>1. frames' = <<>> /\ shown' = 0
    BY <1>7, ClosedMenu DEF MenuInv, CloseMenu
  <2>2. Len(frames') = 0
    BY <2>1
  <2> QED BY <1>2, <1>3, <1>4, <1>7, <2>1, <2>2 DEF MenuInv, MenuAside
<1> QED BY <1>5, <1>6, <1>7 DEF MenuAside

LEMMA NoneWaits ==
  ASSUME ~ \E m \in Range(up) \cup Range(down) : Waits(m)
  PROVE  Free(up, Requests) /\ Free(down, Menus)
BY DEF Range, Waits, Free, Requests, Menus

LEMMA MenuAsked ==
  ASSUME TypeInv, MenuInv, NEW b, NEW k, NEW id, doc' = doc,
         \/ Request(b, k, id, frames) /\ UNCHANGED down
         \/ Request(b, k, id, Closed(frames)) /\ Arrives("dismiss")
  PROVE  MenuInv'
<1> DEFINE m == [is |-> "candidates", doc |-> doc.no, id |-> id, box |-> b, kind |-> k, site |-> doc.site]
<1>1. up \in Seq(SaidBy(doc.no, acts) \cup {m}) /\ m \in SaidBy(doc.no, acts) \cup {m} /\ down \in Seq(ToldBy(acts))
  BY SeqMonotonic DEF TypeInv, Numbers
<1>2. /\ up' = Append(up, m) /\ shown' = 0
      /\ frames' = Closed(frames) \/ frames' = Closed(Closed(frames))
      /\ log' = [put |-> log.put, turn |-> id, moved |-> GroupFor(b) = None,
                 twice |-> log.twice \/ \E x \in Range(up) \cup Range(down) : Waits(x)]
  BY DEF Request, Say
<1>3. Requests' = Requests /\ Menus' = Menus
  BY DEF Requests, Menus
<1>4. CASE log'.twice
  BY <1>4 DEF MenuInv
<1>5. CASE ~log'.twice
  <2>1. ~log.twice /\ ~ \E x \in Range(up) \cup Range(down) : Waits(x)
    BY <1>2, <1>5
  <2>2. Free(up, Requests) /\ Free(down, Menus)
    BY <2>1, NoneWaits
  <2>3. Once(up, Requests) /\ Once(down, Menus) /\ Len(frames) <= 1
    BY <2>1 DEF MenuInv
  <2>4. Once(up', Requests)
    BY <1>1, <1>2, <2>2, <2>3, AppendOnce
  <2>5. Free(down', Menus) /\ Once(down', Menus)
    <3>1. Moves(down, down', "dismiss")
      BY Traffic
    <3>2. \A x \in Menus : x.is # "dismiss"
      BY DEF Menus
    <3> QED BY <1>1, <2>2, <2>3, <3>1, <3>2, AsideOnce
  <2>6. frames' = <<>>
    <3>1. Closed(frames) = <<>>
      BY <2>3, ClosedMenu
    <3>2. Closed(<<>>) = <<>>
      BY DEF Closed
    <3> QED BY <1>2, <3>1, <3>2
  <2>7. Len(frames') = 0
    BY <2>6
  <2> QED BY <1>2, <1>3, <2>4, <2>5, <2>6, <2>7 DEF MenuInv
<1> QED BY <1>4, <1>5

LEMMA OfferMoves == ASSUME NEW l, OfferCapture(l) PROVE Moves(up, up', "capture")
BY DEF OfferCapture, Say, Moves

(* The steps that neither ask for a menu nor answer nor draw one.          *)
LEMMA MenuAsides ==
  ASSUME TypeInv,
         \/ \E l \in Layouts : Redraw(l)
         \/ \E b \in Boxes : Type(b)
         \/ Submit \/ Route \/ Dismiss \/ Shortcut \/ CloseToast \/ Save \/ Discard
         \/ \E s \in sessions : CloseFrame(s) \/ Expire(s) \/ \E w \in {"stored", "made"} : Pick(s, w)
         \/ \E p \in picks : SendFill(p)
         \/ \E id \in saving : EndSave(id)
         \/ Lock \/ Unlock \/ Announce \/ Broadcast
         \/ Scan \/ Describe \/ Capture
         \/ TakeGroups \/ TakeStored \/ TakeMade \/ TakeNotice \/ TakeLock
  PROVE  MenuAside
<1> USE DEF paper, scanned, menu, capture, content, back
<1> DEFINE Still == doc' = doc /\ log'.twice = log.twice
           Screen == (frames' = frames /\ shown' = shown) \/ CloseMenu
           Up(k) == Moves(up, up', k)
           Down(k) == Moves(down, down', k)
<1>0. /\ \A k : UNCHANGED up => Up(k)
      /\ \A k : UNCHANGED down => Down(k)
  BY Traffic
<1>a. log \in Log
  BY DEF TypeInv, Plain
<1>1. CASE \E l \in Layouts : Redraw(l)
  BY <1>0, <1>1 DEF Redraw, MenuAside
<1>2. CASE \E b \in Boxes : Type(b)
  BY <1>0, <1>2 DEF Type, MenuAside
<1>3. CASE Submit \/ Route
  <2>1. /\ Up("capture")
        /\ UNCHANGED <<doc, frames, shown, down, log>>
    BY <1>3, OfferMoves DEF Submit, Route
  <2> QED BY <1>0, <2>1 DEF MenuAside
<1>4. CASE Dismiss \/ CloseToast
  BY <1>0, <1>4 DEF Dismiss, CloseToast, MenuAside
<1>5. CASE Shortcut \/ \E s \in sessions : CloseFrame(s)
  <2>1. Down("dismiss") /\ UNCHANGED <<doc, frames, shown, up, log>>
    BY <1>5, Traffic DEF Shortcut, CloseFrame
  <2> QED BY <1>0, <2>1 DEF MenuAside
<1>6. CASE \/ Save \/ Lock \/ Unlock \/ Announce
           \/ \E s \in sessions : Expire(s) \/ \E w \in {"stored", "made"} : Pick(s, w)
  BY <1>0, <1>6 DEF Save, Lock, Unlock, Announce, Expire, Pick, MenuAside
<1>7. CASE Discard \/ \E id \in saving : EndSave(id)
  <2>1. Down("notice") /\ UNCHANGED <<doc, frames, shown, up, log>>
    BY <1>0, <1>7, Traffic DEF Discard, EndSave, Notice
  <2> QED BY <1>0, <2>1 DEF MenuAside
<1>8. CASE \E p \in picks : SendFill(p)
  <2>1. Down("fill") /\ UNCHANGED <<doc, frames, shown, up, log>>
    BY <1>8, Traffic DEF SendFill
  <2> QED BY <1>0, <2>1 DEF MenuAside
<1>9. CASE Broadcast
  <2>1. Down("lock") /\ UNCHANGED <<doc, frames, shown, up, log>>
    BY <1>9, Traffic DEF Broadcast
  <2> QED BY <1>0, <2>1 DEF MenuAside
<1>10. CASE Scan
  <2>1. Up("describe") /\ UNCHANGED <<doc, frames, shown, down, log>>
    BY <1>0, <1>10, Traffic DEF Scan
  <2> QED BY <1>0, <2>1 DEF MenuAside
<1>11. CASE Describe
  <2>1. Up("describe") /\ Down("groups") /\ UNCHANGED <<doc, frames, shown, log>>
    BY <1>11, Traffic DEF Describe
  <2> QED BY <2>1 DEF MenuAside
<1>12. CASE Capture
  <2>1. Up("capture") /\ Down("notice") /\ UNCHANGED <<doc, frames, shown, log>>
    <3>1. down' = down \/ \E id : Notice(id)
      BY <1>12 DEF Capture
    <3>2. Down("notice")
      BY <1>0, <3>1, Traffic DEF Notice
    <3> QED BY <1>12, <3>2, Traffic DEF Capture
  <2> QED BY <2>1 DEF MenuAside
<1>13. CASE TakeGroups
  <2>1. log'.twice = log.twice
    BY <1>13, <1>a DEF TakeGroups, Log
  <2>2. Down("groups") /\ UNCHANGED <<doc, frames, shown, up>>
    BY <1>13, Traffic DEF TakeGroups
  <2> QED BY <1>0, <2>1, <2>2 DEF MenuAside
<1>14. CASE TakeStored
  <2>1. log'.twice = log.twice
    BY <1>14, <1>a DEF TakeStored, Log
  <2>2. Down("fill") /\ CloseMenu /\ UNCHANGED <<doc, up>>
    BY <1>14, Traffic DEF TakeStored
  <2> QED BY <1>0, <2>1, <2>2 DEF MenuAside
<1>15. CASE TakeMade
  <2>1. Down("fill") /\ CloseMenu /\ UNCHANGED <<doc, up, log>>
    BY <1>15, Traffic DEF TakeMade
  <2> QED BY <1>0, <2>1 DEF MenuAside
<1>16. CASE TakeNotice
  <2>1. Down("notice") /\ UNCHANGED <<doc, frames, shown, up, log>>
    BY <1>16, Traffic DEF TakeNotice
  <2> QED BY <1>0, <2>1 DEF MenuAside
<1>17. CASE TakeLock
  <2>1. Down("lock") /\ CloseMenu /\ UNCHANGED <<doc, up, log>>
    BY <1>17, Traffic DEF TakeLock
  <2> QED BY <1>0, <2>1 DEF MenuAside
<1> QED BY <1>1, <1>2, <1>3, <1>4, <1>5, <1>6, <1>7, <1>8, <1>9, <1>10, <1>11, <1>12, <1>13,
           <1>14, <1>15, <1>16, <1>17

LEMMA MenuAnswered == ASSUME TypeInv, MenuInv, Candidates PROVE MenuInv'
<1> DEFINE m == Head(up)
<1>1. /\ doc' = doc /\ frames' = frames /\ shown' = shown /\ log' = log
      /\ Hear("candidates") /\ up # <<>> /\ up' = Tail(up)
      /\ down' = down \/ \E r : r.is = "menu" /\ Reply(m, r)
  BY DEF Candidates, Hear, paper, content, menu
<1>2. Requests' = Requests /\ Menus' = Menus
  BY <1>1 DEF Requests, Menus
<1>3. up \in Seq(SaidBy(doc.no, acts)) /\ down \in Seq(ToldBy(acts)) /\ m \in Said /\ m.is = "candidates"
  BY <1>1, HeardIn DEF TypeInv, Numbers, SaidBy
<1>4. /\ Free(up, Requests) <=> Free(up', Requests) /\ m \notin Requests
      /\ Once(up, Requests) => Once(up', Requests) /\ (m \in Requests => Free(up', Requests))
  BY <1>1, <1>3, TailOnce
<1>5. CASE log.twice
  BY <1>1, <1>5 DEF MenuInv
<1>6. CASE ~log.twice /\ down' = down
  BY <1>1, <1>2, <1>4, <1>6 DEF MenuInv
<1>7. ASSUME ~log.twice, NEW r, r.is = "menu", Reply(m, r), down' # down PROVE MenuInv'
  <2>1. m \in Requests /\ down' = Append(down, r)
    BY <1>3, <1>7 DEF Reply, Tell, Requests
  <2>2. Free(down, Menus) /\ Once(down, Menus) /\ frames = <<>> /\ shown = 0 /\ Len(frames) <= 1
    BY <1>4, <1>7, <2>1 DEF MenuInv
  <2>3. down \in Seq(ToldBy(acts) \cup {r}) /\ r \in ToldBy(acts) \cup {r}
    BY <1>3, SeqMonotonic
  <2>4. Once(down', Menus)
    BY <2>1, <2>2, <2>3, AppendOnce
  <2>5. Free(up', Requests) /\ Once(up', Requests)
    BY <1>4, <1>7, <2>1 DEF MenuInv
  <2> QED BY <1>1, <1>2, <2>2, <2>4, <2>5 DEF MenuInv
<1> QED BY <1>1, <1>5, <1>6, <1>7

LEMMA MenuDrawn == ASSUME TypeInv, MenuInv, DrawMenu PROVE MenuInv'
<1> DEFINE m == Head(down)
           f == [id |-> m.id, kind |-> m.kind]
<1>1. /\ doc' = doc /\ up' = up /\ log' = log /\ Arrives("menu")
      /\ frames' = Append(frames, f) /\ shown' = m.id
      /\ down # <<>> /\ down' = Tail(down)
  BY DEF DrawMenu, Arrives, paper
<1>2. Requests' = Requests /\ Menus' = Menus
  BY <1>1 DEF Requests, Menus
<1>3. down \in Seq(ToldBy(acts)) /\ m \in Menus
  BY <1>1, ArrivedIn DEF TypeInv, Numbers, ToldBy, Menus
<1>4. /\ Free(down, Menus) <=> Free(down', Menus) /\ m \notin Menus
      /\ Once(down, Menus) => Once(down', Menus) /\ (m \in Menus => Free(down', Menus))
  BY <1>1, <1>3, TailOnce
<1>5. CASE log.twice
  BY <1>1, <1>5 DEF MenuInv
<1>6. CASE ~log.twice
  <2>1. /\ Once(up, Requests) /\ Free(up, Requests) /\ frames = <<>>
        /\ Once(down', Menus) /\ Free(down', Menus)
    BY <1>3, <1>4, <1>6 DEF MenuInv
  <2>2. frames' = <<f>>
    BY <1>1, <2>1
  <2> HIDE DEF f
  <2>3. Len(frames') = 1 /\ frames' # <<>> /\ frames'[1] = f
    BY <2>2
  <2>4. f.id = shown'
    BY <1>1 DEF f
  <2> QED BY <1>1, <1>2, <2>1, <2>3, <2>4 DEF MenuInv
<1> QED BY <1>5, <1>6

(* No request is of a document to come.                                    *)
LEMMA MenuLeft == ASSUME TypeInv, MenuInv, NEW s, NEW l, Leave(s, l) PROVE MenuInv'
<1>1. doc' = [no |-> doc.no + 1, site |-> s] /\ down' = <<>> /\ frames' = <<>> /\ shown' = 0
  BY DEF Leave
<1>2. doc.no \in Nat /\ doc'.no = doc.no + 1 /\ up \in Seq(SaidBy(doc.no, acts))
  BY <1>1 DEF TypeInv, Plain, Numbers
<1>3. Free(up, Requests')
  <2> SUFFICES ASSUME NEW n \in DOMAIN up PROVE up[n] \notin Requests'
    BY DEF Free
  <2>1. up[n] \in SaidBy(doc.no, acts)
    BY <1>2, ElementOfSeq, LenProperties
  <2>2. up[n].doc \in Nat /\ up[n].doc <= doc.no
    BY <2>1, SaidParts
  <2> QED BY <1>2, <2>2 DEF Requests
<1>4. Free(up', Requests')
  <2>1. Moves(up, up', "capture")
    BY OfferMoves DEF Leave
  <2>2. \A m \in Requests' : m.is # "capture"
    BY DEF Requests
  <2> QED BY <1>2, <1>3, <2>1, <2>2, AsideOnce
<1>5. Once(up', Requests')
  BY <1>4 DEF Free, Once
<1>6. Free(down', Menus') /\ Once(down', Menus') /\ Len(frames') = 0
  BY <1>1, EmptyQueue
<1> QED BY <1>1, <1>4, <1>5, <1>6 DEF MenuInv

LEMMA MenuKept == ASSUME TypeInv, MenuInv, [Next]_vars PROVE MenuInv'
<1>1. CASE UNCHANGED vars
  BY <1>1 DEF vars, MenuInv, Requests, Menus
<1>2. ASSUME NEW b \in Boxes, ClickAnchor(b) \/ ClickBox(b) PROVE MenuInv'
  <2>1. doc' = doc /\ UNCHANGED down /\ \E k : Request(b, k, acts', frames)
    BY <1>2 DEF ClickAnchor, ClickBox, paper
  <2> QED BY <2>1, MenuAsked
<1>3. CASE TakeDismiss
  <2>1. /\ Arrives("dismiss") /\ doc' = doc
        /\ \/ \E b, k, id : Request(b, k, id, Closed(frames))
           \/ CloseMenu /\ UNCHANGED <<up, log>>
    BY <1>3 DEF TakeDismiss, paper
  <2>2. CASE CloseMenu /\ UNCHANGED <<up, log>>
    <3>1. Moves(up, up', "capture") /\ Moves(down, down', "dismiss")
      BY <2>1, <2>2, Traffic
    <3>2. MenuAside
      BY <2>1, <2>2, <3>1 DEF MenuAside
    <3> QED BY <3>2, MenuAsideKept
  <2> QED BY <2>1, <2>2, MenuAsked
<1> QED BY <1>1, <1>2, <1>3, MenuAsides, MenuAsideKept, MenuAnswered, MenuDrawn, MenuLeft DEF Next

LEMMA MenuStarts == ASSUME Init PROVE MenuInv
<1>1. up = <<>> /\ down = <<>> /\ frames = <<>> /\ shown = 0
  BY DEF Init
<1>2. Len(frames) = 0
  BY <1>1
<1>3. /\ Free(up, Requests) /\ Once(up, Requests)
      /\ Free(down, Menus) /\ Once(down, Menus)
  BY <1>1, EmptyQueue
<1> QED BY <1>1, <1>2, <1>3 DEF MenuInv

LEMMA MenuHolds == Spec => []MenuInv
BY MenuStarts, MenuKept, TypesHold, PTL DEF Spec

(* However clicks, the shortcut and answers fall, one menu is on screen,   *)
(* the one the keys go to, unless two were asked for before the first was  *)
(* drawn (openMenu(), onMenuKey() in content.js).                          *)
THEOREM OneMenuOnScreen == Spec => []OneMenu
<1>1. MenuInv => OneMenu
  BY DEF MenuInv, OneMenu
<1> QED BY <1>1, MenuHolds, PTL

-----------------------------------------------------------------------------
(* The screen.  Once the last change of the lock is on its way to the tab, *)
(* the last message that says whether the vault is locked says it as it    *)
(* is, the menus that come after the last lock message are of their kind,  *)
(* and the last message that settles the toast leaves nothing on it but    *)
(* the offer;  when no such message is on its way, the screen shows it.    *)
News == {m \in Told : m.is \in {"groups", "lock"}}
Locks == {m \in Told : m.is = "lock"}
Settling == {m \in Told : m.is = "notice" \/ (m.is = "lock" /\ m.locked)}
Left(m) == IF m.is = "notice" THEN m.id ELSE 0
Announced == casts = <<>> /\ ~opening
PaintInv ==
  /\ casts # <<>> /\ ~opening => casts[Len(casts)] = locked
  /\ Announced => /\ \A m \in Standing(down, News, News) : m.locked = locked
                  /\ Free(down, News) => fields = <<>> \/ painted = locked
FrameInv ==
  Announced /\ ~log.twice =>
    /\ \A m \in Standing(down, Menus, Locks) : (m.kind = "locked") = locked
    /\ Free(down, Locks) => \A f \in Range(frames) : (f.kind = "locked") = locked
ToastInv ==
  TRUE \notin Range(casts) =>
    /\ \A m \in Standing(down, Settling, Settling) : Left(m) \in {0, offer}
    /\ Free(down, Settling) => toast \in {0, offer}
ScreenInv == PaintInv /\ FrameInv /\ ToastInv

LEMMA ScreenQueues ==
  ASSUME TypeInv
  PROVE  /\ down \in Seq(ToldBy(acts)) /\ ToldBy(acts) \subseteq Told
         /\ frames \in Seq(FrameBy(acts)) /\ casts \in Seq(BOOLEAN)
         /\ up \in Seq(SaidBy(doc.no, acts))
BY DEF TypeInv, Plain, Numbers, ToldBy

LEMMA PaintAside ==
  ASSUME TypeInv, PaintInv, UNCHANGED <<casts, opening, locked, painted>>, fields' \in {fields, <<>>},
         NEW k \in {"menu", "fill", "notice", "dismiss"}, Moves(down, down', k)
  PROVE  PaintInv'
<1>1. \A m \in News \cup News : m.is # k
  BY DEF News
<1>2. (Free(down, News) <=> Free(down', News)) /\ Standing(down', News, News) \subseteq Standing(down, News, News)
  BY <1>1, ScreenQueues, Aside
<1>3. News' = News
  BY DEF News
<1> QED BY <1>2, <1>3 DEF PaintInv, Announced

LEMMA FrameAside ==
  ASSUME TypeInv, FrameInv, UNCHANGED <<casts, opening, locked>>, log.twice => log'.twice,
         Range(frames') \subseteq Range(frames),
         NEW k \in {"groups", "fill", "notice", "dismiss"}, Moves(down, down', k)
  PROVE  FrameInv'
<1>1. \A m \in Locks \cup Menus : m.is # k
  BY DEF Locks, Menus
<1>2. (Free(down, Locks) <=> Free(down', Locks)) /\ Standing(down', Menus, Locks) \subseteq Standing(down, Menus, Locks)
  BY <1>1, ScreenQueues, Aside
<1>3. Locks' = Locks /\ Menus' = Menus
  BY DEF Locks, Menus
<1> QED BY <1>2, <1>3 DEF FrameInv, Announced

LEMMA ToastAside ==
  ASSUME TypeInv, ToastInv, TRUE \in Range(casts) => TRUE \in Range(casts'),
         UNCHANGED offer, toast' \in {toast, 0},
         NEW k \in {"groups", "menu", "fill", "dismiss"}, Moves(down, down', k)
  PROVE  ToastInv'
<1>1. \A m \in Settling \cup Settling : m.is # k
  BY DEF Settling
<1>2. /\ Free(down, Settling) <=> Free(down', Settling)
      /\ Standing(down', Settling, Settling) \subseteq Standing(down, Settling, Settling)
  BY <1>1, ScreenQueues, Aside
<1>3. Settling' = Settling
  BY DEF Settling
<1> QED BY <1>2, <1>3 DEF ToastInv

(* The steps that say nothing of the lock, of a menu or of an offer.       *)
ScreenAside ==
  /\ UNCHANGED <<casts, opening, locked, painted, offer>>
  /\ fields' \in {fields, <<>>} /\ toast' \in {toast, 0} /\ (log.twice => log'.twice)
  /\ Range(frames') \subseteq Range(frames)
  /\ \E k \in {"fill", "dismiss"} : Moves(down, down', k)

LEMMA ScreenAsideKept == ASSUME TypeInv, ScreenInv, ScreenAside PROVE ScreenInv'
<1>1. PICK k \in {"fill", "dismiss"} : Moves(down, down', k)
  BY DEF ScreenAside
<1>2. PaintInv'
  BY <1>1, PaintAside DEF ScreenAside, ScreenInv
<1>3. FrameInv'
  BY <1>1, FrameAside DEF ScreenAside, ScreenInv
<1>4. ToastInv'
  BY <1>1, ToastAside DEF ScreenAside, ScreenInv
<1> QED BY <1>2, <1>3, <1>4 DEF ScreenInv

LEMMA ClosedRange ==
  ASSUME NEW A, NEW fs \in Seq(A)
  PROVE  Range(Closed(fs)) \subseteq Range(fs)
<1>1. CASE fs = <<>>
  BY <1>1 DEF Closed
<1>2. CASE fs # <<>>
  BY <1>2, TailFacts DEF Closed, Range
<1> QED BY <1>1, <1>2

LEMMA ScreenAsides ==
  ASSUME TypeInv,
         \/ \E l \in Layouts : Redraw(l)
         \/ \E b \in Boxes : Type(b) \/ ClickAnchor(b) \/ ClickBox(b)
         \/ Submit \/ Route \/ Dismiss \/ Shortcut \/ CloseToast \/ Save
         \/ \E s \in sessions : CloseFrame(s) \/ Expire(s) \/ \E w \in {"stored", "made"} : Pick(s, w)
         \/ \E p \in picks : SendFill(p)
         \/ Scan \/ TakeDismiss \/ TakeStored \/ TakeMade
  PROVE  ScreenAside
<1> USE DEF paper, scanned, menu, capture, content, back
<1>0. \A k : UNCHANGED down => Moves(down, down', k)
  BY Traffic
<1>a. log \in Log
  BY DEF TypeInv, Plain
<1>b. CloseMenu => Range(frames') \subseteq Range(frames)
  BY ScreenQueues, ClosedRange DEF CloseMenu
<1>c. ASSUME NEW b, NEW k, NEW id, Request(b, k, id, frames) \/ Request(b, k, id, Closed(frames))
      PROVE  (log.twice => log'.twice) /\ Range(frames') \subseteq Range(frames)
  <2>1. Range(Closed(frames)) \subseteq Range(frames)
    BY ScreenQueues, ClosedRange
  <2>2. Closed(frames) \in Seq(FrameBy(acts))
    BY ScreenQueues, ClosedType
  <2>3. Range(Closed(Closed(frames))) \subseteq Range(Closed(frames))
    BY <2>2, ClosedRange
  <2>4. log.twice => log'.twice
    <3> DEFINE W == \E m \in Range(up) \cup Range(down) : Waits(m)
               G == GroupFor(b) = None
    <3>1. log' = [put |-> log.put, turn |-> id, moved |-> G, twice |-> log.twice \/ W]
      BY <1>c DEF Request
    <3> HIDE DEF W, G
    <3>2. log'.twice = (log.twice \/ W)
      BY <3>1
    <3> QED BY <3>2
  <2>5. frames' = Closed(frames) \/ frames' = Closed(Closed(frames))
    BY <1>c DEF Request
  <2> QED BY <2>1, <2>3, <2>4, <2>5
<1>1. CASE \E l \in Layouts : Redraw(l)
  BY <1>0, <1>1 DEF Redraw, ScreenAside
<1>2. CASE \E b \in Boxes : Type(b)
  BY <1>0, <1>2 DEF Type, ScreenAside
<1>3. CASE \E b \in Boxes : ClickAnchor(b) \/ ClickBox(b)
  <2>1. /\ UNCHANGED <<casts, opening, locked, painted, offer, fields, toast, down>>
        /\ \E b, k : Request(b, k, acts', frames)
    BY <1>3 DEF ClickAnchor, ClickBox
  <2>2. (log.twice => log'.twice) /\ Range(frames') \subseteq Range(frames)
    BY <2>1, <1>c
  <2> QED BY <1>0, <2>1, <2>2 DEF ScreenAside
<1>4. CASE Submit \/ Route
  BY <1>0, <1>4 DEF Submit, Route, ScreenAside
<1>5. CASE Dismiss \/ CloseToast
  BY <1>0, <1>b, <1>5 DEF Dismiss, CloseToast, ScreenAside
<1>6. CASE Shortcut \/ \E s \in sessions : CloseFrame(s)
  <2>1. /\ Moves(down, down', "dismiss")
        /\ UNCHANGED <<casts, opening, locked, painted, offer, fields, toast, frames, log>>
    BY <1>6, Traffic DEF Shortcut, CloseFrame
  <2> QED BY <2>1 DEF ScreenAside
<1>7. CASE Save \/ \E s \in sessions : Expire(s) \/ \E w \in {"stored", "made"} : Pick(s, w)
  BY <1>0, <1>7 DEF Save, Expire, Pick, ScreenAside
<1>8. CASE \E p \in picks : SendFill(p)
  <2>1. /\ Moves(down, down', "fill")
        /\ UNCHANGED <<casts, opening, locked, painted, offer, fields, toast, frames, log>>
    BY <1>8, Traffic DEF SendFill
  <2> QED BY <2>1 DEF ScreenAside
<1>9. CASE Scan
  BY <1>0, <1>9 DEF Scan, ScreenAside
<1>10. CASE TakeDismiss
  <2>1. /\ Moves(down, down', "dismiss")
        /\ UNCHANGED <<casts, opening, locked, painted, offer, fields, toast>>
        /\ \/ \E b, k, id : Request(b, k, id, Closed(frames))
           \/ CloseMenu /\ UNCHANGED log
    BY <1>10, Traffic DEF TakeDismiss
  <2>2. (log.twice => log'.twice) /\ Range(frames') \subseteq Range(frames)
    BY <2>1, <1>b, <1>c
  <2> QED BY <2>1, <2>2 DEF ScreenAside
<1>11. CASE TakeStored
  <2>1. log'.twice = log.twice
    BY <1>11, <1>a DEF TakeStored, Log
  <2>2. /\ Moves(down, down', "fill") /\ CloseMenu
        /\ UNCHANGED <<casts, opening, locked, painted, offer, fields, toast>>
    BY <1>11, Traffic DEF TakeStored
  <2> QED BY <1>b, <2>1, <2>2 DEF ScreenAside
<1>12. CASE TakeMade
  <2>1. /\ Moves(down, down', "fill") /\ CloseMenu
        /\ UNCHANGED <<casts, opening, locked, painted, offer, fields, toast, log>>
    BY <1>12, Traffic DEF TakeMade
  <2> QED BY <1>b, <2>1 DEF ScreenAside
<1> QED BY <1>1, <1>2, <1>3, <1>4, <1>5, <1>6, <1>7, <1>8, <1>9, <1>10, <1>11, <1>12

LEMMA ScreenLeft == ASSUME TypeInv, ScreenInv, NEW s, NEW l, Leave(s, l) PROVE ScreenInv'
<1>1. /\ UNCHANGED <<casts, opening, locked>> /\ fields' = <<>> /\ frames' = <<>> /\ toast' = 0 /\ down' = <<>>
  BY DEF Leave, back
<1>2. /\ Standing(down', News', News') = {} /\ Standing(down', Menus', Locks') = {}
      /\ Standing(down', Settling', Settling') = {}
  BY <1>1, EmptyQueue
<1>3. Range(frames') = {}
  BY <1>1 DEF Range
<1>4. PaintInv'
  BY <1>1, <1>2 DEF ScreenInv, PaintInv, Announced
<1>5. FrameInv'
  BY <1>1, <1>2, <1>3 DEF FrameInv
<1>6. ToastInv'
  BY <1>1, <1>2 DEF ToastInv
<1> QED BY <1>4, <1>5, <1>6 DEF ScreenInv

(* The lock changes, and what is to be told of it waits.                   *)
LEMMA CastFacts ==
  ASSUME TypeInv, NEW c \in BOOLEAN, casts' = Append(casts, c)
  PROVE  /\ casts' # <<>> /\ casts'[Len(casts')] = c
         /\ Range(casts) \subseteq Range(casts') /\ c \in Range(casts')
<1>1. /\ Append(casts, c) # <<>> /\ Len(Append(casts, c)) = Len(casts) + 1
      /\ \A i \in 1 .. Len(casts) : Append(casts, c)[i] = casts[i]
      /\ Append(casts, c)[Len(casts) + 1] = c
  BY ScreenQueues, AppendProperties
<1>2. /\ DOMAIN casts' = DOMAIN casts \cup {Len(casts) + 1}
      /\ \A n \in DOMAIN casts : casts'[n] = casts[n]
  BY ScreenQueues, AppendFacts
<1> QED BY <1>1, <1>2 DEF Range

LEMMA ScreenLocks ==
  ASSUME TypeInv, ScreenInv, Lock \/ Unlock \/ Announce
  PROVE  ScreenInv'
<1> USE DEF paper, scanned, menu, capture, content, back
<1>0. News' = News /\ Menus' = Menus /\ Locks' = Locks /\ Settling' = Settling
  BY DEF News, Menus, Locks, Settling
<1>1. CASE Lock
  <2>1. casts' = Append(casts, TRUE) /\ locked' = TRUE
    BY <1>1 DEF Lock
  <2>2. casts' # <<>> /\ casts'[Len(casts')] = TRUE /\ TRUE \in Range(casts')
    BY <2>1, CastFacts
  <2> QED BY <2>1, <2>2 DEF ScreenInv, PaintInv, FrameInv, ToastInv, Announced
<1>2. CASE Unlock
  <2>1. /\ opening' = TRUE
        /\ UNCHANGED <<casts, offer, toast, down>>
    BY <1>2 DEF Unlock
  <2> QED BY <1>0, <2>1 DEF ScreenInv, PaintInv, FrameInv, ToastInv, Announced
<1>3. CASE Announce
  <2>1. casts' = Append(casts, locked) /\ UNCHANGED <<locked, offer, toast, down>> /\ locked \in BOOLEAN
    BY <1>3 DEF Announce, Shut, TypeInv, Plain
  <2>2. casts' # <<>> /\ casts'[Len(casts')] = locked /\ Range(casts) \subseteq Range(casts')
    BY <2>1, CastFacts
  <2> QED BY <1>0, <2>1, <2>2 DEF ScreenInv, PaintInv, FrameInv, ToastInv, Announced
<1> QED BY <1>1, <1>2, <1>3

LEMMA ScreenTold == ASSUME TypeInv, TypeInv', ScreenInv, Broadcast PROVE ScreenInv'
<1> DEFINE c == Head(casts)
           m == [is |-> "lock", locked |-> c]
<1>1. /\ casts # <<>> /\ casts' = Tail(casts) /\ down' = Append(down, m)
      /\ UNCHANGED <<locked, opening, offer, painted, fields, frames, toast>>
  BY DEF Broadcast, Tell, content, scanned, menu
<1>2. c \in BOOLEAN /\ m \in ToldBy(acts) /\ m \in Told /\ m.is = "lock" /\ m.locked = c
  <2>1. c \in BOOLEAN
    BY <1>1, ScreenQueues, Reads
  <2> QED BY <2>1, LockIn, ScreenQueues
<1> HIDE DEF m
<1>3. News' = News /\ Menus' = Menus /\ Locks' = Locks /\ Settling' = Settling
  BY DEF News, Menus, Locks, Settling
<1>4. /\ casts' # <<>> => casts'[Len(casts')] = casts[Len(casts)]
      /\ casts' = <<>> => c = casts[Len(casts)]
  <2>1. /\ Len(casts') = Len(casts) - 1 /\ casts' \in Seq(BOOLEAN)
        /\ \A i \in 1 .. Len(casts') : casts'[i] = casts[i + 1]
    BY <1>1, ScreenQueues, HeadTailProperties
  <2>2. casts[1] = c /\ Len(casts) \in Nat /\ Len(casts) # 0
    BY <1>1, ScreenQueues, TailFacts, LenProperties, EmptySeq
  <2>3. casts' = <<>> => Len(casts') = 0
    BY <2>1, EmptySeq
  <2>4. casts' # <<>> => Len(casts') # 0
    BY <2>1, EmptySeq
  <2> QED BY <2>1, <2>2, <2>3, <2>4
<1>5. PaintInv'
  <2>1. m \in News
    BY <1>2 DEF News
  <2>2. Standing(down', News, News) \subseteq {m} /\ ~Free(down', News)
    BY <1>1, <1>2, <2>1, ScreenQueues, AppendedIn
  <2> QED BY <1>1, <1>2, <1>3, <1>4, <2>2 DEF ScreenInv, PaintInv, Announced
<1>6. FrameInv'
  <2>1. m \in Locks /\ m \notin Menus
    BY <1>2 DEF Locks, Menus
  <2>2. Standing(down', Menus, Locks) \subseteq {m} /\ ~Free(down', Locks)
    BY <1>1, <1>2, <2>1, ScreenQueues, AppendedIn
  <2>3. Standing(down', Menus, Locks) \subseteq Menus
    BY DEF Standing
  <2> QED BY <1>3, <2>1, <2>2, <2>3 DEF FrameInv
<1>7. ToastInv'
  <2>1. CASE c = TRUE
    <3>1. m \in Settling /\ Left(m) = 0
      BY <1>2, <2>1 DEF Settling, Left
    <3>2. Standing(down', Settling, Settling) \subseteq {m} /\ ~Free(down', Settling)
      BY <1>1, <1>2, <3>1, ScreenQueues, AppendedIn
    <3> QED BY <1>3, <3>1, <3>2 DEF ToastInv
  <2>2. CASE c = FALSE
    <3>1. m \notin Settling
      BY <1>2, <2>2 DEF Settling
    <3>a. Standing(down', Settling, Settling) \subseteq Standing(down, Settling, Settling)
      BY <1>1, <1>2, <3>1, ScreenQueues, AppendedOut
    <3>b. Free(down', Settling) => Free(down, Settling)
      BY <1>1, <1>2, <3>1, ScreenQueues, AppendOnce
    <3>3. TRUE \in Range(casts) => TRUE \in Range(casts')
      <4> SUFFICES ASSUME NEW n \in DOMAIN casts, casts[n] = TRUE PROVE TRUE \in Range(casts')
        BY DEF Range
      <4>1. n # 1 /\ n - 1 \in DOMAIN casts' /\ casts'[n - 1] = casts[n]
        BY <1>1, <2>2, ScreenQueues, TailFacts
      <4> QED BY <4>1 DEF Range
    <3> QED BY <1>1, <1>3, <3>a, <3>b, <3>3 DEF ScreenInv, ToastInv
  <2> QED BY <1>2, <2>1, <2>2
<1> QED BY <1>5, <1>6, <1>7 DEF ScreenInv

LEMMA ScreenTakesLock == ASSUME TypeInv, MenuInv, ScreenInv, TakeLock PROVE ScreenInv'
<1> DEFINE m == Head(down)
<1>1. /\ Arrives("lock") /\ down # <<>> /\ down' = Tail(down)
      /\ painted' = m.locked /\ CloseMenu /\ toast' = Hidden(toast, m)
      /\ UNCHANGED <<locked, opening, casts, offer, fields, log>>
  BY DEF TakeLock, Arrives, back
<1>2. m \in Told /\ m.is = "lock" /\ m.locked \in BOOLEAN
  BY <1>1, ArrivedIn, ToldParts, ScreenQueues
<1>3. News' = News /\ Menus' = Menus /\ Locks' = Locks /\ Settling' = Settling
  BY DEF News, Menus, Locks, Settling
<1>4. PaintInv'
  <2>1. m \in News
    BY <1>2 DEF News
  <2>2. /\ Standing(down', News, News) \subseteq Standing(down, News, News)
        /\ Free(down', News) => m \in Standing(down, News, News)
    BY <1>1, <2>1, ScreenQueues, TailStanding
  <2> QED BY <1>1, <1>3, <2>2 DEF ScreenInv, PaintInv, Announced
<1>5. FrameInv'
  <2>1. Standing(down', Menus, Locks) \subseteq Standing(down, Menus, Locks)
    BY <1>1, ScreenQueues, TailStanding
  <2>2. ~log.twice => frames' = <<>>
    BY <1>1, ClosedMenu DEF MenuInv, CloseMenu
  <2>3. ~log.twice => Range(frames') = {}
    BY <2>2 DEF Range
  <2> QED BY <1>1, <1>3, <2>1, <2>3 DEF ScreenInv, FrameInv, Announced
<1>6. ToastInv'
  <2>1. /\ Standing(down', Settling, Settling) \subseteq Standing(down, Settling, Settling)
        /\ Free(down', Settling) /\ m \notin Settling => Free(down, Settling)
    BY <1>1, ScreenQueues, TailStanding
  <2>2. m \notin Settling => ~m.locked
    BY <1>2 DEF Settling
  <2>3. m \in Settling => toast' = 0
    BY <1>1, <1>2 DEF Settling, Hidden
  <2>4. m \notin Settling => toast' = toast
    BY <1>1, <2>2 DEF Hidden
  <2> QED BY <1>1, <1>3, <2>1, <2>3, <2>4 DEF ScreenInv, ToastInv
<1> QED BY <1>4, <1>5, <1>6 DEF ScreenInv

LEMMA ScreenDescribed == ASSUME TypeInv, TypeInv', ScreenInv, Describe PROVE ScreenInv'
<1> DEFINE m == [is |-> "groups", fields |-> Head(up).fields, locked |-> locked]
<1>1. /\ down' = down \/ down' = Append(down, m)
      /\ UNCHANGED <<locked, opening, casts, offer, painted, fields, frames, toast, log>>
  BY DEF Describe, Reply, Tell, content, scanned, menu, back
<1>2. Moves(down, down', "groups") /\ m.is = "groups" /\ m.locked = locked
  BY <1>1 DEF Moves
<1>3. FrameInv' /\ ToastInv'
  BY <1>1, <1>2, FrameAside, ToastAside DEF ScreenInv
<1>4. News' = News
  BY DEF News
<1>5. CASE down' = down
  BY <1>1, <1>3, <1>4, <1>5 DEF ScreenInv, PaintInv, Announced
<1>6. CASE down' = Append(down, m)
  <2>1. down \in Seq(ToldBy(acts) \cup {m}) /\ m \in ToldBy(acts) \cup {m}
    BY ScreenQueues, SeqMonotonic
  <2>2. m \in Told
    <3>1. Head(up) \in SaidBy(doc.no, acts) /\ Head(up).is = "describe"
      BY HeardIn DEF Describe
    <3>2. Head(up).fields \in Seq(Boxes) /\ locked \in BOOLEAN
      BY <3>1, SaidParts DEF TypeInv, Plain
    <3> QED BY <3>2, GroupsTold, ScreenQueues
  <2>3. m \in News
    BY <1>2, <2>2 DEF News
  <2> HIDE DEF m
  <2>4. Standing(down', News, News) \subseteq {m} /\ ~Free(down', News)
    BY <1>6, <2>1, <2>3, AppendedIn
  <2>5. PaintInv'
    BY <1>1, <1>2, <1>4, <2>4 DEF ScreenInv, PaintInv, Announced
  <2> QED BY <1>3, <2>5 DEF ScreenInv
<1> QED BY <1>1, <1>5, <1>6

LEMMA ScreenPainted == ASSUME TypeInv, ScreenInv, TakeGroups PROVE ScreenInv'
<1> DEFINE m == Head(down)
<1>1. /\ Arrives("groups") /\ down # <<>> /\ down' = Tail(down) /\ painted' = m.locked
      /\ UNCHANGED <<locked, opening, casts, offer, frames, toast>>
  BY DEF TakeGroups, Arrives, menu, back
<1>2. m \in Told /\ m.is = "groups" /\ log'.twice = log.twice
  BY <1>1, ArrivedIn, ScreenQueues DEF TakeGroups, TypeInv, Plain, Log
<1>3. Moves(down, down', "groups")
  BY <1>1, Traffic
<1>4. FrameInv' /\ ToastInv'
  BY <1>1, <1>2, <1>3, FrameAside, ToastAside DEF ScreenInv
<1>5. News' = News /\ m \in News
  BY <1>2 DEF News
<1>6. /\ Standing(down', News, News) \subseteq Standing(down, News, News)
      /\ Free(down', News) => m \in Standing(down, News, News)
  BY <1>1, <1>5, ScreenQueues, TailStanding
<1>7. PaintInv'
  BY <1>1, <1>5, <1>6 DEF ScreenInv, PaintInv, Announced
<1> QED BY <1>4, <1>7 DEF ScreenInv

LEMMA ScreenAnswered == ASSUME TypeInv, TypeInv', ScreenInv, Candidates PROVE ScreenInv'
<1> DEFINE h == Head(up)
           k == IF locked THEN "locked" ELSE h.kind
           m == [is |-> "menu", id |-> h.id, kind |-> k, asked |-> h.kind, box |-> h.box]
<1>1. /\ down' = down \/ down' = Append(down, m)
      /\ UNCHANGED <<locked, opening, casts, offer, painted, fields, frames, toast, log>>
  BY DEF Candidates, Reply, Tell, content, scanned, menu
<1>2. Moves(down, down', "menu") /\ m.is = "menu" /\ m.kind = k
  BY <1>1 DEF Moves
<1>3. (k = "locked") = locked
  <2>1. h \in SaidBy(doc.no, acts) /\ h.is = "candidates"
    BY HeardIn DEF Candidates
  <2>2. h.kind \in Kinds /\ locked \in BOOLEAN
    BY <2>1, SaidParts DEF TypeInv, Plain
  <2> QED BY <2>2 DEF Kinds
<1> HIDE DEF m, k
<1>4. PaintInv' /\ ToastInv'
  BY <1>1, <1>2, PaintAside, ToastAside DEF ScreenInv
<1>5. Menus' = Menus /\ Locks' = Locks
  BY DEF Menus, Locks
<1>6. CASE down' = down
  BY <1>1, <1>4, <1>5, <1>6 DEF ScreenInv, FrameInv, Announced
<1>7. CASE down' = Append(down, m)
  <2>1. down \in Seq(ToldBy(acts) \cup {m}) /\ m \in ToldBy(acts) \cup {m}
    BY ScreenQueues, SeqMonotonic
  <2>2. m \notin Locks
    BY <1>2 DEF Locks
  <2>3. Standing(down', Menus, Locks) \subseteq Standing(down, Menus, Locks) \cup {m}
    BY <1>7, <2>1, <2>2, AppendedOut
  <2>4. Free(down', Locks) => Free(down, Locks)
    BY <1>7, <2>1, <2>2, AppendOnce
  <2>5. FrameInv'
    BY <1>1, <1>2, <1>3, <1>5, <2>3, <2>4 DEF ScreenInv, FrameInv, Announced
  <2> QED BY <1>4, <2>5 DEF ScreenInv
<1> QED BY <1>1, <1>6, <1>7

LEMMA ScreenDrawn == ASSUME TypeInv, ScreenInv, DrawMenu PROVE ScreenInv'
<1> DEFINE m == Head(down)
           f == [id |-> m.id, kind |-> m.kind]
<1>1. /\ Arrives("menu") /\ down # <<>> /\ down' = Tail(down) /\ frames' = Append(frames, f)
      /\ UNCHANGED <<locked, opening, casts, offer, painted, fields, toast, log>>
  BY DEF DrawMenu, Arrives, scanned, back
<1>2. m \in Told /\ m.is = "menu" /\ f.kind = m.kind
  BY <1>1, ArrivedIn, ScreenQueues
<1>3. Moves(down, down', "menu")
  BY <1>1, Traffic
<1>4. PaintInv' /\ ToastInv'
  BY <1>1, <1>3, PaintAside, ToastAside DEF ScreenInv
<1>5. Menus' = Menus /\ Locks' = Locks /\ m \in Menus /\ m \notin Locks
  BY <1>2 DEF Menus, Locks
<1>6. /\ Standing(down', Menus, Locks) \subseteq Standing(down, Menus, Locks)
      /\ Free(down', Locks) => m \in Standing(down, Menus, Locks) /\ Free(down, Locks)
  BY <1>1, <1>5, ScreenQueues, TailStanding
<1> HIDE DEF f
<1>7. Range(frames') \subseteq Range(frames) \cup {f}
  <2>1. frames \in Seq(FrameBy(acts) \cup {f}) /\ f \in FrameBy(acts) \cup {f}
    BY ScreenQueues, SeqMonotonic
  <2>2. /\ DOMAIN frames' = DOMAIN frames \cup {Len(frames) + 1}
        /\ \A n \in DOMAIN frames : frames'[n] = frames[n]
        /\ frames'[Len(frames) + 1] = f
    BY <1>1, <2>1, AppendFacts
  <2> QED BY <2>2 DEF Range
<1>8. FrameInv'
  BY <1>1, <1>2, <1>5, <1>6, <1>7 DEF ScreenInv, FrameInv, Announced
<1> QED BY <1>4, <1>8 DEF ScreenInv

LEMMA ScreenOffered ==
  ASSUME TypeInv, TypeInv', ScreenInv,
         UNCHANGED <<locked, opening, casts, painted, fields, frames, toast, log>>,
         (UNCHANGED <<offer, down>>) \/ Notice(offer')
  PROVE  ScreenInv'
<1> DEFINE m == [is |-> "notice", id |-> offer']
<1>1. down' = down \/ down' = Append(down, m)
  BY DEF Notice, Tell
<1>2. Moves(down, down', "notice") /\ m.is = "notice" /\ m.id = offer'
  BY <1>1 DEF Moves
<1>3. PaintInv' /\ FrameInv'
  BY <1>2, PaintAside, FrameAside DEF ScreenInv
<1>4. Settling' = Settling
  BY DEF Settling
<1>5. CASE UNCHANGED <<offer, down>>
  BY <1>3, <1>4, <1>5 DEF ScreenInv, ToastInv
<1>6. CASE down' = Append(down, m)
  <2>1. offer' \in 0 .. MaxActs /\ acts' \in Nat /\ offer' <= acts'
    BY DEF TypeInv, Plain, Numbers
  <2>2. m \in Told
    BY <2>1, NoticeIn DEF ToldBy
  <2>3. m \in Settling /\ Left(m) = offer'
    BY <1>2, <2>2 DEF Settling, Left
  <2>4. down \in Seq(ToldBy(acts) \cup {m}) /\ m \in ToldBy(acts) \cup {m}
    BY ScreenQueues, SeqMonotonic
  <2> HIDE DEF m
  <2>5. Standing(down', Settling, Settling) \subseteq {m} /\ ~Free(down', Settling)
    BY <1>6, <2>3, <2>4, AppendedIn
  <2>6. ToastInv'
    BY <1>4, <2>3, <2>5 DEF ToastInv
  <2> QED BY <1>3, <2>6 DEF ScreenInv
<1> QED BY <1>5, <1>6 DEF Notice, Tell

LEMMA ScreenOffers ==
  ASSUME TypeInv, TypeInv', ScreenInv, Capture \/ Discard \/ \E id \in saving : EndSave(id)
  PROVE  ScreenInv'
<1>1. UNCHANGED <<locked, opening, casts, painted, fields, frames, toast, log>>
  BY DEF Capture, Discard, EndSave, content, scanned, menu
<1>2. (UNCHANGED <<offer, down>>) \/ Notice(offer')
  BY DEF Capture, Discard, EndSave
<1> QED BY <1>1, <1>2, ScreenOffered

LEMMA ScreenNoticed == ASSUME TypeInv, ScreenInv, TakeNotice PROVE ScreenInv'
<1> DEFINE m == Head(down)
<1>1. /\ Arrives("notice") /\ down # <<>> /\ down' = Tail(down) /\ toast' = m.id
      /\ UNCHANGED <<locked, opening, casts, offer, painted, fields, frames, log>>
  BY DEF TakeNotice, Arrives, scanned, menu, back
<1>2. m \in Told /\ m.is = "notice"
  BY <1>1, ArrivedIn, ScreenQueues
<1>3. Moves(down, down', "notice")
  BY <1>1, Traffic
<1>4. PaintInv' /\ FrameInv'
  BY <1>1, <1>3, PaintAside, FrameAside DEF ScreenInv
<1>5. Settling' = Settling /\ m \in Settling /\ Left(m) = m.id
  BY <1>2 DEF Settling, Left
<1>6. /\ Standing(down', Settling, Settling) \subseteq Standing(down, Settling, Settling)
      /\ Free(down', Settling) => m \in Standing(down, Settling, Settling)
  BY <1>1, <1>5, ScreenQueues, TailStanding
<1>7. ToastInv'
  BY <1>1, <1>5, <1>6 DEF ScreenInv, ToastInv
<1> QED BY <1>4, <1>7 DEF ScreenInv

LEMMA ScreenKept == ASSUME TypeInv, MenuInv, ScreenInv, [Next]_vars PROVE ScreenInv'
<1>1. CASE UNCHANGED vars
  BY <1>1 DEF vars, ScreenInv, PaintInv, FrameInv, ToastInv, Announced, News, Menus, Locks, Settling
<1>2. TypeInv'
  BY TypesKept
<1> QED BY <1>1, <1>2, ScreenAsides, ScreenAsideKept, ScreenLeft, ScreenLocks, ScreenTold,
           ScreenTakesLock, ScreenDescribed, ScreenPainted, ScreenAnswered, ScreenDrawn,
           ScreenOffers, ScreenNoticed DEF Next

LEMMA ScreenStarts == ASSUME Init PROVE ScreenInv
<1>1. /\ casts = <<>> /\ down = <<>> /\ fields = <<>> /\ frames = <<>> /\ toast = 0
  BY DEF Init
<1>2. /\ Standing(down, News, News) = {} /\ Standing(down, Menus, Locks) = {}
      /\ Standing(down, Settling, Settling) = {} /\ Range(frames) = {}
  BY <1>1, EmptyQueue DEF Range
<1> QED BY <1>1, <1>2 DEF ScreenInv, PaintInv, FrameInv, ToastInv

LEMMA ScreenHolds == Spec => []ScreenInv
BY ScreenStarts, ScreenKept, MenuHolds, TypesHold, PTL DEF Spec

LEMMA ScreenTells == ASSUME ScreenInv PROVE ScreenIsTrue
<1> SUFFICES ASSUME Quiet PROVE ScreenIsTrue
  BY DEF ScreenIsTrue
<1>1. Free(down, News) /\ Free(down, Locks) /\ Free(down, Settling)
  BY EmptyQueue DEF Quiet
<1>2. TRUE \notin Range(casts)
  BY DEF Quiet, Range
<1>3. fields # <<>> => painted = locked
  BY <1>1 DEF Quiet, ScreenInv, PaintInv, Announced
<1>4. log.twice \/ \A n \in DOMAIN frames : (frames[n].kind = "locked") = locked
  BY <1>1 DEF Quiet, ScreenInv, FrameInv, Announced, Range
<1>5. toast # 0 => toast = offer
  BY <1>1, <1>2 DEF ScreenInv, ToastInv
<1> QED BY <1>3, <1>4, <1>5 DEF ScreenIsTrue

(* However locks, unlocks, offers, answers and the tab's own steps fall,   *)
(* once nothing is on its way the anchors show whether the vault is        *)
(* locked, so does the menu, and a toast offers what can still be saved    *)
(* (broadcastLockState(); content.js: "an offer to save is now a lie").    *)
THEOREM ScreenTellsTheTruth == Spec => []ScreenIsTrue
BY ScreenTells, ScreenHolds, PTL

-----------------------------------------------------------------------------
(* Filling.  The number of a menu stands for one form: the form of the box *)
(* it was asked for at, in what is said, kept, chosen and told of it.  The *)
(* number of a menu that is to be opened stands for none yet.  While the   *)
(* menu last asked for counts and nothing came between, the roles it left  *)
(* in activeGroup are those of its form.                                   *)
UsedAt(d) ==
  {Form[m.box] : m \in {x \in Range(up) : x.is = "candidates" /\ x.id = d}}
    \cup {s.at : s \in {x \in sessions : x.id = d}}
    \cup {p.at : p \in {x \in picks : x.id = d}}
    \cup {m.at : m \in {x \in Range(down) : x.is = "fill" /\ x.id = d}}
Opens(d) == {m \in Told : m.is = "dismiss" /\ m.open /\ m.id = d}
Unused ==
  \A d \in Acts : /\ Once(down, Opens(d))
                  /\ Free(down, Opens(d)) \/ (UsedAt(d) = {} /\ log.turn # d)
For(f) ==
  /\ active # None /\ (fields = <<>> \/ active = GroupOf(fields, f))
  /\ UsedAt(log.turn) \subseteq {f}
TurnInv == log.turn # 0 /\ ~log.moved => \E f \in Forms : For(f)
FillInv == groups = Groups(fields) /\ Unused /\ TurnInv /\ FilledWhereAsked

LEMMA MovedRange ==
  ASSUME NEW A, NEW q \in Seq(A), NEW p, NEW k, Moves(q, p, k), NEW x \in Range(p)
  PROVE  x \in Range(q) \/ x.is = k
<1>1. CASE p = q
  BY <1>1
<1>2. ASSUME NEW m, m.is = k, p = Append(q, m) PROVE x \in Range(q) \/ x.is = k
  <2>1. q \in Seq(A \cup {m}) /\ m \in A \cup {m}
    BY SeqMonotonic
  <2>2. /\ DOMAIN p = DOMAIN q \cup {Len(q) + 1}
        /\ \A n \in DOMAIN q : p[n] = q[n]
        /\ p[Len(q) + 1] = m
    BY <1>2, <2>1, AppendFacts
  <2> QED BY <1>2, <2>2 DEF Range
<1>3. CASE q # <<>> /\ p = Tail(q)
  BY <1>3, TailFacts DEF Range
<1> QED BY <1>1, <1>2, <1>3 DEF Moves

LEMMA ReadRange ==
  ASSUME NEW A, NEW q \in Seq(A), q # <<>>
  PROVE  Head(q) \in Range(q) /\ Range(Tail(q)) \subseteq Range(q)
BY TailFacts DEF Range

LEMMA RangeIn ==
  ASSUME NEW A, NEW q \in Seq(A), NEW x \in Range(q)
  PROVE  x \in A
<1>1. PICK n \in DOMAIN q : q[n] = x
  BY DEF Range
<1> QED BY <1>1, ElementOfSeq, LenProperties

(* A number above the acts stands for nothing.                             *)
LEMMA NotYetUsed ==
  ASSUME TypeInv, NEW d \in Nat, d > acts
  PROVE  UsedAt(d) = {} /\ Free(down, Opens(d)) /\ log.turn # d
<1>0. acts \in Nat /\ log.turn \in Nat /\ log.turn <= acts
  BY DEF TypeInv, Plain, Numbers, Log
<1>1. ASSUME NEW x \in Range(up), x.is = "candidates" PROVE x.id # d
  <2>1. x \in SaidBy(doc.no, acts)
    BY ScreenQueues, RangeIn
  <2> QED BY <1>0, <1>1, <2>1, SaidParts DEF Acts
<1>2. ASSUME NEW x \in Range(down), x.is \in {"fill", "dismiss"} PROVE x.id # d
  <2>1. x \in ToldBy(acts)
    BY ScreenQueues, RangeIn
  <2> QED BY <1>0, <1>2, <2>1, ToldParts DEF Acts
<1>3. \A s \in sessions : s.id # d
  BY <1>0 DEF TypeInv, Plain, Numbers, Asked, Acts
<1>4. \A p \in picks : p.id # d
  BY <1>0 DEF TypeInv, Numbers, PickBy
<1>5. UsedAt(d) = {}
  BY <1>1, <1>2, <1>3, <1>4 DEF UsedAt
<1>6. Free(down, Opens(d))
  BY <1>2 DEF Free, Opens, Range
<1> QED BY <1>0, <1>5, <1>6

(* What stands for a form in a step stood for it before.                   *)
Carried ==
  /\ \A x \in Range(up') : x.is = "candidates" => x \in Range(up)
  /\ \A s \in sessions' : s \in sessions \/ \E x \in Range(up) :
       x.is = "candidates" /\ x.id = s.id /\ Form[x.box] = s.at
  /\ \A p \in picks' : p \in picks \/ \E s \in sessions : s.id = p.id /\ s.at = p.at
  /\ \A m \in Range(down') : m.is = "fill" =>
       m \in Range(down) \/ \E p \in picks : p.id = m.id /\ p.at = m.at
OpensKept ==
  \A d \in Acts : /\ Free(down, Opens(d)) => Free(down', Opens(d))
                  /\ Once(down, Opens(d)) => Once(down', Opens(d))

LEMMA UsedKept == ASSUME Carried, NEW d PROVE (UsedAt(d))' \subseteq UsedAt(d)
<1> SUFFICES ASSUME NEW f \in (UsedAt(d))' PROVE f \in UsedAt(d)
  OBVIOUS
<1>1. ASSUME NEW x \in Range(up'), x.is = "candidates", x.id = d, f = Form[x.box] PROVE f \in UsedAt(d)
  BY <1>1 DEF Carried, UsedAt
<1>2. ASSUME NEW s \in sessions', s.id = d, f = s.at PROVE f \in UsedAt(d)
  BY <1>2 DEF Carried, UsedAt
<1>3. ASSUME NEW p \in picks', p.id = d, f = p.at PROVE f \in UsedAt(d)
  BY <1>3 DEF Carried, UsedAt
<1>4. ASSUME NEW m \in Range(down'), m.is = "fill", m.id = d, f = m.at PROVE f \in UsedAt(d)
  BY <1>4 DEF Carried, UsedAt
<1> QED BY <1>1, <1>2, <1>3, <1>4 DEF UsedAt

(* The steps that ask for no menu and fill nothing.                        *)
FillAside ==
  /\ Carried /\ OpensKept /\ active' = active
  /\ log'.turn = log.turn /\ log'.put = log.put /\ (log.moved => log'.moved)
  /\ groups' = Groups(fields')
  /\ log'.moved \/ fields' \in {fields, <<>>}

LEMMA FillAsideKept == ASSUME FillInv, FillAside PROVE FillInv'
<1>1. \A d : (UsedAt(d))' \subseteq UsedAt(d)
  BY UsedKept DEF FillAside
<1>2. \A d : Opens(d)' = Opens(d)
  BY DEF Opens
<1>3. Unused'
  <2> SUFFICES ASSUME NEW d \in Acts
               PROVE  /\ Once(down', Opens(d))
                      /\ Free(down', Opens(d)) \/ ((UsedAt(d))' = {} /\ log'.turn # d)
    BY <1>2 DEF Unused
  <2>1. /\ Once(down, Opens(d))
        /\ Free(down, Opens(d)) \/ (UsedAt(d) = {} /\ log.turn # d)
    BY DEF FillInv, Unused
  <2>2. (UsedAt(d))' \subseteq UsedAt(d)
    BY <1>1
  <2> QED BY <2>1, <2>2 DEF FillAside, OpensKept
<1>4. TurnInv'
  <2> SUFFICES ASSUME log'.turn # 0, ~log'.moved PROVE \E f \in Forms : For(f)'
    BY DEF TurnInv
  <2>1. PICK f \in Forms : For(f)
    BY DEF FillAside, FillInv, TurnInv
  <2>2. (UsedAt(log.turn))' \subseteq {f}
    <3>1. log'.turn = log.turn
      BY DEF FillAside
    <3> QED BY <1>1, <2>1, <3>1 DEF For
  <2> QED BY <2>1, <2>2 DEF For, FillAside
<1>5. FilledWhereAsked'
  BY DEF FillInv, FilledWhereAsked, FillAside
<1> QED BY <1>3, <1>4, <1>5 DEF FillInv, FillAside

LEMMA CarriedBy ==
  ASSUME TypeInv, NEW k, k # "candidates", Moves(up, up', k), NEW j, j # "fill", Moves(down, down', j),
         sessions' \subseteq sessions, picks' \subseteq picks
  PROVE  Carried
<1>1. \A x \in Range(up') : x \in Range(up) \/ x.is = k
  BY ScreenQueues, MovedRange
<1>2. \A x \in Range(down') : x \in Range(down) \/ x.is = j
  BY ScreenQueues, MovedRange
<1> QED BY <1>1, <1>2 DEF Carried

LEMMA OpensBy ==
  ASSUME TypeInv, NEW j, j # "dismiss", Moves(down, down', j)
  PROVE  OpensKept
<1> SUFFICES ASSUME NEW d \in Acts
             PROVE  /\ Free(down, Opens(d)) => Free(down', Opens(d))
                    /\ Once(down, Opens(d)) => Once(down', Opens(d))
  BY DEF OpensKept
<1>1. \A m \in Opens(d) : m.is # j
  BY DEF Opens
<1> QED BY <1>1, ScreenQueues, AsideOnce

LEMMA OpensRead ==
  ASSUME TypeInv, Arrives("dismiss")
  PROVE  OpensKept
<1> SUFFICES ASSUME NEW d \in Acts
             PROVE  /\ Free(down, Opens(d)) => Free(down', Opens(d))
                    /\ Once(down, Opens(d)) => Once(down', Opens(d))
  BY DEF OpensKept
<1> QED BY ScreenQueues, TailOnce DEF Arrives

LEMMA FillAsides ==
  ASSUME TypeInv, FillInv,
         \/ \E l \in Layouts : Redraw(l)
         \/ \E b \in Boxes : Type(b)
         \/ Submit \/ Route \/ Dismiss \/ CloseToast \/ Save \/ Discard
         \/ \E s \in sessions : CloseFrame(s) \/ Expire(s) \/ \E w \in {"stored", "made"} : Pick(s, w)
         \/ \E p \in picks : SendFill(p)
         \/ \E id \in saving : EndSave(id)
         \/ Lock \/ Unlock \/ Announce \/ Broadcast
         \/ Scan \/ Describe \/ Candidates \/ Capture
         \/ TakeGroups \/ DrawMenu \/ TakeMade \/ TakeNotice \/ TakeLock
  PROVE  FillAside
<1> USE DEF paper, scanned, menu, capture, content, back
<1> DEFINE Up(k) == Moves(up, up', k)
           Down(k) == Moves(down, down', k)
           Still == UNCHANGED <<active, log, fields, groups>>
           Fewer == sessions' \subseteq sessions /\ picks' \subseteq picks
<1>0. /\ \A k : UNCHANGED up => Up(k)
      /\ \A k : UNCHANGED down => Down(k)
  BY Traffic
<1>a. groups = Groups(fields) /\ log \in Log
  BY DEF FillInv, TypeInv, Plain
<1>b. ASSUME NEW k \in {"describe", "capture"}, NEW j \in {"groups", "menu", "notice", "lock"},
             Up(k), Down(j), Fewer
      PROVE  Carried /\ OpensKept
  <2>1. Carried
    BY <1>b, CarriedBy
  <2>2. OpensKept
    BY <1>b, OpensBy
  <2> QED BY <2>1, <2>2
<1>c. ASSUME NEW k \in {"describe", "capture"}, NEW j \in {"groups", "menu", "notice", "lock"},
             Up(k), Down(j), Fewer, Still
      PROVE  FillAside
  BY <1>a, <1>b, <1>c DEF FillAside
<1>1. CASE (\E l \in Layouts : Redraw(l)) \/ (\E b \in Boxes : Type(b))
  <2>1. UNCHANGED <<up, down, sessions, picks>> /\ Still
    BY <1>1 DEF Redraw, Type
  <2> QED BY <1>0, <1>c, <2>1
<1>2. CASE Submit \/ Route
  <2>1. Up("capture") /\ UNCHANGED <<down, sessions, picks>> /\ Still
    BY <1>2, OfferMoves DEF Submit, Route
  <2> QED BY <1>0, <1>c, <2>1
<1>3. CASE Dismiss \/ CloseToast \/ Save \/ Lock \/ Unlock \/ Announce \/ \E s \in sessions : Expire(s)
  <2>1. UNCHANGED <<up, down, picks>> /\ sessions' \subseteq sessions /\ Still
    BY <1>3 DEF Dismiss, CloseToast, Save, Lock, Unlock, Announce, Expire
  <2> QED BY <1>0, <1>c, <2>1
<1>4. CASE Discard \/ \E id \in saving : EndSave(id)
  <2>1. Down("notice") /\ UNCHANGED <<up, sessions, picks>> /\ Still
    BY <1>0, <1>4, Traffic DEF Discard, EndSave, Notice
  <2> QED BY <1>0, <1>c, <2>1
<1>5. ASSUME NEW s \in sessions, CloseFrame(s) PROVE FillAside
  <2> DEFINE m == [is |-> "dismiss", open |-> FALSE, id |-> s.id]
  <2>1. /\ down' = Append(down, m) /\ Down("dismiss")
        /\ UNCHANGED <<up, picks>> /\ sessions' \subseteq sessions /\ Still
    BY <1>5, Traffic DEF CloseFrame, Tell
  <2>2. Carried
    <3>1. Up("capture") /\ sessions' \subseteq sessions /\ picks' \subseteq picks
      BY <1>0, <2>1
    <3> QED BY <2>1, <3>1, CarriedBy
  <2>3. OpensKept
    <3> SUFFICES ASSUME NEW d \in Acts
                 PROVE  /\ Free(down, Opens(d)) => Free(down', Opens(d))
                        /\ Once(down, Opens(d)) => Once(down', Opens(d))
      BY DEF OpensKept
    <3>1. m \notin Opens(d)
      BY DEF Opens
    <3>2. down \in Seq(ToldBy(acts) \cup {m}) /\ m \in ToldBy(acts) \cup {m}
      BY ScreenQueues, SeqMonotonic
    <3> HIDE DEF m
    <3> QED BY <2>1, <3>1, <3>2, AppendOnce
  <2> QED BY <1>a, <2>1, <2>2, <2>3 DEF FillAside
<1>6. ASSUME NEW s \in sessions, NEW w \in {"stored", "made"}, Pick(s, w) PROVE FillAside
  <2>1. /\ UNCHANGED <<up, down, sessions>> /\ Still
        /\ picks' = picks \cup {[what |-> w, id |-> s.id, at |-> s.at]}
    BY <1>6 DEF Pick
  <2>2. Carried
    BY <2>1 DEF Carried
  <2>3. OpensKept
    BY <2>1 DEF OpensKept
  <2> QED BY <1>a, <2>1, <2>2, <2>3 DEF FillAside
<1>7. ASSUME NEW p \in picks, SendFill(p) PROVE FillAside
  <2> DEFINE m == [is |-> "fill", what |-> p.what, id |-> p.id, at |-> p.at]
  <2>1. /\ down' = Append(down, m) /\ Down("fill") /\ up' = up /\ Fewer /\ Still
    BY <1>7, Traffic DEF SendFill, Tell
  <2>2. Range(down') \subseteq Range(down) \cup {m}
    <3>1. down \in Seq(ToldBy(acts) \cup {m}) /\ m \in ToldBy(acts) \cup {m}
      BY ScreenQueues, SeqMonotonic
    <3> HIDE DEF m
    <3>2. /\ DOMAIN down' = DOMAIN down \cup {Len(down) + 1}
          /\ \A n \in DOMAIN down : down'[n] = down[n]
          /\ down'[Len(down) + 1] = m
      BY <2>1, <3>1, AppendFacts
    <3> QED BY <3>2 DEF Range
  <2>3. Carried
    BY <2>1, <2>2 DEF Carried
  <2>4. OpensKept
    BY <2>1, OpensBy
  <2> QED BY <1>a, <2>1, <2>3, <2>4 DEF FillAside
<1>8. CASE Broadcast
  <2>1. Down("lock") /\ UNCHANGED <<up, sessions, picks>> /\ Still
    BY <1>8, Traffic DEF Broadcast
  <2> QED BY <1>0, <1>c, <2>1
<1>9. CASE Scan
  <2>1. Up("describe") /\ UNCHANGED <<down, sessions, picks>>
    BY <1>0, <1>9, Traffic DEF Scan
  <2>2. Carried /\ OpensKept
    BY <1>0, <1>b, <2>1
  <2>3. /\ UNCHANGED <<active, log>>
        /\ (fields' = <<>> /\ groups' = {}) \/ UNCHANGED <<fields, groups>>
    BY <1>9 DEF Scan
  <2>4. Groups(<<>>) = {}
    BY DEF Groups
  <2> QED BY <1>a, <2>2, <2>3, <2>4 DEF FillAside
<1>10. CASE Describe
  <2>1. Up("describe") /\ Down("groups") /\ UNCHANGED <<sessions, picks>> /\ Still
    BY <1>10, Traffic DEF Describe
  <2> QED BY <1>c, <2>1
<1>11. CASE Candidates
  <2> DEFINE m == Head(up)
  <2>1. /\ up # <<>> /\ up' = Tail(up) /\ m.is = "candidates" /\ Down("menu") /\ picks' = picks /\ Still
    BY <1>0, <1>11, Traffic DEF Candidates, Hear
  <2>2. \A s \in sessions' : s \in sessions \/ (s.id = m.id /\ s.at = Form[m.box])
    BY <1>11 DEF Candidates
  <2>3. m \in Range(up) /\ Range(up') \subseteq Range(up)
    BY <2>1, ScreenQueues, ReadRange
  <2>4. \A x \in Range(down') : x \in Range(down) \/ x.is = "menu"
    BY <2>1, ScreenQueues, MovedRange
  <2>5. Carried
    BY <2>1, <2>2, <2>3, <2>4 DEF Carried
  <2>6. OpensKept
    BY <2>1, OpensBy
  <2> QED BY <1>a, <2>1, <2>5, <2>6 DEF FillAside
<1>12. CASE Capture
  <2>1. Down("notice")
    <3>1. down' = down \/ \E id : Notice(id)
      BY <1>12 DEF Capture
    <3> QED BY <1>0, <3>1, Traffic DEF Notice
  <2>2. Up("capture") /\ UNCHANGED <<sessions, picks>> /\ Still
    BY <1>12, Traffic DEF Capture
  <2> QED BY <1>c, <2>1, <2>2
<1>13. CASE TakeGroups
  <2>1. Down("groups") /\ UNCHANGED <<up, sessions, picks>>
    BY <1>13, Traffic DEF TakeGroups
  <2>2. Carried /\ OpensKept
    BY <1>0, <1>b, <2>1
  <2>3. /\ active' = active /\ groups' = Groups(fields')
        /\ log'.turn = log.turn /\ log'.put = log.put
        /\ log'.moved = (log.moved \/ fields' # fields)
    BY <1>13, <1>a DEF TakeGroups, Log
  <2> QED BY <2>2, <2>3 DEF FillAside
<1>14. CASE DrawMenu
  <2>1. Down("menu") /\ UNCHANGED <<up, sessions, picks>> /\ Still
    BY <1>14, Traffic DEF DrawMenu
  <2> QED BY <1>0, <1>c, <2>1
<1>15. CASE TakeMade
  <2>1. /\ Down("fill") /\ down # <<>> /\ down' = Tail(down)
        /\ UNCHANGED <<up, sessions, picks>> /\ Still
    BY <1>15, Traffic DEF TakeMade, Arrives
  <2>2. Range(down') \subseteq Range(down)
    BY <2>1, ScreenQueues, ReadRange
  <2>3. Carried
    BY <2>1, <2>2 DEF Carried
  <2>4. OpensKept
    BY <2>1, OpensBy
  <2> QED BY <1>a, <2>1, <2>3, <2>4 DEF FillAside
<1>16. CASE TakeNotice
  <2>1. Down("notice") /\ UNCHANGED <<up, sessions, picks>> /\ Still
    BY <1>16, Traffic DEF TakeNotice
  <2> QED BY <1>0, <1>c, <2>1
<1>17. CASE TakeLock
  <2>1. Down("lock") /\ UNCHANGED <<up, sessions, picks>> /\ Still
    BY <1>17, Traffic DEF TakeLock
  <2> QED BY <1>0, <1>c, <2>1
<1> QED BY <1>1, <1>2, <1>3, <1>4, <1>5, <1>6, <1>7, <1>8, <1>9, <1>10, <1>11, <1>12, <1>13,
           <1>14, <1>15, <1>16, <1>17

LEMMA FillLeft == ASSUME TypeInv, FillInv, NEW s, NEW l, Leave(s, l) PROVE FillInv'
<1>1. /\ down' = <<>> /\ fields' = <<>> /\ groups' = {}
      /\ log' = [put |-> log.put, turn |-> 0, moved |-> FALSE, twice |-> FALSE]
  BY DEF Leave
<1>2. groups' = Groups(fields')
  BY <1>1 DEF Groups
<1>3. Unused'
  BY <1>1, EmptyQueue DEF Unused
<1>4. TurnInv' /\ FilledWhereAsked'
  BY <1>1 DEF TurnInv, FillInv, FilledWhereAsked
<1> QED BY <1>2, <1>3, <1>4 DEF FillInv

(* The form of the roles that the box of a menu has.                       *)
LEMMA GroupForForm ==
  ASSUME TypeInv, groups = Groups(fields), NEW b \in Boxes, GroupFor(b) # None
  PROVE  GroupFor(b) = GroupOf(fields, Form[b])
<1> DEFINE g == GroupFor(b)
<1>1. g \in groups /\ \E i \in {g.user, g.pass, g.new} : At(i) = b
  BY GroupForIn DEF TypeInv
<1>2. PICK n \in DOMAIN fields : g = GroupOf(fields, Form[fields[n]])
  BY <1>1 DEF Groups
<1>3. PICK i \in {g.user, g.pass, g.new} : At(i) = b
  BY <1>1
<1>4. i \in DOMAIN fields /\ fields[i] = b
  BY <1>3 DEF At
<1>5. fields \in Seq(Boxes)
  BY DEF TypeInv, Plain
<1> HIDE DEF g
<1>6. Form[fields[i]] = Form[fields[n]]
  BY <1>2, <1>3, <1>4, <1>5, GroupIn
<1> QED BY <1>2, <1>4, <1>6 DEF g

(* A menu asked for under a number that nothing stands for.                *)
LEMMA FillAsked ==
  ASSUME TypeInv, FillInv, NEW b \in Boxes, NEW k, NEW id \in Acts, NEW fs, Request(b, k, id, fs),
         UNCHANGED <<fields, groups, sessions, picks>>,
         Range(down') \subseteq Range(down), OpensKept, UsedAt(id) = {}, Free(down', Opens(id))
  PROVE  FillInv'
<1> DEFINE m == [is |-> "candidates", doc |-> doc.no, id |-> id, box |-> b, kind |-> k, site |-> doc.site]
           G == GroupFor(b) = None
           W == log.twice \/ \E x \in Range(up) \cup Range(down) : Waits(x)
<1>1. /\ up' = Append(up, m) /\ active' = GroupFor(b)
      /\ log' = [put |-> log.put, turn |-> id, moved |-> G, twice |-> W]
  BY DEF Request, Say
<1> HIDE DEF G, W
<1>2. log'.turn = id /\ log'.put = log.put /\ log'.moved = G
  BY <1>1
<1>3. Range(up') \subseteq Range(up) \cup {m}
  <2>1. up \in Seq(SaidBy(doc.no, acts) \cup {m}) /\ m \in SaidBy(doc.no, acts) \cup {m}
    BY ScreenQueues, SeqMonotonic
  <2> HIDE DEF m
  <2>2. /\ DOMAIN up' = DOMAIN up \cup {Len(up) + 1}
        /\ \A n \in DOMAIN up : up'[n] = up[n]
        /\ up'[Len(up) + 1] = m
    BY <1>1, <2>1, AppendFacts
  <2> QED BY <2>2 DEF Range
<1>4. ASSUME NEW d PROVE (UsedAt(d))' \subseteq UsedAt(d) \cup (IF d = id THEN {Form[b]} ELSE {})
  <2> SUFFICES ASSUME NEW f \in (UsedAt(d))' PROVE f \in UsedAt(d) \/ (d = id /\ f = Form[b])
    OBVIOUS
  <2>1. ASSUME NEW x \in Range(up'), x.is = "candidates", x.id = d, f = Form[x.box]
        PROVE  f \in UsedAt(d) \/ (d = id /\ f = Form[b])
    <3>1. CASE x = m
      BY <2>1, <3>1
    <3>2. CASE x \in Range(up)
      BY <2>1, <3>2 DEF UsedAt
    <3> QED BY <1>3, <3>1, <3>2
  <2>2. ASSUME NEW x \in Range(down'), x.is = "fill", x.id = d, f = x.at PROVE f \in UsedAt(d)
    BY <2>2 DEF UsedAt
  <2>3. ASSUME NEW x \in sessions \cup picks, x.id = d, f = x.at, x \in sessions \/ x \in picks PROVE f \in UsedAt(d)
    BY <2>3 DEF UsedAt
  <2> QED BY <2>1, <2>2, <2>3 DEF UsedAt
<1>5. \A d : Opens(d)' = Opens(d)
  BY DEF Opens
<1>6. Unused'
  <2> SUFFICES ASSUME NEW d \in Acts
               PROVE  /\ Once(down', Opens(d))
                      /\ Free(down', Opens(d)) \/ ((UsedAt(d))' = {} /\ log'.turn # d)
    BY <1>5 DEF Unused
  <2>1. /\ Once(down, Opens(d))
        /\ Free(down, Opens(d)) \/ UsedAt(d) = {}
    BY DEF FillInv, Unused
  <2>2. CASE d = id
    BY <2>1, <2>2 DEF OpensKept
  <2>3. CASE d # id
    BY <1>2, <1>4, <2>1, <2>3 DEF OpensKept
  <2> QED BY <2>2, <2>3
<1>7. TurnInv'
  <2> SUFFICES ASSUME ~log'.moved PROVE \E f \in Forms : For(f)'
    BY DEF TurnInv
  <2>1. GroupFor(b) # None
    BY <1>2 DEF G
  <2>2. active' = GroupOf(fields', Form[b]) /\ active' # None
    BY <1>1, <2>1, GroupForForm DEF FillInv
  <2>3. (UsedAt(log.turn))' \subseteq {Form[b]}
    BY <1>2, <1>4
  <2>4. Form[b] \in Forms
    OBVIOUS
  <2> QED BY <2>2, <2>3, <2>4 DEF For
<1>8. FilledWhereAsked'
  BY <1>2 DEF FillInv, FilledWhereAsked
<1> QED BY <1>6, <1>7, <1>8 DEF FillInv

LEMMA FillClicked ==
  ASSUME TypeInv, FillInv, NEW b \in Boxes, ClickAnchor(b) \/ ClickBox(b)
  PROVE  FillInv'
<1>1. /\ Act /\ UNCHANGED <<fields, groups, sessions, picks, down>>
      /\ \E k : Request(b, k, acts', frames)
  BY DEF ClickAnchor, ClickBox, scanned, back
<1>2. acts' \in Acts /\ acts' \in Nat /\ acts' > acts
  BY <1>1, Acted
<1>3. UsedAt(acts') = {} /\ Free(down', Opens(acts'))
  BY <1>1, <1>2, NotYetUsed
<1>4. OpensKept /\ Range(down') \subseteq Range(down)
  BY <1>1 DEF OpensKept
<1>5. PICK k : Request(b, k, acts', frames)
  BY <1>1
<1> QED BY <1>1, <1>2, <1>3, <1>4, <1>5, FillAsked

LEMMA FillOpened == ASSUME TypeInv, FillInv, TakeDismiss PROVE FillInv'
<1> DEFINE m == Head(down)
           g == FirstGroup
           first == Either(At(g.pass), Either(At(g.user), At(g.new)))
           b == IF anchor # None THEN anchor.box ELSE first
           k == IF anchor # None THEN anchor.kind ELSE "login"
<1>1. /\ Arrives("dismiss") /\ down # <<>> /\ down' = Tail(down)
      /\ UNCHANGED <<fields, groups, sessions, picks>>
      /\ IF m.open /\ b # None THEN Request(b, k, m.id, Closed(frames))
         ELSE CloseMenu /\ UNCHANGED <<active, up, log>>
  BY DEF TakeDismiss, Arrives, scanned, back
<1>2. m \in Told /\ m.is = "dismiss" /\ m.id \in Acts
  BY <1>1, ArrivedIn, ToldParts, ScreenQueues
<1>3. b \in Boxes \cup {None}
  <2>1. first \in Boxes \cup {None}
    BY AtType, EitherType DEF TypeInv
  <2> HIDE DEF first
  <2> QED BY <2>1 DEF TypeInv, Plain
<1>4. OpensKept /\ Range(down') \subseteq Range(down)
  BY <1>1, OpensRead, ReadRange, ScreenQueues
<1> HIDE DEF m, b, k
<1>5. CASE m.open /\ b # None
  <2>1. b \in Boxes /\ Request(b, k, m.id, Closed(frames))
    BY <1>1, <1>3, <1>5
  <2>2. m \in Opens(m.id)
    BY <1>2, <1>5 DEF Opens
  <2>3. ~Free(down, Opens(m.id))
    BY <1>1, <2>2, ScreenQueues, TailOnce DEF m
  <2>4. UsedAt(m.id) = {} /\ Once(down, Opens(m.id))
    BY <1>2, <2>3 DEF FillInv, Unused
  <2>5. Free(down', Opens(m.id))
    BY <1>1, <2>2, <2>4, ScreenQueues, TailOnce DEF m
  <2> QED BY <1>1, <1>2, <1>4, <2>1, <2>4, <2>5, FillAsked
<1>6. CASE ~(m.open /\ b # None)
  <2>1. UNCHANGED <<active, up, log, fields, groups, sessions, picks>>
    BY <1>1, <1>6
  <2>2. Carried
    BY <1>4, <2>1 DEF Carried
  <2>3. FillAside
    BY <1>4, <2>1, <2>2 DEF FillAside, FillInv
  <2> QED BY <2>3, FillAsideKept
<1> QED BY <1>5, <1>6

(* A menu to be opened gets a number of its own.                           *)
LEMMA FillOrdered == ASSUME TypeInv, FillInv, Shortcut PROVE FillInv'
<1> DEFINE m == [is |-> "dismiss", open |-> TRUE, id |-> acts']
<1>1. /\ Act /\ down' = Append(down, m)
      /\ UNCHANGED <<active, up, log, fields, groups, sessions, picks>>
  BY DEF Shortcut, Tell, content, scanned, back
<1>2. acts \in Nat /\ acts' \in Nat /\ acts' > acts
  BY <1>1, Acted
<1>3. Moves(down, down', "dismiss") /\ m.is = "dismiss" /\ m.id = acts'
  BY <1>1, Traffic DEF Moves
<1> HIDE DEF m
<1>4. Carried
  <2>1. \A x \in Range(down') : x \in Range(down) \/ x.is = "dismiss"
    BY <1>3, ScreenQueues, MovedRange
  <2> QED BY <1>1, <2>1 DEF Carried
<1>5. \A d : (UsedAt(d))' \subseteq UsedAt(d)
  BY <1>4, UsedKept
<1>6. down \in Seq(ToldBy(acts) \cup {m}) /\ m \in ToldBy(acts) \cup {m}
  BY ScreenQueues, SeqMonotonic
<1>7. \A d : Opens(d)' = Opens(d)
  BY DEF Opens
<1>8. Unused'
  <2> SUFFICES ASSUME NEW d \in Acts
               PROVE  /\ Once(down', Opens(d))
                      /\ Free(down', Opens(d)) \/ ((UsedAt(d))' = {} /\ log'.turn # d)
    BY <1>7 DEF Unused
  <2>1. /\ Once(down, Opens(d))
        /\ Free(down, Opens(d)) \/ (UsedAt(d) = {} /\ log.turn # d)
    BY DEF FillInv, Unused
  <2>2. CASE d = acts'
    <3>1. UsedAt(d) = {} /\ Free(down, Opens(d)) /\ log.turn # d
      BY <1>2, <2>2, NotYetUsed
    <3>2. Once(down', Opens(d))
      BY <1>1, <1>6, <2>1, <3>1, AppendOnce
    <3> QED BY <1>1, <1>5, <3>1, <3>2
  <2>3. CASE d # acts'
    <3>1. m \notin Opens(d)
      BY <1>3, <2>3 DEF Opens
    <3>2. Once(down', Opens(d)) /\ (Free(down, Opens(d)) => Free(down', Opens(d)))
      BY <1>1, <1>6, <2>1, <3>1, AppendOnce
    <3> QED BY <1>1, <1>5, <2>1, <3>2
  <2> QED BY <2>2, <2>3
<1>9. TurnInv'
  <2> SUFFICES ASSUME log.turn # 0, ~log.moved PROVE \E f \in Forms : For(f)'
    BY <1>1 DEF TurnInv
  <2>1. PICK f \in Forms : For(f)
    BY DEF FillInv, TurnInv
  <2>2. (UsedAt(log.turn))' \subseteq {f}
    BY <1>1, <1>5, <2>1 DEF For
  <2> QED BY <1>1, <2>1, <2>2 DEF For
<1>10. groups' = Groups(fields') /\ FilledWhereAsked'
  BY <1>1 DEF FillInv, FilledWhereAsked
<1> QED BY <1>8, <1>9, <1>10 DEF FillInv

(* What is put in a box while nothing came between.                        *)
LEMMA FillStored == ASSUME TypeInv, FillInv, TakeStored PROVE FillInv'
<1> DEFINE m == Head(down)
           p == At(PassOf(Login))
           clean == ~log.moved /\ log.turn = m.id
           new == IF p = None THEN {} ELSE {[box |-> p, at |-> m.at, clean |-> clean]}
<1>1. /\ Arrives("fill") /\ down # <<>> /\ down' = Tail(down)
      /\ log' = [log EXCEPT !.put = @ \cup new]
      /\ UNCHANGED <<active, up, fields, groups, sessions, picks>>
  BY DEF TakeStored, Arrives, scanned, back
<1>2. m.is = "fill" /\ m.id \in Acts /\ log \in Log
  BY <1>1, ArrivedIn, ToldParts DEF TypeInv, Plain
<1>3. m \in Range(down) /\ Range(down') \subseteq Range(down)
  BY <1>1, ScreenQueues, ReadRange
<1>4. \A w \in new : w.clean => Form[w.box] = w.at /\ Kind[w.box] = "pass"
  <2> SUFFICES ASSUME p # None, clean PROVE Form[p] = m.at /\ Kind[p] = "pass"
    <3> HIDE DEF p, clean, m
    <3> QED OBVIOUS
  <2>1. PICK f \in Forms : For(f)
    BY <1>2 DEF FillInv, TurnInv, Acts
  <2>2. m.at = f
    <3>1. m.at \in UsedAt(m.id)
      BY <1>2, <1>3 DEF UsedAt
    <3> QED BY <2>1, <3>1 DEF For
  <2>3. active # None /\ p = At(active.pass)
    BY <2>1 DEF For, Login, PassOf
  <2>4. active.pass \in DOMAIN fields /\ p = fields[active.pass]
    BY <2>3 DEF At
  <2>5. fields # <<>> /\ fields \in Seq(Boxes)
    BY <2>4 DEF TypeInv, Plain
  <2>6. active = GroupOf(fields, f)
    BY <2>1, <2>5 DEF For
  <2>7. Form[fields[active.pass]] = f /\ Kind[fields[active.pass]] = "pass"
    BY <2>4, <2>5, <2>6, GroupIn
  <2> QED BY <2>2, <2>4, <2>7
<1> HIDE DEF new
<1>5. log'.put = log.put \cup new /\ log'.turn = log.turn /\ log'.moved = log.moved
  BY <1>1, <1>2 DEF Log
<1>6. FilledWhereAsked'
  BY <1>4, <1>5 DEF FillInv, FilledWhereAsked
<1>7. Carried
  BY <1>1, <1>3 DEF Carried
<1>8. OpensKept
  <2>1. Moves(down, down', "fill")
    BY <1>1, Traffic
  <2> QED BY <2>1, OpensBy
<1>9. \A d : (UsedAt(d))' \subseteq UsedAt(d)
  BY <1>7, UsedKept
<1>10. Unused'
  <2> SUFFICES ASSUME NEW d \in Acts
               PROVE  /\ Once(down', Opens(d))
                      /\ Free(down', Opens(d)) \/ ((UsedAt(d))' = {} /\ log'.turn # d)
    BY DEF Unused, Opens
  <2>1. /\ Once(down, Opens(d))
        /\ Free(down, Opens(d)) \/ (UsedAt(d) = {} /\ log.turn # d)
    BY DEF FillInv, Unused
  <2> QED BY <1>5, <1>8, <1>9, <2>1 DEF OpensKept
<1>11. TurnInv'
  <2> SUFFICES ASSUME log.turn # 0, ~log.moved PROVE \E f \in Forms : For(f)'
    BY <1>5 DEF TurnInv
  <2>1. PICK f \in Forms : For(f)
    BY DEF FillInv, TurnInv
  <2>2. (UsedAt(log.turn))' \subseteq {f}
    BY <1>5, <1>9, <2>1 DEF For
  <2> QED BY <1>1, <2>1, <2>2 DEF For
<1> QED BY <1>1, <1>6, <1>10, <1>11 DEF FillInv

LEMMA FillKept == ASSUME TypeInv, FillInv, [Next]_vars PROVE FillInv'
<1>1. CASE UNCHANGED vars
  <2>1. Carried /\ OpensKept
    BY <1>1 DEF vars, Carried, OpensKept
  <2>2. FillAside
    BY <1>1, <2>1 DEF vars, FillAside, FillInv
  <2> QED BY <2>2, FillAsideKept
<1> QED BY <1>1, FillAsides, FillAsideKept, FillLeft, FillClicked, FillOpened, FillOrdered,
           FillStored DEF Next

LEMMA FillStarts == ASSUME Init PROVE FillInv
<1>1. groups = Groups(fields)
  BY DEF Init, Groups
<1>2. Unused
  BY EmptyQueue DEF Init, Unused
<1>3. TurnInv /\ FilledWhereAsked
  BY DEF Init, TurnInv, FilledWhereAsked
<1> QED BY <1>1, <1>2, <1>3 DEF FillInv

(* However long a menu, a choice and its fill are on the way, a stored     *)
(* password goes into the box for the present password of the form its     *)
(* menu was asked for at, unless something came between (fill(): "The form *)
(* the menu was opened from").                                             *)
THEOREM StoredWhereAsked == Spec => []FilledWhereAsked
<1>1. Spec => []FillInv
  BY FillStarts, FillKept, TypesHold, PTL DEF Spec
<1>2. FillInv => FilledWhereAsked
  BY DEF FillInv
<1> QED BY <1>1, <1>2, PTL
=============================================================================
