---------------------------------- MODULE Tab ----------------------------------
(***************************************************************************)
(* One tab: the content script of the document in it, the menu and the     *)
(* toast drawn into that document, and what the background page keeps for  *)
(* them (ext/content.js, ext/overlay.js, ext/toast.js, ext/background.js). *)
(*                                                                         *)
(* The two sides talk through `up' and `down', each in order.  The content *)
(* script waits for a reply to DESCRIBE and to CANDIDATES, the background  *)
(* page for storage before it fills or saves and for the list of tabs      *)
(* before it tells them of a lock; anything may happen between.            *)
(*                                                                         *)
(* What the vault holds is one entry, for the sites in Home.  A box is an  *)
(* element: it keeps its role, its form and what is in it wherever the     *)
(* page moves it, and its index is its place among the boxes of the page.  *)
(* Address menus, frames within the page and the page of a browser that    *)
(* goes back are left out.                                                 *)
(***************************************************************************)
EXTENDS Naturals, Sequences, FiniteSets, SequencesExt

CONSTANTS
  Boxes, Forms, Sites, None,
  Kind,      \* what each box asks for
  Form,      \* and the form it is in
  Layouts,   \* the boxes a page may have, in document order
  Home,      \* the sites the entry is for
  MaxDocs,   \* bound: documents
  MaxActs    \* bound: what the person and the page do

ASSUME BoxAssumption ==
  /\ Kind \in [Boxes -> {"user", "pass", "new"}] /\ Form \in [Boxes -> Forms]
  /\ Layouts \subseteq Seq(Boxes) /\ Home \subseteq Sites
ASSUME BoundsAssumption == MaxDocs \in Nat \ {0} /\ MaxActs \in Nat
ASSUME NoneAssumption == None \notin Boxes /\ None \notin Nat

VARIABLES
  doc,      \* the document: a number, and its site
  page,     \* its boxes
  val,      \* what is in each box
  due,      \* rescanTimer is set
  fields, groups,   \* the boxes last described, and their forms' roles
  active,   \* activeGroup
  anchor,   \* anchorEl, menuKind
  bound,    \* per box: what a click on it opens
  frames,   \* the menus in the document
  shown,    \* menuSession
  painted,  \* locked, as the anchors show it
  toast,    \* the offer the toast shows
  last,     \* lastSubmitted
  filled,   \* whether lastFilled holds the entry
  locked,   \* whether the vault is
  opening,  \* an unlock has yet to be announced
  sessions, \* sessions
  picks,    \* entries chosen, or generated, and not sent yet
  offer,    \* the pendingCaptures of the tab
  saving,   \* offers being saved
  up, down, \* messages to the background page, and from it
  casts,    \* lock states waiting for the list of tabs
  acts,
  log       \* ghost: see Log

paper   == <<doc, page, val>>
scanned == <<fields, groups, bound>>
menu    == <<anchor, frames, shown>>
capture == <<last, filled>>
content == <<due, scanned, active, menu, painted, toast, capture>>
back    == <<locked, opening, sessions, picks, offer, saving, casts>>
vars    == <<doc, page, val, due, fields, groups, active, anchor, bound, frames, shown,
             painted, toast, last, filled, locked, opening, sessions, picks, offer,
             saving, up, down, casts, acts, log>>

Acts  == 1 .. MaxActs     \* also: sessions and offers, by the act behind them
Kinds == {"login", "signup"}
Roles == [from : Nat, user : Nat, pass : Nat, new : Nat]    \* indices; 0 is none
NoRoles == [from |-> 0, user |-> 0, pass |-> 0, new |-> 0]

Marks == {"typed", "stored", "made", None}
(* Messages, each way.                                                     *)
Said == [is : {"describe"}, doc : Nat, fields : Seq(Boxes)]
   \cup [is : {"candidates"}, doc : Nat, id : Acts, box : Boxes, kind : Kinds, site : Sites]
   \cup [is : {"capture"}, doc : Nat, id : Acts]
Told == [is : {"groups"}, fields : Seq(Boxes), locked : BOOLEAN]
   \cup [is : {"menu"}, id : Acts, kind : Kinds \cup {"locked"}, asked : Kinds, box : Boxes]
   \cup [is : {"fill"}, what : {"stored", "made"}, id : Acts, at : Forms]
   \cup [is : {"notice"}, id : 0 .. MaxActs]
   \cup [is : {"dismiss"}, open : BOOLEAN, id : Acts]
   \cup [is : {"lock"}, locked : BOOLEAN]
(* An entry that was asked for, from which form of which document.         *)
Asked == [id : Acts, kind : Kinds \cup {"locked"}, doc : Nat, at : Forms]

(* put: the boxes a stored password was put in, for which form, and        *)
(* whether nothing had come between;  turn: the last menu asked for in     *)
(* this document, and moved: its box was not among those described, or     *)
(* they were described otherwise since;  twice: two menus were asked for   *)
(* at once.                                                                *)
Log == [put : SUBSET [box : Boxes, at : Forms, clean : BOOLEAN],
        turn : 0 .. MaxActs, moved : BOOLEAN, twice : BOOLEAN]

Again == acts < MaxActs /\ acts' = acts     \* mutant: ids are handed out again
(* newSessionId(): an act numbers what comes of it.                        *)
Act == acts < MaxActs /\ acts' = acts + 1
Say(m)  == up' = Append(up, m)
Tell(m) == down' = Append(down, m)

-----------------------------------------------------------------------------
(* Roles.                                                                  *)

(* classifyGroups(), describeIndices().                                    *)
IndexOf(found, S) ==
  LET at == {n \in DOMAIN found : found[n] \in S}
  IN  IF at = {} THEN 0 ELSE CHOOSE n \in at : \A m \in at : n <= m
GroupOf(found, f) ==
  LET in(k) == {b \in Boxes : Form[b] = f /\ Kind[b] = k}
  IN  [from |-> IndexOf(found, {b \in Boxes : Form[b] = f}), user |-> IndexOf(found, in("user")),
       pass |-> IndexOf(found, in("pass")), new |-> IndexOf(found, in("new"))]
Groups(found) == {GroupOf(found, Form[found[n]]) : n \in DOMAIN found}

At(i) == IF i \in DOMAIN fields THEN fields[i] ELSE None
Either(a, b) == IF a # None THEN a ELSE b
FirstGroup == IF groups = {} THEN NoRoles
              ELSE CHOOSE g \in groups : \A h \in groups : g.from <= h.from
(* activeGroup?.login ?? groups[0]?.login ?? {}                            *)
Login == IF active # None THEN active ELSE FirstGroup
(* groupFor().                                                             *)
GroupFor(b) ==
  LET gs == {g \in groups : \E i \in {g.user, g.pass, g.new} : At(i) = b}
  IN  IF gs = {} THEN None ELSE CHOOSE g \in gs : TRUE

(* placeAnchors(): which boxes get an anchor, and which menu it opens.     *)
Anchored(fs, gs) ==
  LET the(i) == IF i \in DOMAIN fs THEN {fs[i]} ELSE {}
      pair   == UNION {the(g.user) \cup the(g.pass) :
                         g \in {h \in gs : h.pass # 0 \/ (h.user # 0 /\ h.new = 0)}}
      fresh  == UNION {the(g.new) : g \in gs}
  IN  [b \in pair \cup fresh |-> IF b \in fresh THEN "signup" ELSE "login"]
(* attachAnchor(): a box is bound once, to the first menu it had.          *)
Bind(fs, gs) ==
  [b \in Boxes |-> IF bound[b] = None /\ b \in DOMAIN Anchored(fs, gs)
                   THEN Anchored(fs, gs)[b] ELSE bound[b]]

-----------------------------------------------------------------------------
(* The page: it draws its boxes, and is left for another.                  *)

(* The MutationObserver sets the timer.                                    *)
Redraw(l) ==
  /\ Act /\ l # page /\ page' = l /\ due' = TRUE
  /\ UNCHANGED <<doc, val, scanned, active, menu, painted, toast, capture, back, up, down, log>>

(* remember(): after every input, of the form the menu was last on.        *)
Remember(l, v) ==
  LET u == At(Login.user)
      p == Either(At(Login.pass), At(Login.new))
  IN  [user |-> IF u # None /\ v[u] # None THEN v[u] ELSE l.user,
       pass |-> IF p # None /\ v[p] # None THEN v[p] ELSE l.pass]
NothingYet == [user |-> None, pass |-> None]
(* What was filled and is sent as it was is no news.                       *)
Untouched(l) == filled /\ l.pass = "stored" /\ l.user \in {None, "stored"}
OfferCapture(l) ==
  IF l.pass = None \/ Untouched(l) THEN UNCHANGED up
  ELSE Say([is |-> "capture", doc |-> doc.no, id |-> acts + 1])

Type(b) ==
  /\ Act /\ b \in Range(page)
  /\ val' = [val EXCEPT ![b] = "typed"]
  /\ last' = Remember(last, val')
  /\ UNCHANGED <<doc, page, due, scanned, active, menu, painted, toast, filled, back, up, down, log>>
(* The submit event.                                                       *)
Submit ==
  /\ Act
  /\ OfferCapture(Remember(last, val))
  /\ last' = NothingYet
  /\ UNCHANGED <<paper, due, scanned, active, menu, painted, toast, filled, back, down, log>>
(* The address changes within the document.                                *)
Route ==
  /\ Act
  /\ OfferCapture(last)
  /\ last' = NothingYet /\ due' = TRUE
  /\ UNCHANGED <<paper, scanned, active, menu, painted, toast, filled, back, down, log>>

(* pagehide; what was on its way to the document is lost with it, and a    *)
(* content script starts in the next.                                      *)
Leave(s, l) ==
  /\ Act /\ doc.no < MaxDocs /\ doc' = [no |-> doc.no + 1, site |-> s]
  /\ OfferCapture(last) /\ down' = <<>>
  /\ log' = [put |-> log.put, turn |-> 0, moved |-> FALSE, twice |-> FALSE]
  /\ page' = l /\ val' = [b \in Boxes |-> None] /\ due' = TRUE
  /\ fields' = <<>> /\ groups' = {} /\ bound' = [b \in Boxes |-> None]
  /\ active' = None /\ anchor' = None /\ frames' = <<>> /\ shown' = 0
  /\ painted' = TRUE /\ toast' = 0 /\ last' = NothingYet /\ filled' = FALSE
  /\ UNCHANGED back

-----------------------------------------------------------------------------
(* The boxes are described.                                                *)

(* scan().                                                                 *)
Scan ==
  /\ due /\ due' = FALSE
  /\ IF page = <<>> THEN fields' = <<>> /\ groups' = {} /\ UNCHANGED up
     ELSE Say([is |-> "describe", doc |-> doc.no, fields |-> page]) /\ UNCHANGED <<fields, groups>>
  /\ UNCHANGED <<paper, bound, active, menu, painted, toast, capture, back, down, acts, log>>
(* handleDescribe().  An answer to a document that is gone goes nowhere.   *)
Reply(m, r) == IF m.doc = doc.no THEN Tell(r) ELSE UNCHANGED down
Hear(kind) == up # <<>> /\ Head(up).is = kind /\ up' = Tail(up)
Describe ==
  /\ Hear("describe")
  /\ Reply(Head(up), [is |-> "groups", fields |-> Head(up).fields, locked |-> locked])
  /\ UNCHANGED <<paper, content, back, acts, log>>
Arrives(kind) == down # <<>> /\ Head(down).is = kind /\ down' = Tail(down)
(* Both are kept together, and the anchors are drawn again.                *)
TakeGroups ==
  LET m == Head(down)
      gs == Groups(m.fields)
  IN  /\ Arrives("groups")
      /\ fields' = m.fields /\ groups' = gs /\ painted' = m.locked
      /\ bound' = Bind(m.fields, gs)
      /\ log' = [log EXCEPT !.moved = @ \/ m.fields # fields]
      /\ UNCHANGED <<paper, due, active, menu, toast, capture, back, up, acts>>

-----------------------------------------------------------------------------
(* The menu.                                                               *)

Stays(fs) == fs                         \* mutant: the menu is left on screen
(* closeMenu(): the first element that has the id goes.                    *)
Closed(fs) == IF fs = <<>> THEN fs ELSE Tail(fs)
CloseMenu == frames' = Closed(frames) /\ shown' = 0
(* A click elsewhere, Escape, Tab.                                         *)
Dismiss ==
  /\ shown # 0 /\ CloseMenu
  /\ UNCHANGED <<paper, due, scanned, active, anchor, painted, toast, capture, back, up, down, acts, log>>

Waits(m) == (m.is = "candidates" /\ m.doc = doc.no) \/ m.is = "menu"
(* openMenu(), as far as its request; m is what is still in the document.  *)
Request(b, k, id, fs) ==
  /\ active' = GroupFor(b)
  /\ frames' = Closed(fs) /\ shown' = 0
  /\ Say([is |-> "candidates", doc |-> doc.no, id |-> id, box |-> b, kind |-> k, site |-> doc.site])
  /\ log' = [put |-> log.put, turn |-> id, moved |-> GroupFor(b) = None,
       twice |-> log.twice \/ \E m \in Range(up) \cup Range(down) : Waits(m)]
(* A click on an anchor; on a box, if there is no menu.                    *)
ClickAnchor(b) ==
  /\ Act /\ b \in DOMAIN Anchored(fields, groups)
  /\ Request(b, Anchored(fields, groups)[b], acts', frames)
  /\ UNCHANGED <<paper, due, scanned, anchor, painted, toast, capture, back, down>>
ClickBox(b) ==
  /\ Act /\ b \in Range(page) /\ bound[b] # None /\ frames = <<>>
  /\ Request(b, bound[b], acts', frames)
  /\ UNCHANGED <<paper, due, scanned, anchor, painted, toast, capture, back, down>>
(* The keyboard command; the context menu of a locked vault.               *)
Shortcut ==
  /\ Act /\ Tell([is |-> "dismiss", open |-> TRUE, id |-> acts'])
  /\ UNCHANGED <<paper, content, back, up, log>>

(* handleCandidates(): a session, unless there is nothing to offer.        *)
Candidates ==
  LET m == Head(up)
      k == IF locked THEN "locked" ELSE m.kind
  IN  /\ Hear("candidates")
      /\ IF k = "login" /\ m.site \notin Home THEN UNCHANGED <<sessions, down>>
         ELSE /\ sessions' = sessions \cup
                   {[id |-> m.id, kind |-> k, doc |-> m.doc, at |-> Form[m.box]]}
              /\ Reply(m, [is |-> "menu", id |-> m.id, kind |-> k, asked |-> m.kind, box |-> m.box])
      /\ UNCHANGED <<paper, content, locked, opening, picks, offer, saving, casts, acts, log>>
(* openMenu() goes on.                                                     *)
DrawMenu ==
  LET m == Head(down) IN
  /\ Arrives("menu")
  /\ anchor' = [box |-> m.box, kind |-> m.asked]
  /\ frames' = Append(frames, [id |-> m.id, kind |-> m.kind]) /\ shown' = m.id
  /\ UNCHANGED <<paper, due, scanned, active, painted, toast, capture, back, up, acts, log>>
(* handleClose(), and the menu opened again at the last box, or the first. *)
TakeDismiss ==
  LET m == Head(down)
      g == FirstGroup
      first == Either(At(g.pass), Either(At(g.user), At(g.new)))
      b == IF anchor # None THEN anchor.box ELSE first
  IN  /\ Arrives("dismiss")
      /\ IF m.open /\ b # None
         THEN Request(b, IF anchor # None THEN anchor.kind ELSE "login", m.id, Closed(frames))
         ELSE CloseMenu /\ UNCHANGED <<active, up, log>>
      /\ UNCHANGED <<paper, due, scanned, anchor, painted, toast, capture, back, acts>>
CloseFrame(s) ==
  /\ s \in sessions /\ \E n \in DOMAIN frames : frames[n].id = s.id
  /\ sessions' = sessions \ {s} /\ Tell([is |-> "dismiss", open |-> FALSE, id |-> s.id])
  /\ UNCHANGED <<paper, content, locked, opening, picks, offer, saving, casts, up, acts, log>>
(* reapSessions().                                                         *)
Expire(s) ==
  /\ s \in sessions /\ sessions' = sessions \ {s}
  /\ UNCHANGED <<paper, content, locked, opening, picks, offer, saving, casts, up, down, acts, log>>

-----------------------------------------------------------------------------
(* Filling.                                                                *)

(* handleChoose(), handleGenerate(): the session is looked up, then the    *)
(* vault is written to.                                                    *)
Pick(s, what) ==
  /\ ~locked /\ s \in sessions /\ \E n \in DOMAIN frames : frames[n].id = s.id
  /\ what = "stored" => s.kind = "login"
  /\ s.kind # "locked" /\ Act
  /\ picks' = picks \cup {[what |-> what, id |-> s.id, at |-> s.at]}
  /\ UNCHANGED <<paper, content, locked, opening, sessions, offer, saving, casts, up, down, log>>
(* tabs.sendMessage(): to whatever document the tab has now.               *)
SendFill(p) ==
  /\ p \in picks /\ picks' = picks \ {p}
  /\ Tell([is |-> "fill", what |-> p.what, id |-> p.id, at |-> p.at])
  /\ sessions' = IF p.what = "stored" THEN {s \in sessions : s.id # p.id} ELSE sessions
  /\ UNCHANGED <<paper, content, locked, opening, offer, saving, casts, up, acts, log>>

(* setValue(), and the input event that a box on the page makes of it.     *)
Put(b, what, v) == IF b = None THEN v ELSE [v EXCEPT ![b] = what]
Noticed(b, l, v) == IF b \in Range(page) THEN Remember(l, v) ELSE l
Second(g) == g.new                      \* mutant: the password goes to the new box
PassOf(g) == g.pass
(* fill().                                                                 *)
TakeStored ==
  LET m == Head(down)
      u == At(Login.user)
      p == At(PassOf(Login))
      v1 == Put(u, "stored", val)
      v2 == Put(p, "stored", v1)
      clean == ~log.moved /\ log.turn = m.id
  IN  /\ Arrives("fill") /\ m.what = "stored"
      /\ val' = v2 /\ filled' = TRUE
      /\ last' = IF p = None /\ u # None THEN [Noticed(u, last, v1) EXCEPT !.user = "stored"]
                 ELSE Noticed(p, Noticed(u, last, v1), v2)
      /\ log' = [log EXCEPT !.put = @ \cup IF p = None THEN {}
                                          ELSE {[box |-> p, at |-> m.at, clean |-> clean]}]
      /\ CloseMenu
      /\ UNCHANGED <<doc, page, due, scanned, active, anchor, painted, toast, back, up, acts>>
TakeMade ==
  LET b == Either(At(Login.new), At(Login.pass))
      v == Put(b, "made", val)
  IN  /\ Arrives("fill") /\ Head(down).what = "made"
      /\ val' = v /\ last' = Noticed(b, last, v)
      /\ CloseMenu
      /\ UNCHANGED <<doc, page, due, scanned, active, anchor, painted, toast, filled, back, up, acts, log>>

-----------------------------------------------------------------------------
(* Offers to save.                                                         *)

Notice(id) == Tell([is |-> "notice", id |-> id])
(* handleCapture(): nothing, or what was offered is known, or an offer, to *)
(* the document the tab has now, or an entry that is completed.            *)
Capture ==
  /\ Hear("capture")
  /\ \/ UNCHANGED <<offer, saving, down>>
     \/ ~locked /\ \E id \in {0, Head(up).id} : offer' = id /\ Notice(id) /\ UNCHANGED saving
     \/ ~locked /\ saving' = saving \cup {Head(up).id} /\ UNCHANGED <<offer, down>>
  /\ UNCHANGED <<paper, content, locked, opening, sessions, picks, casts, acts, log>>
(* announceCapture(), clearCaptureNotice().                                *)
TakeNotice ==
  /\ Arrives("notice") /\ toast' = Head(down).id
  /\ UNCHANGED <<paper, due, scanned, active, menu, painted, capture, back, up, acts, log>>
(* The toast asks to be closed: Escape, after its answer, or when it finds *)
(* nothing to offer.                                                       *)
CloseToast ==
  /\ toast # 0 /\ toast' = 0
  /\ UNCHANGED <<paper, due, scanned, active, menu, painted, capture, back, up, down, acts, log>>
(* handleSave(), handleNever(), from the toast, the popup or the manager.  *)
Save ==
  /\ offer # 0 /\ Act
  /\ saving' = saving \cup {offer}
  /\ UNCHANGED <<paper, content, locked, opening, sessions, picks, offer, casts, up, down, log>>
EndSave(id) ==
  /\ id \in saving /\ saving' = saving \ {id}
  /\ \/ offer' = 0 /\ Notice(0)
     \/ UNCHANGED <<offer, down>>
  /\ UNCHANGED <<paper, content, locked, opening, sessions, picks, casts, up, acts, log>>
(* handleDiscard(), takePending().                                         *)
Discard ==
  /\ offer # 0 /\ offer' = 0 /\ Notice(0)
  /\ UNCHANGED <<paper, content, locked, opening, sessions, picks, saving, casts, up, acts, log>>

-----------------------------------------------------------------------------
(* The lock.                                                               *)

(* lock(); what is to be told is read before the tabs are.                 *)
Lock ==
  /\ ~locked /\ Act /\ locked' = TRUE
  /\ sessions' = {} /\ offer' = 0 /\ casts' = Append(casts, TRUE)
  /\ UNCHANGED <<paper, content, opening, picks, saving, up, down, log>>
Opened == FALSE        \* mutant: what is told is what was meant
Shut == locked
(* handleUnlock() and its kin: the vault is written before it is said.     *)
Unlock ==
  /\ locked /\ ~opening /\ Act /\ locked' = FALSE /\ opening' = TRUE
  /\ UNCHANGED <<paper, content, sessions, picks, offer, saving, casts, up, down, log>>
Announce ==
  /\ opening /\ opening' = FALSE /\ casts' = Append(casts, Shut)
  /\ UNCHANGED <<paper, content, locked, sessions, picks, offer, saving, up, down, acts, log>>
(* broadcastLockState() has its list of tabs.                              *)
Broadcast ==
  /\ casts # <<>> /\ casts' = Tail(casts)
  /\ Tell([is |-> "lock", locked |-> Head(casts)])
  /\ UNCHANGED <<paper, content, locked, opening, sessions, picks, offer, saving, up, acts, log>>
Hidden(t, m) == IF m.locked THEN 0 ELSE t
TakeLock ==
  LET m == Head(down) IN
  /\ Arrives("lock") /\ painted' = m.locked /\ CloseMenu
  /\ toast' = Hidden(toast, m)
  /\ bound' = Bind(fields, groups)
  /\ UNCHANGED <<paper, due, fields, groups, active, anchor, capture, back, up, acts, log>>

-----------------------------------------------------------------------------
Init ==
  /\ \E s \in Sites, l \in Layouts : doc = [no |-> 1, site |-> s] /\ page = l
  /\ val = [b \in Boxes |-> None] /\ due = TRUE
  /\ fields = <<>> /\ groups = {} /\ bound = [b \in Boxes |-> None]
  /\ active = None /\ anchor = None /\ frames = <<>> /\ shown = 0
  /\ painted = TRUE /\ toast = 0 /\ last = NothingYet /\ filled = FALSE
  /\ locked \in BOOLEAN /\ opening = FALSE /\ sessions = {} /\ picks = {}
  /\ offer = 0 /\ saving = {} /\ up = <<>> /\ down = <<>> /\ casts = <<>> /\ acts = 0
  /\ log = [put |-> {}, turn |-> 0, moved |-> FALSE, twice |-> FALSE]

Next ==
  \/ \E l \in Layouts : Redraw(l) \/ (\E s \in Sites : Leave(s, l))
  \/ \E b \in Boxes : Type(b) \/ ClickAnchor(b) \/ ClickBox(b)
  \/ Submit \/ Route \/ Dismiss \/ Shortcut \/ CloseToast \/ Save \/ Discard
  \/ \E s \in sessions : CloseFrame(s) \/ Expire(s) \/ \E w \in {"stored", "made"} : Pick(s, w)
  \/ \E p \in picks : SendFill(p)
  \/ \E id \in saving : EndSave(id)
  \/ Lock \/ Unlock \/ Announce \/ Broadcast
  \/ Scan \/ Describe \/ Candidates \/ Capture
  \/ TakeGroups \/ DrawMenu \/ TakeDismiss \/ TakeStored \/ TakeMade \/ TakeNotice \/ TakeLock

Spec == Init /\ [][Next]_vars

-----------------------------------------------------------------------------
(* Properties.                                                             *)

(* Every variable keeps its kind: what is described are boxes, what is     *)
(* waited for is one of the messages, and nothing is numbered above the    *)
(* acts there were (content.js, background.js).                            *)
TypeOK ==
  /\ doc \in [no : 1 .. MaxDocs, site : Sites] /\ page \in Seq(Boxes)
  /\ val \in [Boxes -> Marks] /\ due \in BOOLEAN
  /\ fields \in Seq(Boxes) /\ groups \subseteq Roles /\ active \in Roles \cup {None}
  /\ anchor \in [box : Boxes, kind : Kinds] \cup {None}
  /\ bound \in [Boxes -> Kinds \cup {None}]
  /\ frames \in Seq([id : 1 .. acts, kind : Kinds \cup {"locked"}])
  /\ shown \in 0 .. acts /\ painted \in BOOLEAN /\ toast \in 0 .. acts
  /\ last \in [user : Marks, pass : Marks] /\ filled \in BOOLEAN
  /\ locked \in BOOLEAN /\ opening \in BOOLEAN /\ sessions \subseteq Asked
  /\ picks \subseteq [what : {"stored", "made"}, id : 1 .. acts, at : Forms]
  /\ offer \in 0 .. acts /\ saving \subseteq 1 .. acts /\ casts \in Seq(BOOLEAN)
  /\ up \in Seq(Said) /\ down \in Seq(Told) /\ acts \in 0 .. MaxActs /\ log \in Log

Quiet == up = <<>> /\ down = <<>> /\ casts = <<>> /\ ~opening

(* A stored password goes into the box for the present password of the     *)
(* form the menu was asked for at, unless the document was left or its     *)
(* boxes described otherwise meanwhile, or another menu asked for          *)
(* (fill(): "The form the menu was opened from").                          *)
FilledWhereAsked ==
  \A p \in log.put : p.clean => Form[p.box] = p.at /\ Kind[p.box] = "pass"

(* One menu is on screen, and it is the one the keys go to, unless two     *)
(* were asked for before the first was drawn (openMenu(), onMenuKey()).    *)
OneMenu ==
  log.twice \/ (Len(frames) <= 1 /\ (shown # 0 => frames # <<>> /\ frames[1].id = shown))

(* Once nothing is on its way, the anchors show whether the vault is       *)
(* locked, and so does the menu, and a toast on screen offers what can     *)
(* still be saved (broadcastLockState(); content.js: "an offer to save is  *)
(* now a lie").                                                            *)
ScreenIsTrue ==
  Quiet =>
    /\ fields # <<>> => painted = locked
    /\ log.twice \/ \A n \in DOMAIN frames : (frames[n].kind = "locked") = locked
    /\ toast # 0 => toast = offer

(* What content.js says of a stored password: "Never newPassword.  A       *)
(* stored password belongs in a box asking for the current one".           *)
NeverInNew == \A p \in log.put : Kind[p.box] # "new"
=============================================================================
