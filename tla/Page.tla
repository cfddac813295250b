-------------------------------- MODULE Page --------------------------------
(***************************************************************************)
(* The background page of one machine at work: menus, fills, generated     *)
(* passwords, offers to save and the manager's editor, all on one vault    *)
(* (ext/background.js, ext/content.js, core/vault.js, core/match.js,       *)
(* core/provisional.js, ui/manager.js).                                    *)
(*                                                                         *)
(* A handler runs from one await to the next in one step, and between two  *)
(* of its steps any other may run, the vault may be locked, a tab may be   *)
(* closed and the browser may die.  What a handler took with it across its *)
(* await is a record in `tasks': a write that waits for its seal, a sync   *)
(* that waits for what it pulled to be opened, an unlock, or a write to    *)
(* storage; those land in the order they are made.  Pages are not state: a *)
(* form may be met or sent on any site at any time.  But a handler that    *)
(* will put a password into a form remembers a tab and a frame, never a    *)
(* document: what those hold when the password comes is k.there.           *)
(*                                                                         *)
(* A site is a registrable domain: hosts below it, ports and plain http    *)
(* are left out, and so are strings that cannot be a user name or a        *)
(* password.  A new password is a new number.                              *)
(***************************************************************************)
EXTENDS Naturals, FiniteSets, Sequences, SequencesExt, Functions

CONSTANTS
  Sites, Tabs, Users, None,
  Start,       \* the records the vault may start with, a set of bodies
  MaxIds,      \* bound: records
  MaxPws,      \* bound: passwords
  MaxTasks,    \* bound: handlers that wait at once
  MaxJobs      \* bound: handlers, menus and forms

ASSUME BoundsAssumption == {MaxIds, MaxPws, MaxTasks, MaxJobs} \subseteq Nat \ {0}

VARIABLES
  locked,   \* whether the vault has no key
  env,      \* the vault's envelopes: a revision, and what is sealed in it
  plain,    \* the vault's decrypted records
  disk,     \* the envelopes in storage.local
  tasks,    \* the handlers that wait
  menu,     \* per tab: the session of the menu on screen
  offer,    \* per tab: pendingCaptures
  never,    \* settings.neverSites
  form,     \* the manager's editor
  minted, drawn, jobs,   \* records, passwords and handlers so far
  log       \* ghost: see Log

vault == <<locked, env, plain>>
page  == <<menu, offer, never, form>>
count == <<minted, drawn, jobs>>
vars  == <<locked, env, plain, disk, tasks, menu, offer, never, form,
           minted, drawn, jobs, log>>

Ids == 1 .. MaxIds
Pws == 1 .. MaxPws
Names == Users \cup {None}      \* None: an empty user name
Bodies == [username : Names, password : Pws, history : SUBSET Pws,
           urls : SUBSET Sites, provisional : BOOLEAN]
(* body is None in a tombstone.                                            *)
Envelopes == [rev : Nat, body : Bodies \cup {None}]
EnvMaps == [Ids -> Envelopes \cup {None}]
Menus == [page : Sites, frame : Sites, ids : SUBSET Ids]
Offers == [site : Sites, username : Names, password : Pws,
           existing : Ids \cup {None}, urls : SUBSET Sites]
Forms == [id : Ids, body : Bodies]
Handlers == {"generate", "fill", "send", "touch", "save", "complete", "rotate", "edit",
             "delete", "sync", "open"}

ASSUME NoneAssumption ==
  /\ None \notin Nat /\ None \notin Sites /\ None \notin Tabs
  /\ None \notin Bodies /\ None \notin Envelopes /\ None \notin Menus
  /\ None \notin Offers /\ None \notin Forms
ASSUME StartAssumption == Start \subseteq Bodies

IsTask(k) ==
  /\ k.does \in Handlers /\ k.at \in {"page", "seal", "store"}
  /\ k.tab \in Tabs \cup {None} /\ {k.site, k.there} \subseteq Sites \cup {None}
  /\ k.val \in Pws \cup {None} /\ k.other \in Ids \cup {None}
  /\ \A m \in {k.seen, k.new} :
       /\ DOMAIN m \subseteq Ids
       /\ \A i \in DOMAIN m : m[i] = None \/ m[i] \in Envelopes

(* home: the sites a password was typed, generated or filed for;  given:   *)
(* those it came to by being written to an entry that was not of its site  *)
(* alone when it was written to;  owed: passwords somebody was told are    *)
(* kept, or that were generated for a form;                                *)
(* gone: those somebody deleted, and those dropped by a write made from an *)
(* older version of the record, or from what a sync left to be seen of it; *)
(* over: records that had a write of the first kind, and torn: had it from *)
(* a sync;  under: the vault was locked over a handler that waits;  late:  *)
(* it was opened over one;  twice: sites two handlers generated for at     *)
(* once, or a half-made entry was moved to in the editor.                  *)
Log == [home : [Pws -> SUBSET Sites], given : [Pws -> SUBSET Sites],
        owed : SUBSET Pws, gone : SUBSET Pws, over : SUBSET Ids, torn : SUBSET Ids,
        under : BOOLEAN, late : BOOLEAN, twice : SUBSET Sites]

-----------------------------------------------------------------------------
(* Records.                                                                *)
LiveOf(e) == IF e = None THEN None ELSE e.body
AllLive(m) == [i \in DOMAIN m |-> LiveOf(m[i])]
RevOf(e) == IF e = None THEN 0 ELSE e.rev
ValuesOf(b) == IF b = None THEN {} ELSE {b.password} \cup b.history
Values(m)   == UNION {ValuesOf(LiveOf(m[i])) : i \in DOMAIN m}
Known       == {i \in Ids : plain[i] # None}

NoHistory(b, p) == [b EXCEPT !.password = p]    \* mutant: the old one is dropped
(* applyPatch(): a password that changes goes into the history.            *)
Patched(b, p) ==
  [b EXCEPT !.password = p,
            !.history  = IF p = b.password THEN @ ELSE @ \cup {b.password}]

(* matchesFor(), and what find() may return of it: the order among equals  *)
(* is by use and title, which are not modelled.                            *)
MatchesFor(s) == {i \in Known : s \in plain[i].urls}
OneOf(S) == IF S = {} THEN {None} ELSE S

(* canFill(): the frame that gets the password is of the record's site and *)
(* of the page's.                                                          *)
CanFill(b, at) == at.frame \in b.urls /\ at.frame = at.page

AnyTarget(i, s) == TRUE                         \* mutant: any match is overwritten
(* belongsOnlyTo().                                                        *)
BelongsOnlyTo(i, s) == plain[i].urls \subseteq {s}
(* captureTarget(): the entry for this user name, the one that may be      *)
(* changed in place, and the half-made one.                                *)
Candidates(s, u) == {i \in MatchesFor(s) : plain[i].username = u}
Overwritable(c, s) == IF c # None /\ BelongsOnlyTo(c, s) THEN c ELSE None
Provisional(s) == {i \in MatchesFor(s) : plain[i].provisional}

Login(u, p, urls, prov) ==
  [username |-> u, password |-> p, history |-> {}, urls |-> urls,
   provisional |-> prov]

-----------------------------------------------------------------------------
(* Waiting.                                                                *)
Nothing == [does |-> "touch", at |-> "seal", tab |-> None, val |-> None,
            site |-> None, there |-> None, other |-> None, seen |-> <<>>, new |-> <<>>]
Busy == jobs < MaxJobs /\ jobs' = jobs + 1
Room(k) == Len(tasks) < MaxTasks /\ tasks' = Append(tasks, k)
Started(k) == Room(k) /\ Busy
Sealing(k) == k.at = "seal" /\ k.does # "open"

(* #write(): the revision is one above the envelope there is now.          *)
Writing(k, i, body) ==
  [k EXCEPT !.seen = [j \in {i} |-> env[j]],
            !.new  = [j \in {i} |-> [rev |-> RevOf(env[j]) + 1, body |-> body]]]
(* add(): under a fresh id.                                                *)
Adding(k, body) == Writing(k, minted + 1, body)
SameId == minted < MaxIds /\ minted' = minted    \* mutant: an id is handed out again
(* crypto.randomUUID().                                                    *)
Mint == minted < MaxIds /\ minted' = minted + 1
Begin(k, i, body) == Started(Writing(k, i, body)) /\ UNCHANGED minted
BeginNew(k, body) == Mint /\ Started(Adding(k, body))
Task(does, p) == [Nothing EXCEPT !.does = does, !.val = p]

Learns(p, S) == [log EXCEPT !.home[p] = @ \cup S]
Spreads(l, p, S) == [l EXCEPT !.given[p] = @ \cup S]
NewPw == drawn + 1
PwsSoFar == {p \in Pws : p <= NewPw}    \* one seen before, or a new one
Draws(p) == p \in PwsSoFar /\ drawn' = IF p = NewPw THEN p ELSE drawn
UrlsOf(i) == IF i = None THEN {} ELSE plain[i].urls

-----------------------------------------------------------------------------
(* Pages, menus and fills.                                                 *)

(* The handlers that wait to fill a form of the tab, once its document is  *)
(* another, or none.  Nobody looks at it again: not they, and not fill().  *)
Awaited(t) == {n \in DOMAIN tasks : tasks[n].tab = t /\ tasks[n].there # None}
Led(t, s) == [n \in DOMAIN tasks |->
                IF n \in Awaited(t) THEN [tasks[n] EXCEPT !.there = s] ELSE tasks[n]]

(* tabs.onRemoved; what was to be filled there is lost.                    *)
CloseTab(t) ==
  /\ <<menu[t], offer[t]>> # <<None, None>> \/ Awaited(t) # {}
  /\ menu'  = [menu EXCEPT ![t] = None]
  /\ offer' = [offer EXCEPT ![t] = None]
  /\ tasks' = Led(t, None)
  /\ UNCHANGED <<vault, disk, never, form, count, log>>
(* The tab goes to another site while handlers wait; a page that is left   *)
(* takes its menu with it, not its offer.                                  *)
Leave(t, s) ==
  /\ \E n \in Awaited(t) : tasks[n].there # s
  /\ tasks' = Led(t, s)
  /\ menu' = [menu EXCEPT ![t] = None]
  /\ UNCHANGED <<vault, disk, offer, never, form, count, log>>

(* handleCandidates(), for a login form.                                   *)
OpenMenu(t, p, f) ==
  LET at  == [page |-> p, frame |-> f]
      ids == {i \in MatchesFor(f) : CanFill(plain[i], at)}
  IN  /\ ~locked /\ ids # {}
      /\ menu' = [menu EXCEPT ![t] = [page |-> p, frame |-> f, ids |-> ids]]
      /\ Busy
      /\ UNCHANGED <<vault, disk, tasks, offer, never, form, minted, drawn, log>>
(* handleClose(), reapSessions().                                          *)
CloseMenu(t) ==
  /\ menu[t] # None
  /\ menu' = [menu EXCEPT ![t] = None]
  /\ UNCHANGED <<vault, disk, tasks, offer, never, form, count, log>>

(* A handler that will fill a form, asked on site s and checked against it. *)
Filling(does, p, t, s) == [Task(does, p) EXCEPT !.tab = t, !.site = s, !.there = s]

(* handleChoose(): looked at again, touched and saved, then filled.        *)
Choose(t, i) ==
  LET m == menu[t]
      k == Filling("fill", plain[i].password, t, m.frame)
  IN  /\ ~locked /\ m # None /\ i \in m.ids
      /\ plain[i] # None /\ CanFill(plain[i], m)
      /\ Room(Writing(k, i, plain[i]))
      /\ UNCHANGED <<vault, disk, page, count, log>>

(* chooseForActiveTab(): sent to the page itself.                          *)
ChooseActive(t, s, i) ==
  LET b == plain[i] IN
  /\ ~locked /\ b # None /\ CanFill(b, [page |-> s, frame |-> s])
  /\ Started([Filling("send", b.password, t, s) EXCEPT !.at = "page", !.other = i])
  /\ UNCHANGED <<vault, disk, page, minted, drawn, log>>
(* The page answers, and the entry is touched if it can be; or nobody hears. *)
Answered(n) ==
  LET k == tasks[n]
      b == plain[k.other]
  IN  /\ k.at = "page"
      /\ tasks' = IF k.there = None \/ locked \/ b = None THEN RemoveAt(tasks, n)
                  ELSE [tasks EXCEPT ![n] = Writing(Task("touch", None), k.other, b)]
      /\ UNCHANGED <<vault, disk, page, count, log>>

-----------------------------------------------------------------------------
(* Generated passwords.                                                    *)

AlwaysAnother(s) == {}     \* mutant: every generated password is a new entry
(* The entry keepGenerated() reuses.                                       *)
OpenEntry(s) == Provisional(s)
(* handleGenerate(), the context menu, keepGenerated(): the password is    *)
(* stored before the form gets it.  A half-made entry that the editor gave *)
(* other sites is one for the password as well.                            *)
Generate(t, s) ==
  LET k == Filling("generate", NewPw, t, s)
      again == \E n \in DOMAIN tasks : /\ tasks[n].does = "generate" /\ Sealing(tasks[n])
                                       /\ tasks[n].site = s
  IN  /\ ~locked /\ Draws(NewPw)
      /\ \E i \in OneOf(OpenEntry(s)) :
           /\ \/ i # None /\ Begin(k, i, Patched(plain[i], NewPw))
              \/ i = None /\ BeginNew(k, Login(None, NewPw, {s}, TRUE))
           /\ log' = [Spreads(Learns(NewPw, {s}), NewPw, UrlsOf(i) \ {s})
                        EXCEPT !.twice = @ \cup (IF again THEN {s} ELSE {})]
      /\ UNCHANGED <<vault, disk, page>>

-----------------------------------------------------------------------------
(* Submitted forms: handleCapture().                                       *)

AlreadyKnown(c, s, u, p) ==
  \/ c # None /\ plain[c].password = p
  \/ c = None /\ u = None /\ \E i \in MatchesFor(s) : plain[i].password = p

(* The password is our own: it goes to the entry there was for the site,   *)
(* and then the scratch entry goes, or the scratch entry is completed.     *)
Finish(t, o, v, u, p) ==
  LET b == plain[v] IN
  IF o \notin {None, v}
  THEN Begin([Task("rotate", p) EXCEPT !.tab = t, !.other = v], o, Patched(plain[o], p))
  ELSE Begin([Task("complete", p) EXCEPT !.tab = t], v,
             [b EXCEPT !.username = IF u = None THEN @ ELSE u, !.provisional = FALSE])

(* Typed by hand: declined, nothing new, or offered.                       *)
Offer(t, s, c, o, v, u, p) ==
  LET e == IF o # None THEN o ELSE v
  IN  offer' = IF s \in never THEN offer ELSE
        [offer EXCEPT ![t] =
           IF AlreadyKnown(c, s, u, p) THEN None
           ELSE [site |-> s, username |-> u, password |-> p,
                 existing |-> e, urls |-> UrlsOf(e)]]

Submit(t, s, u, p) ==
  /\ ~locked /\ Draws(p)
  /\ \E c \in OneOf(Candidates(s, u)), v \in OneOf(Provisional(s)) :
       LET o == Overwritable(c, s)
           done == v # None /\ plain[v].password = p
       IN  /\ log' = Spreads(Learns(p, {s}), p,
                             IF done \/ o # None THEN {} ELSE UrlsOf(v) \ {s})
           /\ \/ done  /\ Finish(t, o, v, u, p) /\ UNCHANGED offer
              \/ ~done /\ Offer(t, s, c, o, v, u, p) /\ Busy /\ UNCHANGED <<tasks, minted>>
  /\ UNCHANGED <<vault, disk, menu, never, form>>

-----------------------------------------------------------------------------
(* Offers to save.                                                         *)

(* handleSave(): the entry is looked up again, its sites are not.          *)
Save(t) ==
  LET q == offer[t]
      b == plain[q.existing]
      k == [Task("save", q.password) EXCEPT !.tab = t]
      there == q.existing # None /\ b # None
      user  == IF b.provisional /\ q.username # None THEN q.username ELSE b.username
  IN  /\ ~locked /\ q # None
      /\ \/ /\ there
            /\ Begin(k, q.existing, [Patched(b, q.password) EXCEPT
                       !.username = user, !.provisional = FALSE])
            /\ log' = Spreads(log, q.password, b.urls \ q.urls)
         \/ /\ ~there /\ UNCHANGED log
            /\ BeginNew(k, Login(q.username, q.password, {q.site}, FALSE))
      /\ UNCHANGED <<vault, disk, page, drawn>>
(* handleDiscard(), takePending().                                         *)
Discard(t) ==
  /\ offer[t] # None
  /\ offer' = [offer EXCEPT ![t] = None]
  /\ UNCHANGED <<vault, disk, tasks, menu, never, form, count, log>>
(* handleNever(), with its save of the settings.                           *)
Never(t) ==
  /\ offer[t] # None
  /\ never' = never \cup {offer[t].site}
  /\ offer' = [offer EXCEPT ![t] = None]
  /\ UNCHANGED <<vault, disk, tasks, menu, form, count, log>>

-----------------------------------------------------------------------------
(* The manager: the editor, deletion, import.                              *)

(* openEditor(); lockUi() keeps the draft.                                 *)
OpenForm(i) ==
  /\ ~locked /\ plain[i] # None /\ form = None
  /\ form' = [id |-> i, body |-> plain[i]] /\ Busy
  /\ UNCHANGED <<vault, disk, tasks, menu, offer, never, minted, drawn, log>>
CancelForm ==
  /\ form # None /\ form' = None
  /\ UNCHANGED <<vault, disk, tasks, menu, offer, never, count, log>>
(* Every field is written as the form has it.                              *)
SaveForm(p, urls) ==
  LET b == plain[form.id] IN
  /\ ~locked /\ form # None /\ b # None
  /\ p \in {form.body.password, NewPw} /\ Draws(p)
  /\ Begin(Task("edit", p), form.id,
           [Patched(b, p) EXCEPT !.username = form.body.username, !.urls = urls])
  /\ log' = [log EXCEPT
       !.home  = [q \in Pws |-> IF q \in ValuesOf(b) \cup {p} THEN @[q] \cup urls ELSE @[q]],
       !.twice = @ \cup IF b.provisional /\ urls # b.urls THEN urls ELSE {}]
  /\ form' = None
  /\ UNCHANGED <<vault, disk, menu, offer, never>>
(* The editor's form for a new entry.                                      *)
AddEntry(u, urls) ==
  /\ ~locked /\ Draws(NewPw)
  /\ BeginNew(Task("edit", NewPw), Login(u, NewPw, urls, FALSE))
  /\ log' = Learns(NewPw, urls)
  /\ UNCHANGED <<vault, disk, page>>
(* delete-btn.                                                             *)
Delete(i) ==
  /\ ~locked /\ plain[i] # None
  /\ Begin(Task("delete", None), i, None)
  /\ UNCHANGED <<vault, disk, page, drawn, log>>
(* importRecords(), one row: a name, a password and a site.                *)
Import(u, p, s, newer) ==
  /\ ~locked /\ Draws(p)
  /\ \E c \in OneOf(Candidates(s, u)) :
       /\ c # None => plain[c].password # p
       /\ \/ /\ Overwritable(c, s) # None /\ newer
             /\ Begin(Task("edit", p), c, Patched(plain[c], p))
          \/ /\ Overwritable(c, s) = None
             /\ BeginNew(Task("edit", p), Login(u, p, {s}, FALSE))
  /\ log' = Learns(p, {s})
  /\ UNCHANGED <<vault, disk, page>>

-----------------------------------------------------------------------------
(* Sync, unlock and lock.                                                  *)

Dropped(now, then) == Values(now) \ Values(then)

(* applyEnvelopes(): another machine changed or deleted a record that is   *)
(* here as it was at the start.  A locked vault takes it as it is.         *)
SyncPull(i, dies) ==
  LET b    == env[i].body
      next == [env EXCEPT ![i] =
                 [rev |-> 2, body |-> IF dies THEN None ELSE Patched(b, NewPw)]]
      k    == [Task("sync", None) EXCEPT !.seen = env, !.new = next]
      idle == \A n \in DOMAIN tasks : tasks[n].does # "sync"
  IN  /\ env[i] # None /\ env[i].rev = 1 /\ b \in Start /\ idle
      /\ IF dies THEN UNCHANGED drawn ELSE Draws(NewPw)
      /\ LET met == IF dies THEN log ELSE Learns(NewPw, b.urls)
         IN  \/ /\ ~locked /\ Started(k) /\ log' = met /\ UNCHANGED env
             \/ /\ locked /\ Started([k EXCEPT !.at = "store"]) /\ env' = next
                /\ log' = [met EXCEPT !.gone = @ \cup Dropped(env, next)]
      /\ UNCHANGED <<locked, plain, disk, page, minted>>

Stale(k) == {i \in DOMAIN k.seen : env[i] # k.seen[i]}
(* unlockWithVaultKey(): the list it opens may be replaced meanwhile, and  *)
(* each record is opened as it was before or after.                        *)
StartUnlock ==
  /\ locked /\ \A n \in DOMAIN tasks : tasks[n].does # "open"
  /\ Started([Task("open", None) EXCEPT !.seen = env])
  /\ UNCHANGED <<vault, disk, page, minted, drawn, log>>
FinishUnlock(n) ==
  LET k == tasks[n] IN
  /\ k.does = "open"
  /\ locked' = FALSE /\ tasks' = RemoveAt(tasks, n)
  /\ \E S \in SUBSET Stale(k) :
       plain' = [i \in Ids |-> LiveOf(IF i \in S THEN k.seen[i] ELSE env[i])]
  /\ log' = [log EXCEPT !.late = @ \/ env # k.seen]
  /\ UNCHANGED <<env, disk, page, count>>

Kept(t) == offer[t]     \* mutant: offers outlive the lock
Cleared(t) == None
(* lock().                                                                 *)
Lock ==
  /\ ~locked /\ locked' = TRUE
  /\ plain' = [i \in Ids |-> None]
  /\ menu'  = [t \in Tabs |-> None]
  /\ offer' = [t \in Tabs |-> Cleared(t)]
  /\ log'   = [log EXCEPT !.under = \E n \in DOMAIN tasks : Sealing(tasks[n])]
  /\ UNCHANGED <<env, disk, tasks, never, form, count>>

-----------------------------------------------------------------------------
(* What was waited for: a seal.                                            *)

ToStore(n, k, m) ==
  tasks' = Append(RemoveAt(tasks, n), [k EXCEPT !.at = "store", !.seen = <<>>, !.new = m])
OnlyTheMap(k, i) == plain[i]      \* mutant: what is shown is left as it was
(* Both maps are set together.                                             *)
Shown(k, i) == IF i \in DOMAIN k.new THEN LiveOf(k.new[i]) ELSE plain[i]
Written(k)  == [i \in Ids |-> IF i \in DOMAIN k.new THEN k.new[i] ELSE env[i]]

Overlapped(k) == Stale(k) # {} \/ DOMAIN k.new \cap log.torn # {}
(* #write() and remove() after their seal; the handler then saves.         *)
LandWrite(n) ==
  LET k == tasks[n] IN
  /\ Sealing(k) /\ k.does \notin {"sync", "rotate"}
  /\ env' = Written(k)
  /\ plain' = [i \in Ids |-> Shown(k, i)]
  /\ ToStore(n, k, env')
  /\ log' = [log EXCEPT
       !.over = @ \cup Stale(k),
       !.gone = @ \cup IF Overlapped(k) \/ \A i \in DOMAIN k.new : k.new[i].body = None
                       THEN Dropped(env, env') ELSE {}]
  /\ UNCHANGED <<locked, disk, page, count>>
(* handleCapture() goes on to remove the scratch entry, or finds the vault *)
(* locked and fails.                                                       *)
LandRotation(n) ==
  LET k == tasks[n]
      next == Writing([Task("complete", k.val) EXCEPT !.tab = k.tab], k.other, None)
  IN  /\ Sealing(k) /\ k.does = "rotate"
      /\ env' = Written(k)
      /\ plain' = [i \in Ids |-> Shown(k, i)]
      /\ tasks' = IF locked THEN RemoveAt(tasks, n) ELSE [tasks EXCEPT ![n] = next]
      /\ log' = [log EXCEPT !.over = @ \cup Stale(k),
                            !.gone = @ \cup IF Overlapped(k) THEN Dropped(env, env') ELSE {}]
      /\ UNCHANGED <<locked, disk, page, count>>

(* applyEnvelopes() goes through the list as it was pulled.  A record that *)
(* was written meanwhile and is looked at after keeps its envelope, and    *)
(* loses what is shown of it; one looked at before, or new, loses both.    *)
LandSync(n) ==
  LET k == tasks[n]
      met == {i \in Stale(k) : /\ k.new[i] # None /\ k.new[i].body # None
                                /\ env[i].rev > k.new[i].rev}
  IN  /\ Sealing(k) /\ k.does = "sync"
      /\ \E S \in SUBSET met :
           /\ env'   = [i \in Ids |-> IF i \in S THEN env[i] ELSE k.new[i]]
           /\ plain' = [i \in Ids |-> LiveOf(IF i \in S THEN k.seen[i] ELSE k.new[i])]
      /\ ToStore(n, k, env')
      /\ log' = [log EXCEPT !.over = @ \cup Stale(k), !.torn = @ \cup Stale(k),
                            !.gone = @ \cup Dropped(env, env')]
      /\ UNCHANGED <<locked, disk, page, count>>
(* The key went away under it.                                             *)
FailSync(n) ==
  /\ Sealing(tasks[n]) /\ tasks[n].does = "sync" /\ locked
  /\ tasks' = RemoveAt(tasks, n)
  /\ UNCHANGED <<vault, disk, page, count, log>>

-----------------------------------------------------------------------------
(* What was waited for: storage.                                           *)

FirstStore(n) == n \in DOMAIN tasks /\ tasks[n].at = "store"
                 /\ \A m \in 1 .. n - 1 : tasks[m].at # "store"
(* The rest of handleChoose(): the message, for whichever document is in   *)
(* the frame, and then the session goes; or nobody hears.                  *)
Arrives(k) ==
  /\ menu' = IF k.there = None THEN menu ELSE [menu EXCEPT ![k.tab] = None]
  /\ UNCHANGED <<offer, log>>

Stored(n) ==
  LET k == tasks[n] IN
  /\ FirstStore(n)
  /\ disk' = k.new /\ tasks' = RemoveAt(tasks, n)
  /\ \/ k.does = "fill" /\ Arrives(k)
     \/ /\ k.does \in {"save", "complete"}
        /\ offer' = [offer EXCEPT ![k.tab] = None]
        /\ log' = [log EXCEPT !.owed = @ \cup {k.val}]
        /\ UNCHANGED menu
     \/ /\ k.does \in {"generate", "edit"}
        /\ log' = [log EXCEPT !.owed = @ \cup {k.val}]
        /\ UNCHANGED <<menu, offer>>
     \/ k.does \in {"touch", "delete", "sync"} /\ UNCHANGED <<menu, offer, log>>
  /\ UNCHANGED <<vault, never, form, count>>
(* storage.local.set() fails: the handler throws; a fill does not mind.    *)
StoreFails(n) ==
  LET k == tasks[n] IN
  /\ FirstStore(n)
  /\ tasks' = RemoveAt(tasks, n)
  /\ IF k.does = "fill" THEN Arrives(k) ELSE UNCHANGED <<menu, offer, log>>
  /\ UNCHANGED <<vault, disk, never, form, count>>

(* The browser dies; boot() loads what was stored.                         *)
Crash ==
  /\ tasks' = <<>> /\ env' = disk /\ locked' = TRUE
  /\ plain' = [i \in Ids |-> None]
  /\ menu'  = [t \in Tabs |-> None]
  /\ offer' = [t \in Tabs |-> None]
  /\ form'  = None
  /\ log'   = [log EXCEPT !.under = FALSE]
  /\ UNCHANGED <<disk, never, count>>

-----------------------------------------------------------------------------
Init ==
  /\ locked = FALSE
  /\ \E b \in Start \cup {None} :
       /\ env = [i \in Ids |-> IF i = 1 /\ b # None THEN [rev |-> 1, body |-> b] ELSE None]
       /\ minted = IF b = None THEN 0 ELSE 1
       /\ drawn  = IF b = None THEN 0 ELSE b.password
  /\ plain = AllLive(env) /\ disk = env
  /\ tasks = <<>> /\ jobs = 0
  /\ menu = [t \in Tabs |-> None] /\ offer = [t \in Tabs |-> None]
  /\ never = {} /\ form = None
  /\ log = [home |-> [p \in Pws |-> IF p = drawn THEN env[1].body.urls ELSE {}],
            given |-> [p \in Pws |-> {}], owed |-> Values(env), gone |-> {},
            over |-> {}, torn |-> {}, under |-> FALSE, late |-> FALSE, twice |-> {}]

(* What takes one of the bounded number of jobs.                           *)
Work ==
  \/ \E t \in Tabs :
       \/ \E p, f \in Sites : OpenMenu(t, p, f)
       \/ \E s \in Sites, u \in Names, p \in Pws : Submit(t, s, u, p)
       \/ \E s \in Sites : Generate(t, s) \/ \E i \in Ids : ChooseActive(t, s, i)
       \/ Save(t)
  \/ \E i \in Ids : OpenForm(i) \/ Delete(i)
  \/ \E p \in Pws, urls \in SUBSET Sites : SaveForm(p, urls)
  \/ \E u \in Names, s \in Sites : AddEntry(u, {s})
  \/ \E u \in Names, p \in Pws, s \in Sites, newer \in BOOLEAN : Import(u, p, s, newer)
  \/ \E i \in Ids, dies \in BOOLEAN : SyncPull(i, dies)
  \/ StartUnlock
Next ==
  \/ jobs < MaxJobs /\ Work
  \/ \E t \in Tabs :
       \/ CloseTab(t) \/ CloseMenu(t) \/ Discard(t) \/ Never(t)
       \/ \E s \in Sites : Leave(t, s)
       \/ \E i \in Ids : Choose(t, i)
  \/ CancelForm \/ Lock \/ Crash
  \/ \E n \in 1 .. MaxTasks :
       /\ n \in DOMAIN tasks
       /\ \/ Answered(n) \/ FinishUnlock(n) \/ LandWrite(n) \/ LandRotation(n) \/ LandSync(n)
          \/ FailSync(n) \/ Stored(n) \/ StoreFails(n)

Spec == Init /\ [][Next]_vars

-----------------------------------------------------------------------------
(* Properties.                                                             *)

(* Every variable keeps its kind: the vault's decrypted records are        *)
(* records, its envelopes envelopes, none stands at an id not handed out   *)
(* yet, and what waits is one of the handlers.                             *)
TypeOK ==
  /\ locked \in BOOLEAN /\ env \in EnvMaps /\ disk \in EnvMaps
  /\ plain \in [Ids -> Bodies \cup {None}]
  /\ Len(tasks) <= MaxTasks
  /\ \A n \in DOMAIN tasks : IsTask(tasks[n])
  /\ menu \in [Tabs -> Menus \cup {None}]
  /\ offer \in [Tabs -> Offers \cup {None}] /\ never \in SUBSET Sites
  /\ form = None \/ form \in Forms
  /\ \A i \in Ids : env[i] # None => i <= minted
  /\ minted \in 0 .. MaxIds /\ drawn \in 0 .. MaxPws /\ jobs \in 0 .. MaxJobs
  /\ log \in Log

(* No password is lost: one generated for a form, or that somebody was     *)
(* told is saved, completed, edited or imported, is in the stored vault,   *)
(* as a password or in a history, unless somebody deleted it, or a write   *)
(* that overlapped another, or followed a sync that did, dropped it        *)
(* (provisional.js: "generating IS saving"; vault.js, applyPatch()).       *)
KeptOnDisk == log.late \/ log.owed \ log.gone \subseteq Values(disk)

(* The step puts the password of task n into a form of site k.there.       *)
Fills(n) == /\ tasks[n].there # None
            /\ \/ Answered(n) \/ Stored(n)
               \/ tasks[n].does = "fill" /\ StoreFails(n)
(* Where a password may be filled by the entries it is in.                 *)
Filed(p) == log.home[p] \cup log.given[p]

(* A password is put into a form only on a site it was typed, generated,   *)
(* imported or filed for, whichever entries it has been through since,     *)
(* unless the document it was asked for was left before it came, or it was *)
(* written to an entry whose sites were widened behind it (match.js,       *)
(* canFill() and belongsOnlyTo(); handleCapture()).                        *)
StaysHome ==
  [][\A n \in DOMAIN tasks : LET k == tasks[n] IN
       Fills(n) /\ k.there = k.site => k.there \in Filed(k.val)]_vars

(* What canFill()'s comment says, "the credential must match the frame     *)
(* that will receive it": a password picked from a menu is put into no     *)
(* form of a site it is not for.                                           *)
ReceiverMatches ==
  [][\A n \in DOMAIN tasks : LET k == tasks[n] IN
       Fills(n) /\ k.does = "fill" => k.there \in Filed(k.val)]_vars

(* A locked vault shows nothing, offers nothing and holds no captured      *)
(* password, unless a write was under way when it was locked (lock()).     *)
LockedIsBlank ==
  locked /\ ~log.under =>
    /\ \A i \in Ids : plain[i] = None
    /\ \A t \in Tabs : menu[t] = None /\ offer[t] = None

(* What is shown of an open vault is what its envelopes hold, unless a     *)
(* sync overtook a write of that record or the list was replaced while it  *)
(* was being opened (vault.js: "both maps change together").               *)
MapsAgree ==
  ~locked /\ ~log.late => \A i \in Ids \ log.torn : plain[i] = LiveOf(env[i])

(* However often a password is generated for a site, one half-made entry   *)
(* stands for it, unless two handlers generated for it at once, somebody   *)
(* moved another there or a write that overlapped another put one back     *)
(* (keepGenerated()).                                                      *)
OneProvisional ==
  log.late \/ log.over # {} \/
  \A s \in Sites \ log.twice :
    Cardinality({i \in Ids : /\ LiveOf(env[i]) # None
                             /\ env[i].body.provisional /\ env[i].body.urls = {s}}) <= 1
=============================================================================
