-------------------------------- MODULE Enrol -------------------------------
(***************************************************************************)
(* Who may speak to the server: enrolment codes, devices, signed requests  *)
(* and their nonces (server/auth.go, replay.go, bootstrap.go, store.go     *)
(* 317-534, the handlers of main.go), the machines that hold the keys      *)
(* (core/sync.js, ext/background.js), and the rescue tool that edits the   *)
(* device list of a stopped server.                                        *)
(*                                                                         *)
(* Authenticating a request and handling it take the store's lock twice;   *)
(* each method under the lock is one step.  A signed request, once sent,   *)
(* may arrive any number of times and as late as the network likes: `reqs' *)
(* never forgets one.  A nonce belongs to one request, so it stands for    *)
(* the pair (device, nonce) the code keys its maps on.  Ids, codes and     *)
(* nonces are random in the code and drawn from the unused ones here.      *)
(* Time is counted in ticks; a request let through is handled within its   *)
(* tick.                                                                   *)
(***************************************************************************)
EXTENDS Naturals, FiniteSets

CONSTANTS
  Machines, Devices, Codes, Nonces,
  None,
  Skew,        \* maxSkew: how far behind the server a timestamp may be
  Future,      \* maxFuture: how far ahead
  CodeTTL,     \* how long a code, and the memory of who minted it, lasts
  ClockError,  \* how wrong the machines' clocks are
  MaxTime,     \* bound on the clock
  MaxTouch,    \* bound: bootstrap requests made in the data directory
  Faults       \* of "save", "snapshot", "restart", "rescue", "wipe", "remove"

ASSUME ClockAssumption ==
  /\ {Skew, Future, CodeTTL, ClockError, MaxTime, MaxTouch} \subseteq Nat
  /\ Skew + Future <= CodeTTL      \* thirty minutes against five and a half

VARIABLES
  mem,      \* the store: [devices, codes -> expiry, mints -> [code, expiry]]
  disk,     \* store.json
  up,       \* the server is running
  seen,     \* nonces it remembers: when each was used
  running,  \* requests authenticated, their handler not yet run
  sentinel, \* the file "bootstrap-code" exists
  now,
  code,     \* per code: "unused", "made" or, once printed or shown, "known"
  reqs,     \* per nonce: the signed request that carries it
  cred,     \* per machine: the device whose key it holds
  call,     \* per machine: the request it waits on
  log       \* ghost: see Log below

store    == <<mem, disk>>
process  == <<up, seen, running>>
machines == <<reqs, cred, call>>
vars == <<mem, disk, up, seen, running, sentinel, now, code, reqs, cred, call,
          log>>

Earlier  == "earlier"   \* the code of a device enrolled before the model starts
Kinds    == {"mint", "forget", "rename"}
Requests == [kind : Kinds, dev : Devices, ts : Nat, arg : Devices]
Calls    == [kind : {"enrol"}, arg : Codes, nonce : {None}]
              \cup [kind : Kinds, arg : Devices, nonce : Nonces]
Mints    == [code : Codes, expiry : Nat]
Stores   == [devices : SUBSET Devices, codes : [Codes -> Nat \cup {None}],
             mints : [Nonces -> Mints \cup {None}]]
ASSUME NoneAssumption ==
  /\ None \notin Nat \cup Devices \cup Codes \cup Nonces \cup {Earlier}
  /\ None \notin Requests \cup Calls \cup Mints
  /\ Earlier \notin Codes

(* bought: the code each device was made with;  granted: devices answered  *)
(* to the machine that asked;  asked: devices somebody asked to remove;    *)
(* gone: removals answered 200;  undone: removed from memory by a save     *)
(* that failed;  lost: devices whose key no machine has;  codesOf: the     *)
(* codes answered to each signed request;  ran: how often this process has *)
(* accepted it;  touched, printed: bootstrap requests, codes for them;     *)
(* rescued: the rescue tool has removed a device.                          *)
Log      == [bought : [Devices -> Codes \cup {None, Earlier}],
             granted : SUBSET Devices, asked : SUBSET Devices,
             gone : SUBSET Devices, undone : SUBSET Devices,
             lost : SUBSET Devices,
             codesOf : [Nonces -> SUBSET Codes], ran : [Nonces -> Nat],
             touched : Nat, printed : Nat, rescued : BOOLEAN]

Unused(d)  == log.bought[d] = None
FreshCodes == {c \in Codes : code[c] = "unused"}
FreshNonces == {n \in Nonces : reqs[n] = None}
Present(x) == {x} \ {None}

-----------------------------------------------------------------------------
(* The store under its lock.                                               *)

DropsTheError(d, ok) ==    \* mutant: a failed save is answered 200
  mem' = d /\ disk' \in {d, disk} /\ ok
(* A change made to memory is saved; the save may fail before the file is  *)
(* renamed into place, or after it, at the snapshot.                       *)
Save(d, ok) ==
  /\ mem' = d
  /\ \/ ok /\ disk' = d
     \/ ~ok /\ "save" \in Faults /\ UNCHANGED disk
     \/ ~ok /\ "snapshot" \in Faults /\ disk' = d

Live(expiry) == expiry # None /\ now <= expiry

(* mintLocked(): what has expired is swept, one code added and, if a       *)
(* request asked for it, the memory of which.                              *)
Minted(d, c, n) ==
  [devices |-> d.devices,
   codes |-> [x \in Codes |->
     IF x = c THEN now + CodeTTL ELSE IF Live(d.codes[x]) THEN d.codes[x] ELSE None],
   mints |-> [x \in Nonces |->
     IF x = n THEN [code |-> c, expiry |-> now + CodeTTL]
     ELSE IF d.mints[x] # None /\ Live(d.mints[x].expiry) THEN d.mints[x]
     ELSE None]]

KeepsCode(d, c, dev) ==    \* mutant: the code is not deleted
  [d EXCEPT !.devices = @ \cup {dev}]
Redeemed(d, c, dev) ==
  [d EXCEPT !.devices = @ \cup {dev}, !.codes[c] = None]

AsksTheCode(n) ==          \* mutant: remembered only while its code lives
  mem.mints[n] # None /\ mem.codes[mem.mints[n].code] # None
Remembered(n) == mem.mints[n] # None /\ Live(mem.mints[n].expiry)

(* authenticate(): the window, the device, then the nonce, last.           *)
InWindow(ts) == now <= ts + Skew /\ ts <= now + Future
ShortMemory(n) ==          \* mutant: the clock ahead is not counted
  seen[n] # None => seen[n] + Skew < now
FreshNonce(n) == seen[n] # None => seen[n] + Skew + Future < now

Accepts(n) ==
  /\ InWindow(reqs[n].ts)
  /\ reqs[n].dev \in mem.devices
  /\ FreshNonce(n)

-----------------------------------------------------------------------------
(* The server.                                                             *)

(* The machine that waits on request n hears the answer, or nobody does.   *)
(* A machine told that its own removal is done drops the key.              *)
Waiting(n) == {m \in Machines : call[m] # None /\ call[m].nonce = n}
Answer(n, done) ==
  \/ UNCHANGED machines
  \/ /\ Waiting(n) # {}
     /\ call' = [m \in Machines |-> IF m \in Waiting(n) THEN None ELSE call[m]]
     /\ cred' = [m \in Machines |->
          IF m \in Waiting(n) /\ done /\ reqs[n].arg = cred[m]
          THEN None ELSE cred[m]]
     /\ UNCHANGED reqs

Authenticate(n) ==
  /\ up /\ reqs[n] # None /\ n \notin running
  /\ Accepts(n)
  /\ seen'    = [seen EXCEPT ![n] = now]
  /\ running' = running \cup {n}
  /\ log'     = [log EXCEPT !.ran[n] = @ + 1]
  /\ UNCHANGED <<store, up, sentinel, now, code, machines>>

(* 401, whatever the reason.                                               *)
Refuse(n) ==
  /\ up /\ reqs[n] # None /\ ~Accepts(n)
  /\ Waiting(n) # {}
  /\ Answer(n, FALSE)
  /\ UNCHANGED <<store, process, sentinel, now, code, log>>

Handled(n) == up /\ n \in running /\ running' = running \ {n}

(* POST /v1/codes: the code this request already got, or a new one.        *)
SameCode(n) ==
  /\ Remembered(n)
  /\ log'  = [log EXCEPT !.codesOf[n] = @ \cup {mem.mints[n].code}]
  /\ code' = [code EXCEPT ![mem.mints[n].code] = "known"]
  /\ UNCHANGED store
NewCodeFor(n, c, ok) ==
  /\ ~Remembered(n)
  /\ Save(Minted(mem, c, n), ok)
  /\ code' = [code EXCEPT ![c] = IF ok THEN "known" ELSE "made"]
  /\ log'  = [log EXCEPT !.codesOf[n] = IF ok THEN @ \cup {c} ELSE @]
MintCode(n) ==
  /\ Handled(n) /\ reqs[n].kind = "mint"
  /\ SameCode(n) \/ \E c \in FreshCodes, ok \in BOOLEAN : NewCodeFor(n, c, ok)
  /\ Answer(n, FALSE)
  /\ UNCHANGED <<up, seen, sentinel, now>>

NoLastDevice(n) ==         \* mutant: the last device can be removed
  IF reqs[n].arg \notin mem.devices THEN "alreadyGone" ELSE "removed"
(* Forget(): what becomes of the request.                                  *)
ForgetOutcome(n) ==
  IF reqs[n].arg \notin mem.devices THEN "alreadyGone"
  ELSE IF Cardinality(mem.devices) = 1 THEN "last-device"
  ELSE "removed"

SavesFirst(d, ok) ==       \* mutant: the file is written before the change
  mem' = d /\ disk' = mem /\ ok
ForgetSave(d, ok) == Save(d, ok)
(* DELETE /v1/devices/{id}: 200 too for a device that is already gone, 409 *)
(* for the last one.                                                       *)
AlreadyGone(n, d) ==
  /\ ForgetOutcome(n) = "alreadyGone"
  /\ log' = [log EXCEPT !.gone = @ \cup {d}, !.asked = @ \cup {d}]
  /\ Answer(n, TRUE)
  /\ UNCHANGED store
LastDevice(n) ==
  /\ ForgetOutcome(n) = "last-device"
  /\ Answer(n, FALSE)
  /\ UNCHANGED <<store, log>>
Removed(n, d, ok) ==
  /\ ForgetOutcome(n) = "removed"
  /\ ForgetSave([mem EXCEPT !.devices = @ \ {d}], ok)
  /\ log' = [log EXCEPT !.asked  = @ \cup {d},
                        !.gone   = IF ok THEN @ \cup {d} ELSE @,
                        !.undone = IF ok THEN @ ELSE @ \cup {d}]
  /\ Answer(n, ok)
ForgetDevice(n) ==
  /\ Handled(n) /\ reqs[n].kind = "forget"
  /\ \/ AlreadyGone(n, reqs[n].arg)
     \/ LastDevice(n)
     \/ \E ok \in BOOLEAN : Removed(n, reqs[n].arg, ok)
  /\ UNCHANGED <<up, seen, sentinel, now, code>>

(* PATCH /v1/devices/{id}: the label is not modelled, the save is.         *)
RenameDevice(n) ==
  /\ Handled(n) /\ reqs[n].kind = "rename"
  /\ \/ /\ reqs[n].arg \notin mem.devices
        /\ UNCHANGED store
     \/ /\ reqs[n].arg \in mem.devices
        /\ \E ok \in BOOLEAN : Save(mem, ok)
  /\ Answer(n, FALSE)
  /\ UNCHANGED <<up, seen, sentinel, now, code, log>>

-----------------------------------------------------------------------------
(* Starting and stopping.                                                  *)
Stopped == up' = FALSE /\ running' = {} /\ seen' = [n \in Nonces |-> None]

NilMints == [disk EXCEPT !.mints = None]  \* mutant: a map the file lacked
(* OpenStore(): memory will be what the file holds.                        *)
Loaded == disk

Crash ==
  /\ "restart" \in Faults /\ up
  /\ Stopped
  /\ mem' = Loaded
  /\ log' = [log EXCEPT !.ran = [n \in Nonces |-> 0]]
  /\ UNCHANGED <<disk, sentinel, now, code, machines>>

(* NewCode() at startup: the code is printed if the save succeeds.         *)
PrintCode(ok) ==
  \E c \in FreshCodes :
    /\ Save(Minted(mem, c, None), ok)
    /\ code' = [code EXCEPT ![c] = IF ok THEN "known" ELSE "made"]

(* Nothing enrolled: a code is printed, or the process gives up, with or   *)
(* without the code in the file.                                           *)
BootEmpty ==
  /\ ~up /\ mem.devices = {}
  /\ PrintCode(TRUE)
  /\ up' = TRUE
  /\ UNCHANGED <<seen, running, sentinel, now, machines, log>>

BootFatal ==
  /\ ~up /\ mem.devices = {}
  /\ \E c \in FreshCodes :
       /\ "snapshot" \in Faults
       /\ disk' = Minted(mem, c, None) /\ mem' = disk'
       /\ code' = [code EXCEPT ![c] = "made"]
  /\ UNCHANGED <<process, sentinel, now, machines, log>>

BootPlain ==
  /\ ~up /\ mem.devices # {} /\ ~sentinel
  /\ up' = TRUE
  /\ UNCHANGED <<store, seen, running, sentinel, now, code, machines, log>>

Printed(ok) ==
  /\ PrintCode(ok)
  /\ log' = [log EXCEPT !.printed = IF ok THEN @ + 1 ELSE @]

MintsAnyway == Printed(TRUE) /\ UNCHANGED sentinel  \* mutant: minted first
(* The sentinel cannot be removed: no code.                                *)
NotConsumed ==
  "remove" \in Faults /\ UNCHANGED <<store, code, sentinel, log>>

(* bootstrapCode(): the request is consumed before the code is minted, and *)
(* a failure of either leaves the server running without a code.           *)
BootAsked ==
  /\ ~up /\ mem.devices # {} /\ sentinel
  /\ up' = TRUE
  /\ \/ NotConsumed
     \/ sentinel' = FALSE /\ \E ok \in BOOLEAN : Printed(ok)
  /\ UNCHANGED <<seen, running, now, machines>>

(* Somebody with access to the data directory asks for a code.             *)
Touch ==
  /\ ~sentinel /\ log.touched < MaxTouch
  /\ sentinel' = TRUE
  /\ log' = [log EXCEPT !.touched = @ + 1]
  /\ UNCHANGED <<store, process, now, code, machines>>

(* The rescue tool's Forget and Save, on a stopped server's file: any      *)
(* device, the last one too; the rest of the file is carried over.         *)
Rescue(d) ==
  /\ "rescue" \in Faults /\ ~up
  /\ d \in disk.devices
  /\ disk' = [disk EXCEPT !.devices = @ \ {d}]
  /\ mem'  = disk'
  /\ log'  = [log EXCEPT !.asked = @ \cup {d}, !.rescued = TRUE]
  /\ UNCHANGED <<process, sentinel, now, code, machines>>

Tick ==
  /\ now < MaxTime /\ running = {}
  /\ now' = now + 1
  /\ UNCHANGED <<store, process, sentinel, code, machines, log>>

-----------------------------------------------------------------------------
(* The machines.                                                           *)

(* A person types a code they were shown.                                  *)
StartEnrol(m, c) ==
  /\ call[m] = None /\ code[c] = "known"
  /\ call' = [call EXCEPT ![m] =
       [kind |-> "enrol", arg |-> c, nonce |-> None]]
  /\ UNCHANGED <<store, process, sentinel, now, code, reqs, cred, log>>

(* POST /v1/enrol reaches the server.  Every error of Redeem is a 403, a   *)
(* failed save included.  A machine that enrols again drops its old key.   *)
BadCode(m, c) ==
  /\ ~Live(mem.codes[c])
  /\ mem' = [mem EXCEPT !.codes[c] = None]
  /\ call' \in {call, [call EXCEPT ![m] = None]}
  /\ UNCHANGED <<disk, cred, log>>
Redeem(m, c, d, ok, heard) ==
  /\ Live(mem.codes[c]) /\ Unused(d)
  /\ Save(Redeemed(mem, c, d), ok)
  /\ call' = IF heard THEN [call EXCEPT ![m] = None] ELSE call
  /\ cred' = IF heard /\ ok THEN [cred EXCEPT ![m] = d] ELSE cred
  /\ log'  = [log EXCEPT
       !.bought[d] = c,
       !.granted = IF ok THEN @ \cup {d} ELSE @,
       !.lost    = IF heard /\ ok THEN @ \cup Present(cred[m]) ELSE @ \cup {d}]
Enrol(m) ==
  /\ up /\ call[m] # None /\ call[m].kind = "enrol"
  /\ \/ BadCode(m, call[m].arg)
     \/ \E d \in Devices, ok \in BOOLEAN, heard \in BOOLEAN :
          Redeem(m, call[m].arg, d, ok, heard)
  /\ UNCHANGED <<process, sentinel, now, code, reqs>>

(* A request is signed afresh for each address: its own nonce, the clock   *)
(* of the machine.                                                         *)
Sign(m, kind, arg) ==
  \E n \in FreshNonces,
     ts \in {t \in 0 .. now + ClockError : now <= t + ClockError} :
    /\ cred[m] # None
    /\ reqs' = [reqs EXCEPT ![n] =
         [kind |-> kind, dev |-> cred[m], ts |-> ts, arg |-> arg]]
    /\ call' = [call EXCEPT ![m] =
         [kind |-> kind, arg |-> arg, nonce |-> n]]

(* A device is removed or renamed by an id the list showed.                *)
StartCall(m, kind, arg) ==
  /\ call[m] = None /\ ~Unused(arg)
  /\ kind = "mint" => arg = cred[m]
  /\ Sign(m, kind, arg)
  /\ UNCHANGED <<store, process, sentinel, now, code, cred, log>>

(* An attempt throws: a signed request goes to the next address, or there  *)
(* is no route.  An enrolment posted again is Enrol once more.  How many   *)
(* addresses there are is left open.                                       *)
Thrown(m) ==
  /\ call[m] # None
  /\ \/ call' = [call EXCEPT ![m] = None] /\ UNCHANGED reqs
     \/ call[m].kind # "enrol" /\ Sign(m, call[m].kind, call[m].arg)
  /\ UNCHANGED <<store, process, sentinel, now, code, cred, log>>

(* The machine is reinstalled, its storage and its key with it.            *)
Wipe(m) ==
  /\ "wipe" \in Faults /\ cred[m] # None
  /\ cred' = [cred EXCEPT ![m] = None]
  /\ call' = [call EXCEPT ![m] = None]
  /\ log'  = [log EXCEPT !.lost = @ \cup {cred[m]}]
  /\ UNCHANGED <<store, process, sentinel, now, code, reqs>>

-----------------------------------------------------------------------------
(* Nothing is enrolled yet, or one machine has been for a long time.       *)
InitWith(holder) ==
  LET enrolled == {holder[m] : m \in Machines} \ {None}
  IN  /\ mem = [devices |-> enrolled, codes |-> [c \in Codes |-> None],
                mints |-> [n \in Nonces |-> None]]
      /\ cred = holder
      /\ log = [bought |-> [d \in Devices |->
                             IF d \in enrolled THEN Earlier ELSE None],
                granted |-> enrolled, asked |-> {}, gone |-> {},
                undone |-> {}, lost |-> {},
                codesOf |-> [n \in Nonces |-> {}],
                ran |-> [n \in Nonces |-> 0],
                touched |-> 0, printed |-> 0, rescued |-> FALSE]

Init ==
  /\ \/ InitWith([m \in Machines |-> None])
     \/ \E h \in Machines, d \in Devices :
          InitWith([m \in Machines |-> IF m = h THEN d ELSE None])
  /\ disk = mem
  /\ up = FALSE /\ running = {} /\ seen = [n \in Nonces |-> None]
  /\ sentinel = FALSE /\ now = 0
  /\ code = [c \in Codes |-> "unused"]
  /\ reqs = [n \in Nonces |-> None]
  /\ call = [m \in Machines |-> None]

Server ==
  \/ \E n \in Nonces : \/ Authenticate(n) \/ Refuse(n)
                       \/ MintCode(n) \/ ForgetDevice(n) \/ RenameDevice(n)
  \/ \E m \in Machines : Enrol(m)
  \/ Crash \/ BootEmpty \/ BootFatal \/ BootPlain \/ BootAsked

People ==
  \/ Touch \/ Tick
  \/ \E d \in Devices : Rescue(d)
  \/ \E m \in Machines :
       \/ \E c \in Codes : StartEnrol(m, c)
       \/ \E kind \in Kinds, d \in Devices : StartCall(m, kind, d)
       \/ Thrown(m) \/ Wipe(m)

Next == Server \/ People
Spec == Init /\ [][Next]_vars

-----------------------------------------------------------------------------
(* Every variable holds a value of its kind (the types of server/store.go  *)
(* and of the requests in core/sync.js).                                   *)
TypeOK ==
  /\ mem \in Stores /\ disk \in Stores
  /\ up \in BOOLEAN /\ running \subseteq {n \in Nonces : reqs[n] # None}
  /\ seen \in [Nonces -> Nat \cup {None}]
  /\ sentinel \in BOOLEAN /\ now \in Nat
  /\ code \in [Codes -> {"unused", "made", "known"}]
  /\ reqs \in [Nonces -> Requests \cup {None}]
  /\ cred \in [Machines -> Devices \cup {None}]
  /\ call \in [Machines -> Calls \cup {None}]
  /\ log \in Log

(* A code buys one device.  Two devices bought with one code are never     *)
(* both in memory, both in the file, or both answered to a machine, however *)
(* often it is typed or posted and whatever becomes of the save and of the *)
(* process (Redeem(), store.go 512-533).                                   *)
CodeBuysOne ==
  \A held \in {mem.devices, disk.devices, log.granted} :
    \A x, y \in held : log.bought[x] = log.bought[y] => x = y

(* A signed request is answered with one enrolment code at most, for good: *)
(* delivered again after a restart, after its code was redeemed or after a *)
(* save failed, it never yields another (NewCodeFor(), store.go 388-427).  *)
OneCodePerRequest ==
  \A n \in Nonces : \A x, y \in log.codesOf[n] : x = y

(* A process handles a signed request once, whatever clock its machine has *)
(* (authenticate() and use(): the memory of a nonce outlives the window).  *)
HonouredOnce == \A n \in Nonces : log.ran[n] <= 1

(* A device whose removal was answered 200, be it that it was already      *)
(* gone, is in neither memory nor the file and never comes back, unless an *)
(* earlier removal of it had failed to save (forgetDevice(), main.go       *)
(* 264-281): that one answers 500, its retry 200, and a restart undoes it. *)
RevokedStaysOut ==
  log.gone \ log.undone \subseteq Devices \ (mem.devices \cup disk.devices)

(* A device the server granted stays, in memory and in the file, until     *)
(* somebody asks for its removal (Redeem(), Forget(), mintLocked() and     *)
(* Rename() all save the whole store).                                     *)
EnrolledDurable ==
  log.granted \ log.asked \subseteq mem.devices \cap disk.devices

(* As long as no key was lost and no removal half failed, a machine that   *)
(* can sign remains: removals through the server never lock the vault out, *)
(* even two machines revoking each other (Forget()'s last device, the      *)
(* machine that clears its own key).                                       *)
StillReachable ==
  (up /\ log.granted # {} /\ ~log.rescued /\ log.lost \cup log.undone = {})
    => \E m \in Machines : cred[m] \in mem.devices

(* A request left in the data directory is worth one code, whatever fails  *)
(* between its removal and the printing (bootstrapCode()).                 *)
BootstrapOnce == log.printed <= log.touched
=============================================================================
