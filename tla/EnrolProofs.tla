----------------------------- MODULE EnrolProofs ----------------------------
(***************************************************************************)
(* Enrol.tla, for every set of machines, devices, codes and requests,      *)
(* every clock and every mixture of faults.                                *)
(***************************************************************************)
EXTENDS Enrol, FiniteSetTheorems, TLAPS

USE ClockAssumption, NoneAssumption

-----------------------------------------------------------------------------
(* Minting: what the store becomes.                                        *)
LEMMA MintedFields ==
  ASSUME NEW d \in Stores, NEW c \in Codes, NEW n, now \in Nat
  PROVE  /\ Minted(d, c, n) \in Stores
         /\ Minted(d, c, n).devices = d.devices
         /\ \A x \in Codes : Minted(d, c, n).codes[x] # None =>
              x = c \/ d.codes[x] # None
         /\ \A x \in Nonces : Minted(d, c, n).mints[x] =
              IF x = n THEN [code |-> c, expiry |-> now + CodeTTL]
              ELSE IF d.mints[x] # None /\ Live(d.mints[x].expiry)
                   THEN d.mints[x] ELSE None
<1>1. /\ d.devices \in SUBSET Devices
      /\ d.codes \in [Codes -> Nat \cup {None}]
      /\ d.mints \in [Nonces -> Mints \cup {None}]
  BY DEF Stores
<1>2. [code |-> c, expiry |-> now + CodeTTL] \in Mints
  BY DEF Mints
<1>3. Minted(d, c, n).codes \in [Codes -> Nat \cup {None}]
  BY <1>1 DEF Minted
<1>4. Minted(d, c, n).mints \in [Nonces -> Mints \cup {None}]
  BY <1>1, <1>2 DEF Minted
<1> QED BY <1>1, <1>3, <1>4 DEF Minted, Stores, Live

(* Redeeming: what the store becomes.                                      *)
LEMMA RedeemedFields ==
  ASSUME NEW d \in Stores, NEW c \in Codes, NEW dev \in Devices
  PROVE  /\ Redeemed(d, c, dev) \in Stores
         /\ Redeemed(d, c, dev).devices = d.devices \cup {dev}
         /\ Redeemed(d, c, dev).codes = [d.codes EXCEPT ![c] = None]
         /\ Redeemed(d, c, dev).mints = d.mints
BY DEF Redeemed, Stores

(* A saved store is one of the two the file may now hold.                  *)
LEMMA SaveCases ==
  ASSUME NEW d, NEW ok \in BOOLEAN, Save(d, ok)
  PROVE  mem' = d /\ disk' \in {d, disk} /\ (ok => disk' = d)
BY DEF Save

(* Signing: the request, and the machine that waits on it.                 *)
LEMMA SignType ==
  ASSUME TypeOK, NEW m \in Machines, NEW kind \in Kinds, NEW arg \in Devices,
         Sign(m, kind, arg)
  PROVE  /\ reqs' \in [Nonces -> Requests \cup {None}]
         /\ call' \in [Machines -> Calls \cup {None}]
<1>0. cred[m] # None
  BY DEF Sign
<1>1. PICK n \in FreshNonces, ts \in {t \in 0 .. now + ClockError : now <= t + ClockError} :
        /\ reqs' = [reqs EXCEPT ![n] =
             [kind |-> kind, dev |-> cred[m], ts |-> ts, arg |-> arg]]
        /\ call' = [call EXCEPT ![m] = [kind |-> kind, arg |-> arg, nonce |-> n]]
  BY DEF Sign
<1>2. n \in Nonces /\ ts \in Nat /\ cred[m] \in Devices
  BY <1>0 DEF TypeOK, FreshNonces
<1>3. [kind |-> kind, dev |-> cred[m], ts |-> ts, arg |-> arg] \in Requests
  BY <1>2 DEF Requests
<1>4. [kind |-> kind, arg |-> arg, nonce |-> n] \in Calls
  BY <1>2 DEF Calls
<1> QED BY <1>1, <1>2, <1>3, <1>4 DEF TypeOK

(* Signing adds a request and disturbs none.                               *)
LEMMA SignKeeps ==
  ASSUME TypeOK, NEW m, NEW kind, NEW arg, Sign(m, kind, arg)
  PROVE  \A n \in Nonces : reqs[n] # None => reqs'[n] = reqs[n]
BY DEF TypeOK, Sign, FreshNonces

(* Hearing an answer, or not.                                              *)
LEMMA AnswerType ==
  ASSUME TypeOK, NEW n, NEW done, Answer(n, done)
  PROVE  /\ reqs' = reqs
         /\ call' \in [Machines -> Calls \cup {None}]
         /\ cred' \in [Machines -> Devices \cup {None}]
         /\ \A m \in Machines : cred'[m] # cred[m] =>
              /\ cred'[m] = None /\ done /\ reqs[n].arg = cred[m]
BY DEF TypeOK, Answer, machines

(* A machine told anything but that its removal is done keeps its key.     *)
LEMMA RefusalKeepsKey ==
  ASSUME TypeOK, NEW n, Answer(n, FALSE)
  PROVE  cred' = cred
<1>1. cred' = cred \/ cred' = [m \in Machines |->
         IF m \in Waiting(n) /\ FALSE /\ reqs[n].arg = cred[m] THEN None ELSE cred[m]]
  BY DEF Answer, machines
<1> QED BY <1>1 DEF TypeOK

(* What a request carries.                                                 *)
LEMMA RequestFields ==
  ASSUME TypeOK, NEW n \in Nonces, reqs[n] # None
  PROVE  /\ reqs[n].kind \in Kinds /\ reqs[n].ts \in Nat
         /\ reqs[n].dev \in Devices /\ reqs[n].arg \in Devices
BY DEF TypeOK, Requests

(* What a call carries, a code or a device.                                *)
LEMMA CallFields ==
  ASSUME TypeOK, NEW m \in Machines, call[m] # None
  PROVE  /\ call[m].kind = "enrol" => call[m].arg \in Codes
         /\ call[m].kind # "enrol" => /\ call[m].kind \in Kinds
                                     /\ call[m].arg \in Devices
                                     /\ call[m].nonce \in Nonces
BY DEF TypeOK, Calls, Kinds

(* The first state has the types.                                         *)
LEMMA InitType == Init => TypeOK
<1> SUFFICES ASSUME Init PROVE TypeOK
  OBVIOUS
<1>1. PICK holder \in [Machines -> Devices \cup {None}] : InitWith(holder)
  BY DEF Init
<1>2. {holder[m] : m \in Machines} \ {None} \subseteq Devices
  BY <1>1
<1>3. mem \in Stores
  BY <1>1, <1>2 DEF InitWith, Stores
<1>4. log \in Log
  BY <1>1, <1>2 DEF InitWith, Log
<1>5. cred \in [Machines -> Devices \cup {None}]
  BY <1>1 DEF InitWith
<1> QED BY <1>3, <1>4, <1>5 DEF Init, TypeOK

(* Minting keeps the types.                                                *)
LEMMA MintType ==
  ASSUME TypeOK, NEW n \in Nonces, MintCode(n)
  PROVE  TypeOK'
<1>1. /\ reqs' = reqs /\ call' \in [Machines -> Calls \cup {None}]
      /\ cred' \in [Machines -> Devices \cup {None}]
      /\ UNCHANGED <<up, seen, sentinel, now>>
      /\ running' \subseteq {x \in Nonces : reqs[x] # None}
  BY AnswerType DEF MintCode, Handled, TypeOK
<1>2. mem \in Stores /\ disk \in Stores /\ log \in Log /\ now \in Nat
      /\ code \in [Codes -> {"unused", "made", "known"}]
  BY DEF TypeOK
<1>3. CASE SameCode(n)
  <2>1. mem.mints[n].code \in Codes
    BY <1>2, <1>3 DEF SameCode, Remembered, Stores, Mints
  <2>2. log' \in Log /\ code' \in [Codes -> {"unused", "made", "known"}]
    BY <1>2, <1>3, <2>1 DEF SameCode, Log
  <2> QED BY <1>1, <1>2, <1>3, <2>2 DEF TypeOK, SameCode, store
<1>4. ASSUME NEW c \in FreshCodes, NEW ok \in BOOLEAN, NewCodeFor(n, c, ok)
      PROVE  TypeOK'
  <2>1. c \in Codes /\ Minted(mem, c, n) \in Stores
    BY <1>2, MintedFields DEF FreshCodes
  <2>2. mem' \in Stores /\ disk' \in Stores
    BY <1>2, <1>4, <2>1, SaveCases DEF NewCodeFor
  <2>3. log' \in Log /\ code' \in [Codes -> {"unused", "made", "known"}]
    BY <1>2, <1>4, <2>1 DEF NewCodeFor, Log
  <2> QED BY <1>1, <2>2, <2>3 DEF TypeOK
<1> QED BY <1>3, <1>4 DEF MintCode

(* Removing a device keeps the types.                                      *)
LEMMA ForgetType ==
  ASSUME TypeOK, NEW n \in Nonces, ForgetDevice(n)
  PROVE  TypeOK'
<1>1. /\ reqs' = reqs /\ call' \in [Machines -> Calls \cup {None}]
      /\ cred' \in [Machines -> Devices \cup {None}]
      /\ UNCHANGED <<up, seen, sentinel, now, code>>
      /\ running' \subseteq {x \in Nonces : reqs[x] # None}
  BY AnswerType DEF ForgetDevice, AlreadyGone, LastDevice, Removed, Handled, TypeOK
<1>2. reqs[n].arg \in Devices /\ mem \in Stores /\ disk \in Stores /\ log \in Log
  BY RequestFields DEF ForgetDevice, TypeOK, Handled
<1>3. CASE AlreadyGone(n, reqs[n].arg)
  BY <1>1, <1>2, <1>3 DEF AlreadyGone, store, TypeOK, Log
<1>4. CASE LastDevice(n)
  BY <1>1, <1>2, <1>4 DEF LastDevice, store, TypeOK
<1>5. ASSUME NEW ok \in BOOLEAN, Removed(n, reqs[n].arg, ok) PROVE TypeOK'
  <2>1. [mem EXCEPT !.devices = @ \ {reqs[n].arg}] \in Stores
    BY <1>2 DEF Stores
  <2>2. mem' \in Stores /\ disk' \in Stores
    BY <1>2, <1>5, <2>1, SaveCases DEF Removed, ForgetSave
  <2>3. log' \in Log
    BY <1>2, <1>5 DEF Removed, Log
  <2> QED BY <1>1, <2>2, <2>3 DEF TypeOK
<1> QED BY <1>3, <1>4, <1>5 DEF ForgetDevice

(* Enrolling keeps the types.                                              *)
LEMMA EnrolType ==
  ASSUME TypeOK, NEW m \in Machines, Enrol(m)
  PROVE  TypeOK'
<1> DEFINE c == call[m].arg
<1>1. c \in Codes /\ UNCHANGED <<process, sentinel, now, code, reqs>>
  BY CallFields DEF Enrol
<1>2. CASE BadCode(m, c)
  <2>1. mem' \in Stores
    BY <1>1, <1>2 DEF BadCode, TypeOK, Stores
  <2>2. call' \in [Machines -> Calls \cup {None}]
    BY <1>2 DEF BadCode, TypeOK
  <2> QED BY <1>1, <1>2, <2>1, <2>2 DEF BadCode, TypeOK, process
<1>3. ASSUME NEW d \in Devices, NEW ok \in BOOLEAN, NEW heard \in BOOLEAN,
             Redeem(m, c, d, ok, heard)
      PROVE  TypeOK'
  <2> HIDE DEF c
  <2>0. mem \in Stores /\ disk \in Stores /\ Save(Redeemed(mem, c, d), ok)
    BY <1>3 DEF Redeem, TypeOK
  <2>1. mem' \in Stores /\ disk' \in Stores
    <3>1. Redeemed(mem, c, d) \in Stores
      BY <1>1, <2>0, RedeemedFields
    <3> QED BY <2>0, <3>1 DEF Save
  <2>2. call' \in [Machines -> Calls \cup {None}]
        /\ cred' \in [Machines -> Devices \cup {None}]
    BY <1>3 DEF Redeem, TypeOK
  <2>3. Present(cred[m]) \subseteq Devices
    BY DEF Present, TypeOK
  <2>4. log' \in Log
    BY <1>1, <1>3, <2>3 DEF Redeem, TypeOK, Log
  <2> QED BY <1>1, <2>1, <2>2, <2>4 DEF TypeOK, process
<1> QED BY <1>2, <1>3 DEF Enrol

(* Every step keeps the types.                                             *)
LEMMA NextType == TypeOK /\ [Next]_vars => TypeOK'
<1> SUFFICES ASSUME TypeOK, [Next]_vars PROVE TypeOK'
  OBVIOUS
<1> USE DEF store, process, machines
<1>1. CASE UNCHANGED vars
  BY <1>1 DEF TypeOK, vars
<1>2. ASSUME NEW n \in Nonces, Authenticate(n) PROVE TypeOK'
  <2>1. log' \in Log
    <3>1. log' = [log EXCEPT !.ran = [log.ran EXCEPT ![n] = @ + 1]]
          /\ log \in Log /\ log.ran \in [Nonces -> Nat]
      BY <1>2 DEF Authenticate, TypeOK, Log
    <3>2. [log.ran EXCEPT ![n] = @ + 1] \in [Nonces -> Nat]
      BY <3>1
    <3> QED BY <3>1, <3>2 DEF Log
  <2>2. seen' \in [Nonces -> Nat \cup {None}]
    BY <1>2 DEF Authenticate, TypeOK
  <2> QED BY <1>2, <2>1, <2>2 DEF TypeOK, Authenticate
<1>3. ASSUME NEW n \in Nonces, Refuse(n) PROVE TypeOK'
  BY <1>3, AnswerType DEF TypeOK, Refuse
<1>4. ASSUME NEW n \in Nonces, RenameDevice(n) PROVE TypeOK'
  <2>1. /\ reqs' = reqs /\ call' \in [Machines -> Calls \cup {None}]
        /\ cred' \in [Machines -> Devices \cup {None}]
        /\ running' \subseteq {x \in Nonces : reqs[x] # None}
    BY <1>4, AnswerType DEF RenameDevice, Handled, TypeOK
  <2>2. mem' \in Stores /\ disk' \in Stores
    BY <1>4, SaveCases DEF RenameDevice, TypeOK
  <2> QED BY <1>4, <2>1, <2>2 DEF RenameDevice, TypeOK
<1>8. CASE Crash
  <2>1. log' \in Log
    BY <1>8 DEF Crash, TypeOK, Log
  <2> QED BY <1>8, <2>1 DEF Crash, Stopped, Loaded, TypeOK
<1>9. ASSUME NEW ok \in BOOLEAN, PrintCode(ok)
      PROVE  /\ mem' \in Stores /\ disk' \in Stores
             /\ code' \in [Codes -> {"unused", "made", "known"}]
  <2>1. PICK c \in FreshCodes :
          /\ Save(Minted(mem, c, None), ok)
          /\ code' = [code EXCEPT ![c] = IF ok THEN "known" ELSE "made"]
    BY <1>9 DEF PrintCode
  <2>2. c \in Codes /\ Minted(mem, c, None) \in Stores
    BY MintedFields DEF TypeOK, FreshCodes
  <2> QED BY <2>1, <2>2, SaveCases DEF TypeOK
<1>10. CASE BootEmpty
  BY <1>9, <1>10 DEF BootEmpty, TypeOK
<1>11. CASE BootFatal
  <2>1. PICK c \in FreshCodes : /\ disk' = Minted(mem, c, None) /\ mem' = disk'
                               /\ code' = [code EXCEPT ![c] = "made"]
    BY <1>11 DEF BootFatal
  <2>2. c \in Codes /\ Minted(mem, c, None) \in Stores
    BY MintedFields DEF TypeOK, FreshCodes
  <2> QED BY <1>11, <2>1, <2>2 DEF BootFatal, TypeOK
<1>12. CASE BootPlain
  BY <1>12 DEF BootPlain, TypeOK
<1>13. CASE BootAsked
  <2>1. CASE NotConsumed
    BY <1>13, <2>1 DEF BootAsked, NotConsumed, TypeOK
  <2>2. ASSUME NEW ok \in BOOLEAN, sentinel' = FALSE, Printed(ok)
        PROVE  TypeOK'
    <3>1. log' \in Log
      BY <2>2 DEF Printed, TypeOK, Log
    <3> QED BY <1>9, <1>13, <2>2, <3>1 DEF BootAsked, Printed, TypeOK
  <2> QED BY <1>13, <2>1, <2>2 DEF BootAsked
<1>14. CASE Touch
  BY <1>14 DEF Touch, TypeOK, Log
<1>15. CASE Tick
  BY <1>15 DEF Tick, TypeOK
<1>16. ASSUME NEW d \in Devices, Rescue(d) PROVE TypeOK'
  BY <1>16 DEF Rescue, TypeOK, Stores, Log
<1>17. ASSUME NEW m \in Machines, NEW c \in Codes, StartEnrol(m, c)
       PROVE  TypeOK'
  <2>1. [kind |-> "enrol", arg |-> c, nonce |-> None] \in Calls
    BY DEF Calls
  <2> QED BY <1>17, <2>1 DEF StartEnrol, TypeOK
<1>18. ASSUME NEW m \in Machines, NEW kind \in Kinds, NEW d \in Devices,
              StartCall(m, kind, d)
       PROVE  TypeOK'
  <2>1. /\ reqs' \in [Nonces -> Requests \cup {None}]
        /\ call' \in [Machines -> Calls \cup {None}]
        /\ \A n \in Nonces : reqs[n] # None => reqs'[n] = reqs[n]
    BY <1>18, SignType, SignKeeps DEF StartCall
  <2> QED BY <1>18, <2>1 DEF StartCall, TypeOK
<1>19. ASSUME NEW m \in Machines, Thrown(m) PROVE TypeOK'
  <2>1. CASE call' = [call EXCEPT ![m] = None] /\ UNCHANGED reqs
    BY <1>19, <2>1 DEF Thrown, TypeOK
  <2>2. CASE call[m].kind # "enrol" /\ Sign(m, call[m].kind, call[m].arg)
    <3>1. call[m] # None /\ UNCHANGED <<store, process, sentinel, now, code, cred, log>>
      BY <1>19 DEF Thrown
    <3>2. call[m].kind \in Kinds /\ call[m].arg \in Devices
      BY <2>2, <3>1, CallFields
    <3>3. /\ reqs' \in [Nonces -> Requests \cup {None}]
          /\ call' \in [Machines -> Calls \cup {None}]
          /\ \A n \in Nonces : reqs[n] # None => reqs'[n] = reqs[n]
      BY <2>2, <3>2, SignType, SignKeeps
    <3> QED BY <3>1, <3>3 DEF TypeOK
  <2> QED BY <1>19, <2>1, <2>2 DEF Thrown
<1>20. ASSUME NEW m \in Machines, Wipe(m) PROVE TypeOK'
  BY <1>20 DEF Wipe, TypeOK, Log
<1> QED BY <1>1, <1>2, <1>3, <1>4, <1>8, <1>10, <1>11, <1>12, <1>13, <1>14,
           <1>15, <1>16, <1>17, <1>18, <1>19, <1>20,
           MintType, ForgetType, EnrolType
        DEF Next, Server, People

(* Every variable holds a value of its kind.                               *)
THEOREM TypeCorrect == Spec => []TypeOK
<1>1. Init => TypeOK
  BY InitType
<1>2. TypeOK /\ [Next]_vars => TypeOK'
  BY NextType
<1> QED BY <1>1, <1>2, PTL DEF Spec

-----------------------------------------------------------------------------
(* Codes and devices.  Most steps leave the devices alone (Tame): memory   *)
(* has at most new codes, drawn unused, and the file stays or follows it.  *)
KeyLog == <<log.bought, log.granted, log.asked, log.gone, log.undone, log.lost,
            log.rescued>>

FileFollows == disk' \in {disk, mem'}
NewCodesOnly ==
  /\ \A c \in Codes : mem'.codes[c] # None =>
       mem.codes[c] # None \/ (code[c] = "unused" /\ code'[c] # "unused")
  /\ \A c \in Codes : code'[c] = "unused" => code[c] = "unused"

Tame ==
  /\ mem'.devices = mem.devices /\ NewCodesOnly /\ FileFollows
  /\ cred' = cred /\ KeyLog' = KeyLog

(* A removal of d that finds it gone, or that takes it out of memory.      *)
Drops(d) ==
  /\ d \in Devices
  /\ mem'.devices = mem.devices \ {d} /\ NewCodesOnly /\ FileFollows
  /\ log'.bought = log.bought /\ log'.granted = log.granted
  /\ log'.lost = log.lost /\ log'.rescued = log.rescued
  /\ log'.asked = log.asked \cup {d}
  /\ \/ /\ d \notin mem.devices /\ disk' = disk /\ mem' = mem
        /\ log'.gone = log.gone \cup {d} /\ log'.undone = log.undone
     \/ /\ d \in mem.devices /\ Cardinality(mem.devices) # 1 /\ disk' = mem'
        /\ log'.gone = log.gone \cup {d} /\ log'.undone = log.undone
     \/ /\ d \in mem.devices /\ Cardinality(mem.devices) # 1
        /\ log'.gone = log.gone /\ log'.undone = log.undone \cup {d}
  /\ \A m \in Machines : cred'[m] # cred[m] =>
       cred[m] = d /\ d \in log'.gone
  /\ ~Unused(d)

Buys(m, c, d) ==
  /\ m \in Machines /\ c \in Codes /\ d \in Devices
  /\ mem.codes[c] # None /\ Unused(d)
  /\ mem'.devices = mem.devices \cup {d}
  /\ mem'.codes = [mem.codes EXCEPT ![c] = None]
  /\ FileFollows /\ code' = code
  /\ log'.bought = [log.bought EXCEPT ![d] = c]
  /\ log'.asked = log.asked /\ log'.gone = log.gone
  /\ log'.undone = log.undone /\ log'.rescued = log.rescued
  /\ \/ disk' = mem' /\ log'.granted = log.granted \cup {d}
     \/ log'.granted = log.granted /\ d \in log'.lost
  /\ \/ cred' = cred /\ log'.lost = log.lost \cup {d}
     \/ /\ cred' = [cred EXCEPT ![m] = d]
        /\ log'.lost = log.lost \cup Present(cred[m])

Reloads == mem' = disk /\ disk' = disk /\ code' = code /\ cred' = cred
           /\ KeyLog' = KeyLog

Rescues(d) ==
  /\ d \in Devices
  /\ disk'.devices = disk.devices \ {d} /\ disk'.codes = disk.codes
  /\ mem' = disk' /\ code' = code /\ cred' = cred
  /\ log'.asked = log.asked \cup {d} /\ log'.rescued = TRUE
  /\ log'.bought = log.bought /\ log'.granted = log.granted
  /\ log'.gone = log.gone /\ log'.undone = log.undone /\ log'.lost = log.lost

Loses(m) ==
  /\ m \in Machines /\ cred[m] # None
  /\ UNCHANGED <<mem, disk, code>>
  /\ cred' = [cred EXCEPT ![m] = None]
  /\ log'.lost = log.lost \cup {cred[m]}
  /\ log'.bought = log.bought /\ log'.granted = log.granted
  /\ log'.asked = log.asked /\ log'.gone = log.gone
  /\ log'.undone = log.undone /\ log'.rescued = log.rescued

KeyStep ==
  \/ Tame \/ Reloads
  \/ \E d \in Devices : Drops(d) \/ Rescues(d)
  \/ \E m \in Machines, c \in Codes, d \in Devices : Buys(m, c, d)
  \/ \E m \in Machines : Loses(m)

(* Minting a code from the unused ones is tame.                            *)
LEMMA MintIsTame ==
  ASSUME TypeOK, NEW c \in FreshCodes, NEW n,
         mem' = Minted(mem, c, n), disk' \in {disk, mem'},
         code' = [code EXCEPT ![c] = "known"] \/ code' = [code EXCEPT ![c] = "made"],
         cred' = cred, KeyLog' = KeyLog
  PROVE  Tame
<1>1. c \in Codes /\ code[c] = "unused" /\ mem \in Stores /\ now \in Nat
      /\ code \in [Codes -> {"unused", "made", "known"}]
  BY DEF FreshCodes, TypeOK
<1>2. mem'.devices = mem.devices
      /\ \A x \in Codes : mem'.codes[x] # None => x = c \/ mem.codes[x] # None
  <2>1. /\ Minted(mem, c, n).devices = mem.devices
        /\ \A x \in Codes : Minted(mem, c, n).codes[x] # None =>
             x = c \/ mem.codes[x] # None
    <3>1. mem.codes \in [Codes -> Nat \cup {None}]
      BY <1>1 DEF Stores
    <3> QED BY <1>1, <3>1 DEF Minted, Live
  <2> QED BY <2>1
<1>3. \A x \in Codes : code'[x] = IF x = c THEN code'[c] ELSE code[x]
  BY <1>1
<1>4. code'[c] # "unused"
  BY <1>1
<1> QED BY <1>1, <1>2, <1>3, <1>4 DEF Tame, NewCodesOnly, FileFollows

(* What removing a device amounts to.                                      *)
LEMMA ForgetIsDrop ==
  ASSUME TypeOK, NEW n \in Nonces, ForgetDevice(n), ~Unused(reqs[n].arg)
  PROVE  Tame \/ \E d \in Devices : Drops(d)
<1> DEFINE d == reqs[n].arg
<1>1. d \in Devices /\ mem \in Stores /\ disk \in Stores /\ log \in Log
      /\ code' = code
  BY RequestFields DEF ForgetDevice, TypeOK, Handled
<1> HIDE DEF d
<1>2. CASE LastDevice(n)
  <2>1. cred' = cred
    BY <1>2, RefusalKeepsKey DEF LastDevice
  <2> QED BY <1>1, <1>2, <2>1
          DEF LastDevice, store, Tame, NewCodesOnly, FileFollows, KeyLog
<1>3. CASE AlreadyGone(n, d)
  <2>1. d \notin mem.devices
    BY <1>3 DEF AlreadyGone, ForgetOutcome, d
  <2>2. \A m \in Machines : cred'[m] # cred[m] => cred[m] = d
    BY <1>3, AnswerType DEF AlreadyGone, d
  <2>3. log' = [log EXCEPT !.gone = @ \cup {d}, !.asked = @ \cup {d}]
        /\ mem' = mem /\ disk' = disk
    BY <1>3 DEF AlreadyGone, store
  <2>4. /\ log'.bought = log.bought /\ log'.granted = log.granted
        /\ log'.lost = log.lost /\ log'.rescued = log.rescued
        /\ log'.asked = log.asked \cup {d} /\ log'.gone = log.gone \cup {d}
        /\ log'.undone = log.undone
    BY <1>1, <2>3 DEF Log
  <2>5. mem'.devices = mem.devices \ {d}
    BY <2>1, <2>3
  <2>6. ~Unused(d)
    BY DEF d
  <2>7. NewCodesOnly /\ FileFollows
    BY <1>1, <2>3 DEF NewCodesOnly, FileFollows
  <2> QED BY <1>1, <2>1, <2>2, <2>3, <2>4, <2>5, <2>6, <2>7 DEF Drops
<1>4. ASSUME NEW ok \in BOOLEAN, Removed(n, d, ok) PROVE Drops(d)
  <2>1. d \in mem.devices /\ Cardinality(mem.devices) # 1
    BY <1>4 DEF Removed, ForgetOutcome, d
  <2>2. \A m \in Machines : cred'[m] # cred[m] => cred[m] = d /\ ok
    BY <1>4, AnswerType DEF Removed, d
  <2>3. /\ mem' = [mem EXCEPT !.devices = @ \ {d}] /\ disk' \in {disk, mem'}
        /\ ok => disk' = mem'
    BY <1>4 DEF Removed, ForgetSave, Save
  <2>4. log' = [log EXCEPT !.asked  = @ \cup {d},
                          !.gone   = IF ok THEN @ \cup {d} ELSE @,
                          !.undone = IF ok THEN @ ELSE @ \cup {d}]
    BY <1>4 DEF Removed
  <2>5. /\ log'.bought = log.bought /\ log'.granted = log.granted
        /\ log'.lost = log.lost /\ log'.rescued = log.rescued
        /\ log'.asked = log.asked \cup {d}
        /\ log'.gone = IF ok THEN log.gone \cup {d} ELSE log.gone
        /\ log'.undone = IF ok THEN log.undone ELSE log.undone \cup {d}
    BY <1>1, <2>4 DEF Log
  <2>6. ~Unused(d)
    BY DEF d
  <2>7. /\ mem'.devices = mem.devices \ {d} /\ mem'.codes = mem.codes
    BY <1>1, <2>3 DEF Stores
  <2>8. NewCodesOnly /\ FileFollows
    BY <1>1, <2>3, <2>7 DEF NewCodesOnly, FileFollows
  <2> QED BY <1>1, <2>1, <2>2, <2>3, <2>5, <2>6, <2>7, <2>8 DEF Drops
<1> QED BY <1>1, <1>2, <1>3, <1>4 DEF ForgetDevice, d

(* What an enrolment post amounts to.                                      *)
LEMMA EnrolIsBuy ==
  ASSUME TypeOK, NEW m \in Machines, Enrol(m)
  PROVE  Tame \/ \E c \in Codes, d \in Devices : Buys(m, c, d)
<1> DEFINE c == call[m].arg
<1>1. c \in Codes /\ code' = code /\ mem \in Stores /\ log \in Log
  BY CallFields DEF Enrol, TypeOK
<1> HIDE DEF c
<1>2. CASE BadCode(m, c)
  <2>1. /\ mem'.devices = mem.devices
        /\ mem'.codes = [mem.codes EXCEPT ![c] = None]
        /\ mem.codes \in [Codes -> Nat \cup {None}]
    BY <1>1, <1>2 DEF BadCode, Stores
  <2> QED BY <1>1, <1>2, <2>1
          DEF BadCode, Tame, NewCodesOnly, FileFollows, KeyLog
<1>3. ASSUME NEW d \in Devices, NEW ok \in BOOLEAN, NEW heard \in BOOLEAN,
             Redeem(m, c, d, ok, heard)
      PROVE  Buys(m, c, d)
  <2>1. /\ mem' = Redeemed(mem, c, d) /\ disk' \in {disk, mem'}
        /\ ok => disk' = mem'
    BY <1>3 DEF Redeem, Save
  <2>2. /\ mem'.devices = mem.devices \cup {d}
        /\ mem'.codes = [mem.codes EXCEPT ![c] = None]
    BY <1>1, <2>1, RedeemedFields
  <2>3. mem.codes[c] # None /\ Unused(d)
    BY <1>3 DEF Redeem, Live
  <2>4. log'  = [log EXCEPT
            !.bought[d] = c,
            !.granted = IF ok THEN @ \cup {d} ELSE @,
            !.lost    = IF heard /\ ok THEN @ \cup Present(cred[m])
                        ELSE @ \cup {d}]
    BY <1>3 DEF Redeem
  <2>5. /\ log'.bought = [log.bought EXCEPT ![d] = c]
        /\ log'.asked = log.asked /\ log'.gone = log.gone
        /\ log'.undone = log.undone /\ log'.rescued = log.rescued
        /\ log'.granted = IF ok THEN log.granted \cup {d} ELSE log.granted
        /\ log'.lost = IF heard /\ ok THEN log.lost \cup Present(cred[m])
                       ELSE log.lost \cup {d}
    BY <1>1, <2>4 DEF Log
  <2>6. cred' = IF heard /\ ok THEN [cred EXCEPT ![m] = d] ELSE cred
    BY <1>3 DEF Redeem
  <2> QED BY <1>1, <2>1, <2>2, <2>3, <2>5, <2>6 DEF Buys, FileFollows
<1> QED BY <1>1, <1>2, <1>3 DEF Enrol, c

(* Requests name devices a list has shown.                                 *)
Listed ==
  /\ \A n \in Nonces : reqs[n] # None => ~Unused(reqs[n].arg)
  /\ \A m \in Machines :
       call[m] # None /\ call[m].kind # "enrol" => ~Unused(call[m].arg)

(* A step that touches no key is tame.                                     *)
LEMMA StillIsTame ==
  ASSUME mem' = mem, disk' = disk, code' = code, cred' = cred,
         log' = log \/ KeyLog' = KeyLog
  PROVE  Tame
<1>1. KeyLog' = KeyLog
  BY DEF KeyLog
<1> QED BY <1>1 DEF Tame, NewCodesOnly, FileFollows

(* Every step is one of the kinds above.                                   *)
LEMMA StepKinds ==
  ASSUME TypeOK, Listed, [Next]_vars
  PROVE  KeyStep
<1>2. CASE UNCHANGED vars
  <2>1. mem' = mem /\ disk' = disk /\ code' = code /\ cred' = cred /\ log' = log
    BY <1>2 DEF vars
  <2> QED BY <2>1, StillIsTame DEF KeyStep
<1>3. ASSUME NEW n \in Nonces, Authenticate(n) PROVE Tame
  <2>1. KeyLog' = KeyLog
    BY <1>3 DEF Authenticate, KeyLog, TypeOK, Log
  <2> QED BY <1>3, <2>1, StillIsTame DEF Authenticate, store, machines
<1>4. ASSUME NEW n \in Nonces, Refuse(n) PROVE Tame
  <2>1. cred' = cred
    BY <1>4, RefusalKeepsKey DEF Refuse
  <2> QED BY <1>4, <2>1, StillIsTame DEF Refuse, store
<1>5. ASSUME NEW n \in Nonces, MintCode(n) PROVE Tame
  <2>1. cred' = cred
    BY <1>5, RefusalKeepsKey DEF MintCode
  <2>2. CASE SameCode(n)
    <3>1. mem.mints[n].code \in Codes
      BY <2>2 DEF SameCode, Remembered, TypeOK, Stores, Mints
    <3>2. KeyLog' = KeyLog
      BY <2>2 DEF SameCode, KeyLog, TypeOK, Log
    <3>3. \A c \in Codes : code'[c] = "unused" => code[c] = "unused"
      BY <2>2, <3>1 DEF SameCode, TypeOK
    <3> QED BY <2>1, <2>2, <3>2, <3>3
            DEF SameCode, store, Tame, NewCodesOnly, FileFollows
  <2>3. ASSUME NEW c \in FreshCodes, NEW ok \in BOOLEAN, NewCodeFor(n, c, ok)
        PROVE  Tame
    <3>1. KeyLog' = KeyLog
      BY <2>3 DEF NewCodeFor, KeyLog, TypeOK, Log
    <3>2. mem' = Minted(mem, c, n) /\ disk' \in {disk, mem'}
      BY <2>3 DEF NewCodeFor, Save
    <3>3. code' = [code EXCEPT ![c] = "known"] \/ code' = [code EXCEPT ![c] = "made"]
      BY <2>3 DEF NewCodeFor
    <3> QED BY <2>1, <3>1, <3>2, <3>3, MintIsTame
  <2> QED BY <1>5, <2>2, <2>3 DEF MintCode
<1>6. ASSUME NEW n \in Nonces, ForgetDevice(n) PROVE KeyStep
  <2>1. reqs[n] # None
    BY <1>6 DEF ForgetDevice, Handled, TypeOK
  <2> QED BY <1>6, <2>1, ForgetIsDrop DEF Listed, KeyStep
<1>7. ASSUME NEW n \in Nonces, RenameDevice(n) PROVE Tame
  <2>1. cred' = cred
    BY <1>7, RefusalKeepsKey DEF RenameDevice
  <2>2. mem' = mem /\ disk' \in {disk, mem'}
    BY <1>7 DEF RenameDevice, store, Save
  <2> QED BY <1>7, <2>1, <2>2
          DEF RenameDevice, Tame, NewCodesOnly, FileFollows, KeyLog
<1>8. ASSUME NEW m \in Machines, Enrol(m) PROVE KeyStep
  BY <1>8, EnrolIsBuy DEF KeyStep
<1>9. CASE Crash
  <2>1. KeyLog' = KeyLog
    BY <1>9 DEF Crash, KeyLog, TypeOK, Log
  <2> QED BY <1>9, <2>1 DEF Crash, Loaded, machines, Reloads, KeyStep
<1>10. ASSUME NEW ok \in BOOLEAN, PrintCode(ok), cred' = cred, KeyLog' = KeyLog
       PROVE  Tame
  <2>1. PICK c \in FreshCodes :
          /\ Save(Minted(mem, c, None), ok)
          /\ code' = [code EXCEPT ![c] = IF ok THEN "known" ELSE "made"]
    BY <1>10 DEF PrintCode
  <2>2. mem' = Minted(mem, c, None) /\ disk' \in {disk, mem'}
    BY <2>1 DEF Save
  <2>3. code' = [code EXCEPT ![c] = "known"] \/ code' = [code EXCEPT ![c] = "made"]
    BY <2>1
  <2> QED BY <1>10, <2>2, <2>3, MintIsTame
<1>11. CASE BootEmpty
  BY <1>10, <1>11 DEF BootEmpty, machines, KeyLog, KeyStep
<1>12. CASE BootFatal
  <2>1. PICK c \in FreshCodes : /\ disk' = Minted(mem, c, None) /\ mem' = disk'
                               /\ code' = [code EXCEPT ![c] = "made"]
    BY <1>12 DEF BootFatal
  <2>2. cred' = cred /\ KeyLog' = KeyLog
    BY <1>12 DEF BootFatal, machines, KeyLog
  <2> QED BY <2>1, <2>2, MintIsTame DEF KeyStep
<1>13. CASE BootPlain
  BY <1>13, StillIsTame DEF BootPlain, store, machines, KeyStep
<1>14. CASE BootAsked
  <2>1. CASE NotConsumed
    BY <1>14, <2>1, StillIsTame DEF BootAsked, NotConsumed, store, machines, KeyStep
  <2>2. ASSUME NEW ok \in BOOLEAN, Printed(ok) PROVE Tame
    <3>1. KeyLog' = KeyLog
      BY <2>2 DEF Printed, KeyLog, TypeOK, Log
    <3> QED BY <1>10, <1>14, <2>2, <3>1 DEF BootAsked, Printed, machines
  <2> QED BY <1>14, <2>1, <2>2 DEF BootAsked, KeyStep
<1>15. CASE Touch
  <2>1. KeyLog' = KeyLog
    BY <1>15 DEF Touch, KeyLog, TypeOK, Log
  <2> QED BY <1>15, <2>1, StillIsTame DEF Touch, store, machines, KeyStep
<1>16. CASE Tick
  BY <1>16, StillIsTame DEF Tick, store, machines, KeyStep
<1>17. ASSUME NEW d \in Devices, Rescue(d) PROVE Rescues(d)
  <2>1. disk \in Stores /\ log \in Log
    BY DEF TypeOK
  <2>2. disk'.devices = disk.devices \ {d} /\ disk'.codes = disk.codes
    BY <1>17, <2>1 DEF Rescue, Stores
  <2>3. log' = [log EXCEPT !.asked = @ \cup {d}, !.rescued = TRUE]
    BY <1>17 DEF Rescue
  <2>4. /\ log'.asked = log.asked \cup {d} /\ log'.rescued = TRUE
        /\ log'.bought = log.bought /\ log'.granted = log.granted
        /\ log'.gone = log.gone /\ log'.undone = log.undone
        /\ log'.lost = log.lost
    BY <2>1, <2>3 DEF Log
  <2> QED BY <1>17, <2>2, <2>4 DEF Rescue, Rescues, machines
<1>18. ASSUME NEW m \in Machines, NEW c \in Codes, StartEnrol(m, c) PROVE Tame
  BY <1>18, StillIsTame DEF StartEnrol, store
<1>19. ASSUME NEW m \in Machines, NEW kind \in Kinds, NEW d \in Devices,
              StartCall(m, kind, d)
       PROVE  Tame
  BY <1>19, StillIsTame DEF StartCall, store
<1>20. ASSUME NEW m \in Machines, Thrown(m) PROVE Tame
  BY <1>20, StillIsTame DEF Thrown, store
<1>21. ASSUME NEW m \in Machines, Wipe(m) PROVE Loses(m)
  BY <1>21 DEF Wipe, Loses, store, TypeOK, Log
<1> QED BY <1>2, <1>3, <1>4, <1>5, <1>6, <1>7, <1>8, <1>9, <1>11, <1>12, <1>13,
           <1>14, <1>15, <1>16, <1>17, <1>18, <1>19, <1>20, <1>21
        DEF Next, Server, People, KeyStep

(* A new request or call names a device that was listed.                   *)
NamesListed ==
  /\ \A n \in Nonces : reqs'[n] = reqs[n]
       \/ (reqs[n] = None /\ reqs'[n] # None /\ ~Unused(reqs'[n].arg))
  /\ \A m \in Machines : call'[m] # None =>
       call'[m] = call[m] \/ call'[m].kind = "enrol" \/ ~Unused(call'[m].arg)

(* Signing names what it was asked to.                                     *)
LEMMA SignNames ==
  ASSUME TypeOK, NEW m \in Machines, NEW kind \in Kinds, NEW d \in Devices,
         Sign(m, kind, d), ~Unused(d)
  PROVE  NamesListed
<1>1. PICK n \in FreshNonces, ts \in {t \in 0 .. now + ClockError : now <= t + ClockError} :
        /\ cred[m] # None
        /\ reqs' = [reqs EXCEPT ![n] =
             [kind |-> kind, dev |-> cred[m], ts |-> ts, arg |-> d]]
        /\ call' = [call EXCEPT ![m] = [kind |-> kind, arg |-> d, nonce |-> n]]
  BY DEF Sign
<1>2. n \in Nonces /\ reqs[n] = None /\ ts \in Nat /\ cred[m] \in Devices
  BY <1>1 DEF TypeOK, FreshNonces
<1>3. [kind |-> kind, dev |-> cred[m], ts |-> ts, arg |-> d] # None
  <2>1. [kind |-> kind, dev |-> cred[m], ts |-> ts, arg |-> d] \in Requests
    BY <1>2 DEF Requests
  <2> QED BY <2>1
<1>4. \A x \in Nonces : reqs'[x] = IF x = n THEN reqs'[n] ELSE reqs[x]
  BY <1>1 DEF TypeOK
<1>5. \A x \in Machines : call'[x] = IF x = m THEN call'[m] ELSE call[x]
  BY <1>1 DEF TypeOK
<1>6. reqs'[n].arg = d /\ reqs'[n] # None /\ call'[m].arg = d
  BY <1>1, <1>2, <1>3 DEF TypeOK
<1> QED BY <1>2, <1>4, <1>5, <1>6 DEF NamesListed

(* A step that at most ends calls names nothing.                           *)
LEMMA EndingNames ==
  ASSUME reqs' = reqs,
         \A m \in Machines : call'[m] = call[m] \/ call'[m] = None
  PROVE  NamesListed
BY DEF NamesListed

(* An answer at most ends calls.                                           *)
LEMMA AnswerNames ==
  ASSUME TypeOK, NEW n, NEW done, Answer(n, done)
  PROVE  NamesListed
<1>1. \A m \in Machines : call'[m] = call[m] \/ call'[m] = None
  BY DEF Answer, machines, TypeOK
<1>2. reqs' = reqs
  BY DEF Answer, machines
<1> QED BY <1>1, <1>2, EndingNames

(* So it is for every step.                                                *)
LEMMA StepNames ==
  ASSUME TypeOK, Listed, [Next]_vars
  PROVE  NamesListed
<1> USE DEF machines
<1>1. CASE UNCHANGED vars
  BY <1>1, EndingNames DEF vars
<1>2. ASSUME NEW n \in Nonces, Authenticate(n) PROVE NamesListed
  BY <1>2, EndingNames DEF Authenticate
<1>3. ASSUME NEW n \in Nonces, Refuse(n) PROVE NamesListed
  BY <1>3, AnswerNames DEF Refuse
<1>4. ASSUME NEW n \in Nonces, MintCode(n) PROVE NamesListed
  BY <1>4, AnswerNames DEF MintCode
<1>5. ASSUME NEW n \in Nonces, ForgetDevice(n) PROVE NamesListed
  BY <1>5, AnswerNames DEF ForgetDevice, AlreadyGone, LastDevice, Removed
<1>6. ASSUME NEW n \in Nonces, RenameDevice(n) PROVE NamesListed
  BY <1>6, AnswerNames DEF RenameDevice
<1>7. ASSUME NEW m \in Machines, Enrol(m) PROVE NamesListed
  <2>1. call' = call \/ call' = [call EXCEPT ![m] = None]
    BY <1>7 DEF Enrol, BadCode, Redeem
  <2>2. \A x \in Machines : call'[x] = call[x] \/ call'[x] = None
    BY <2>1 DEF TypeOK
  <2> QED BY <1>7, <2>2, EndingNames DEF Enrol
<1>8. CASE Crash
  BY <1>8, EndingNames DEF Crash
<1>9. CASE BootEmpty \/ BootFatal \/ BootPlain \/ BootAsked
  BY <1>9, EndingNames DEF BootEmpty, BootFatal, BootPlain, BootAsked
<1>10. CASE Touch \/ Tick
  BY <1>10, EndingNames DEF Touch, Tick
<1>11. ASSUME NEW d \in Devices, Rescue(d) PROVE NamesListed
  BY <1>11, EndingNames DEF Rescue
<1>12. ASSUME NEW m \in Machines, NEW c \in Codes, StartEnrol(m, c)
       PROVE  NamesListed
  <2>1. reqs' = reqs
        /\ call' = [call EXCEPT ![m] = [kind |-> "enrol", arg |-> c, nonce |-> None]]
    BY <1>12 DEF StartEnrol
  <2> QED BY <2>1 DEF NamesListed, TypeOK
<1>13. ASSUME NEW m \in Machines, NEW kind \in Kinds, NEW d \in Devices,
              StartCall(m, kind, d)
       PROVE  NamesListed
  BY <1>13, SignNames DEF StartCall
<1>14. ASSUME NEW m \in Machines, Thrown(m) PROVE NamesListed
  <2>1. CASE call' = [call EXCEPT ![m] = None] /\ UNCHANGED reqs
    BY <2>1, EndingNames DEF TypeOK
  <2>2. CASE call[m].kind # "enrol" /\ Sign(m, call[m].kind, call[m].arg)
    <3>1. call[m] # None
      BY <1>14 DEF Thrown
    <3> QED BY <2>2, <3>1, CallFields, SignNames DEF Listed
  <2> QED BY <1>14, <2>1, <2>2 DEF Thrown
<1>15. ASSUME NEW m \in Machines, Wipe(m) PROVE NamesListed
  <2>1. reqs' = reqs /\ call' = [call EXCEPT ![m] = None]
    BY <1>15 DEF Wipe
  <2> QED BY <2>1, EndingNames DEF TypeOK
<1> QED BY <1>1, <1>2, <1>3, <1>4, <1>5, <1>6, <1>7, <1>8, <1>9, <1>10, <1>11,
           <1>12, <1>13, <1>14, <1>15
        DEF Next, Server, People

-----------------------------------------------------------------------------
(* The inductive invariant about codes and devices.                        *)

(* A device nobody bought is nowhere, a code nobody made is nowhere.       *)
Fresh ==
  /\ \A d \in Devices : Unused(d) =>
       d \notin mem.devices \cup disk.devices \cup log.granted \cup log.gone
  /\ \A c \in Codes : code[c] = "unused" =>
       /\ mem.codes[c] = None /\ disk.codes[c] = None
       /\ \A d \in Devices : log.bought[d] # c

(* A code that still lives has bought nothing that lives beside it.        *)
Bought(held, c) == \E d \in held : log.bought[d] = c
Once ==
  /\ \A c \in Codes :
       /\ mem.codes[c] # None =>
            ~Bought(mem.devices \cup disk.devices \cup log.granted, c)
       /\ disk.codes[c] # None => ~Bought(disk.devices \cup log.granted, c)
  /\ \A x, y \in Devices :
       log.bought[x] = Earlier /\ log.bought[y] = Earlier => x = y

(* What the file still holds and memory does not was removed in vain.      *)
HalfGone == disk.devices \ mem.devices \subseteq log.undone

(* Every device's key is held, lost, or its removal came undone.           *)
Holders ==
  mem.devices \cup disk.devices
    \subseteq {cred[m] : m \in Machines} \cup log.lost \cup log.undone

(* Somebody is always enrolled, unless the rescue tool was used.           *)
NotEmpty ==
  log.granted # {} /\ ~log.rescued => mem.devices # {} /\ disk.devices # {}

KeyInv ==
  /\ Fresh /\ Once /\ HalfGone /\ Holders /\ NotEmpty
  /\ CodeBuysOne /\ RevokedStaysOut /\ EnrolledDurable

(* The types the steps below rely on.                                      *)
LEMMA KeyTypes ==
  ASSUME TypeOK
  PROVE  /\ mem.devices \subseteq Devices /\ disk.devices \subseteq Devices
         /\ mem.codes \in [Codes -> Nat \cup {None}]
         /\ disk.codes \in [Codes -> Nat \cup {None}]
         /\ log.bought \in [Devices -> Codes \cup {None, Earlier}]
         /\ log.granted \subseteq Devices /\ log.gone \subseteq Devices
         /\ log.asked \subseteq Devices /\ log.undone \subseteq Devices
         /\ cred \in [Machines -> Devices \cup {None}]
         /\ log.rescued \in BOOLEAN
BY DEF TypeOK, Stores, Log

(* A tame step keeps the invariant.                                        *)
LEMMA TameKeeps == ASSUME TypeOK, KeyInv, Tame PROVE KeyInv'
<1> USE KeyTypes
<1>1. /\ mem'.devices = mem.devices /\ disk'.devices \in {disk.devices, mem.devices}
      /\ log'.bought = log.bought /\ log'.granted = log.granted
      /\ log'.asked = log.asked /\ log'.gone = log.gone
      /\ log'.undone = log.undone /\ log'.lost = log.lost
      /\ log'.rescued = log.rescued /\ cred' = cred
  BY DEF Tame, FileFollows, KeyLog
<1>2. \A c \in Codes : /\ mem'.codes[c] # None =>
                           mem.codes[c] # None \/ (code[c] = "unused" /\ code'[c] # "unused")
                       /\ disk'.codes[c] \in {disk.codes[c], mem'.codes[c]}
                       /\ code'[c] = "unused" => code[c] = "unused"
  BY DEF Tame, NewCodesOnly, FileFollows
<1>3. Fresh'
  BY <1>1, <1>2 DEF KeyInv, Fresh, Unused
<1>4. Once'
  <2>1. ASSUME NEW c \in Codes, mem'.codes[c] # None
        PROVE  ~Bought(mem.devices \cup disk.devices \cup log.granted, c)
    BY <1>2, <2>1 DEF KeyInv, Fresh, Once, Bought
  <2>2. ASSUME NEW c \in Codes, disk'.codes[c] # None
        PROVE  ~Bought(disk'.devices \cup log.granted, c)
    BY <1>1, <1>2, <2>1, <2>2 DEF KeyInv, Once, Bought, Tame, FileFollows
  <2> QED BY <1>1, <2>1, <2>2 DEF KeyInv, Once, Bought
<1>5. HalfGone' /\ RevokedStaysOut' /\ EnrolledDurable'
  BY <1>1 DEF KeyInv, HalfGone, RevokedStaysOut, EnrolledDurable
<1>6. Holders' /\ NotEmpty'
  BY <1>1 DEF KeyInv, Holders, NotEmpty
<1>7. CodeBuysOne'
  BY <1>1 DEF KeyInv, CodeBuysOne
<1> QED BY <1>3, <1>4, <1>5, <1>6, <1>7 DEF KeyInv

(* A removal keeps it: the last device stays, and what a failed save left  *)
(* in the file is among the removals undone.                               *)
LEMMA DropKeeps ==
  ASSUME TypeOK, KeyInv, NEW d \in Devices, Drops(d) PROVE KeyInv'
<1> USE KeyTypes
<1>1. /\ mem'.devices = mem.devices \ {d}
      /\ disk'.devices \in {disk.devices, mem'.devices}
      /\ log'.bought = log.bought /\ log'.granted = log.granted
      /\ log'.asked = log.asked \cup {d} /\ log'.lost = log.lost
      /\ log'.rescued = log.rescued /\ log.undone \subseteq log'.undone
      /\ ~Unused(d) /\ log'.gone \subseteq log.gone \cup {d}
  BY DEF Drops, FileFollows
<1>2. \A c \in Codes : /\ mem'.codes[c] # None =>
                           mem.codes[c] # None \/ (code[c] = "unused" /\ code'[c] # "unused")
                       /\ code'[c] = "unused" => code[c] = "unused"
  BY DEF Drops, NewCodesOnly
<1>3. disk' = disk \/ disk' = mem'
  BY DEF Drops, FileFollows
<1>4. d \in disk'.devices => d \in log'.undone
  BY <1>1 DEF Drops, KeyInv, HalfGone
<1>5. Fresh'
  BY <1>1, <1>2, <1>3 DEF KeyInv, Fresh, Unused
<1>6. Once'
  <2>1. ASSUME NEW c \in Codes, mem'.codes[c] # None
        PROVE  ~Bought(mem.devices \cup disk.devices \cup log.granted, c)
    BY <1>2, <2>1 DEF KeyInv, Fresh, Once, Bought
  <2>2. ASSUME NEW c \in Codes, disk'.codes[c] # None
        PROVE  ~Bought(disk'.devices \cup log.granted, c)
    BY <1>1, <1>3, <2>1, <2>2 DEF KeyInv, Once, Bought
  <2> QED BY <1>1, <2>1, <2>2 DEF KeyInv, Once, Bought
<1>7. HalfGone'
  BY <1>1, <1>3, <1>4 DEF KeyInv, HalfGone
<1>8. RevokedStaysOut'
  BY <1>1, <1>4 DEF KeyInv, RevokedStaysOut
<1>9. EnrolledDurable'
  BY <1>1 DEF KeyInv, EnrolledDurable
<1>10. Holders'
  <2> SUFFICES ASSUME NEW x \in mem'.devices \cup disk'.devices,
                      x \notin log'.lost \cup log'.undone
               PROVE  \E m \in Machines : cred'[m] = x
    BY DEF Holders
  <2>1. x # d
    BY <1>1, <1>4
  <2>2. PICK m \in Machines : cred[m] = x
    BY <1>1 DEF KeyInv, Holders
  <2> QED BY <2>1, <2>2 DEF Drops
<1>11. NotEmpty'
  <2>1. d \in mem.devices => mem.devices # {d}
    BY FS_Singleton DEF Drops
  <2> QED BY <1>1, <2>1 DEF KeyInv, NotEmpty
<1>12. CodeBuysOne'
  BY <1>1 DEF KeyInv, CodeBuysOne
<1> QED BY <1>5, <1>6, <1>7, <1>8, <1>9, <1>10, <1>11, <1>12 DEF KeyInv

(* An enrolment keeps it: the code that bought the device is gone from     *)
(* memory, and from the file too once the device was granted.              *)
LEMMA BuyKeeps ==
  ASSUME TypeOK, KeyInv, NEW m \in Machines, NEW c \in Codes,
         NEW d \in Devices, Buys(m, c, d)
  PROVE  KeyInv'
<1> USE KeyTypes
<1>1. /\ mem'.devices = mem.devices \cup {d} /\ code' = code
      /\ log'.asked = log.asked /\ log'.gone = log.gone
      /\ log'.undone = log.undone /\ log'.rescued = log.rescued
      /\ log'.granted \subseteq log.granted \cup {d}
      /\ log.granted \subseteq log'.granted
      /\ disk' = disk \/ disk' = mem'
      /\ d \in log'.granted => disk' = mem' \/ d \in log.granted
  BY DEF Buys, FileFollows
<1>2. \A x \in Codes : mem'.codes[x] = IF x = c THEN None ELSE mem.codes[x]
  BY DEF Buys
<1>3. \A x \in Devices : log'.bought[x] = IF x = d THEN c ELSE log.bought[x]
  BY DEF Buys
<1>4. /\ d \notin mem.devices \cup disk.devices \cup log.granted \cup log.gone
      /\ code[c] # "unused" /\ c # None /\ c # Earlier
      /\ ~Bought(mem.devices \cup disk.devices \cup log.granted, c)
  BY NoneAssumption DEF Buys, KeyInv, Fresh, Once
<1>5. Fresh'
  BY <1>1, <1>2, <1>3, <1>4 DEF KeyInv, Fresh, Unused
<1>6. Once'
  <2>1. ASSUME NEW e \in Codes, mem'.codes[e] # None,
               NEW x \in mem'.devices \cup disk'.devices \cup log'.granted
        PROVE  log'.bought[x] # e
    <3>1. e # c /\ mem.codes[e] # None
      BY <1>2, <2>1
    <3>2. x = d \/ x \in mem.devices \cup disk.devices \cup log.granted
      BY <1>1, <2>1
    <3>3. x \in Devices
      BY <3>2
    <3> QED BY <1>3, <3>1, <3>2, <3>3 DEF KeyInv, Once, Bought
  <2>2. ASSUME NEW e \in Codes, disk'.codes[e] # None,
               NEW x \in disk'.devices \cup log'.granted
        PROVE  log'.bought[x] # e
    <3>1. CASE disk' = mem'
      BY <2>1, <2>2, <3>1
    <3>2. CASE disk' = disk /\ disk' # mem'
      <4>1. x \in disk.devices \cup log.granted
        BY <1>1, <2>2, <3>2
      <4>2. x \in Devices /\ x # d
        BY <1>4, <4>1
      <4>3. log.bought[x] # e
        BY <2>2, <3>2, <4>1 DEF KeyInv, Once, Bought
      <4> QED BY <1>3, <4>2, <4>3
    <3> QED BY <1>1, <3>1, <3>2
  <2>3. ASSUME NEW x \in Devices, NEW y \in Devices,
               log'.bought[x] = Earlier, log'.bought[y] = Earlier
        PROVE  x = y
    BY <1>3, <1>4, <2>3 DEF KeyInv, Once
  <2> QED BY <2>1, <2>2, <2>3 DEF Once, Bought
<1>7. HalfGone'
  BY <1>1 DEF KeyInv, HalfGone
<1>8. RevokedStaysOut'
  BY <1>1, <1>4 DEF KeyInv, RevokedStaysOut
<1>9. EnrolledDurable'
  BY <1>1, <1>4 DEF KeyInv, EnrolledDurable
<1>10. Holders'
  BY <1>1 DEF KeyInv, Holders, Buys, Present
<1>11. NotEmpty'
  BY <1>1, <1>4 DEF KeyInv, NotEmpty
<1>12. CodeBuysOne'
  <2>1. ASSUME NEW x \in mem.devices \cup disk.devices \cup log.granted
        PROVE  log'.bought[x] = log.bought[x] /\ log.bought[x] # c
    BY <1>3, <1>4, <2>1 DEF Bought
  <2>2. log'.bought[d] = c
    BY <1>3
  <2> SUFFICES ASSUME NEW held \in {mem'.devices, disk'.devices, log'.granted},
                      NEW x \in held, NEW y \in held,
                      log'.bought[x] = log'.bought[y]
               PROVE  x = y
    BY DEF CodeBuysOne
  <2>3. PICK old \in {mem.devices, disk.devices, log.granted} :
          held \subseteq old \cup {d}
    BY <1>1
  <2>4. CASE x = d \/ y = d
    BY <2>1, <2>2, <2>3, <2>4
  <2>5. CASE x # d /\ y # d
    BY <2>1, <2>3, <2>5 DEF KeyInv, CodeBuysOne
  <2> QED BY <2>4, <2>5
<1> QED BY <1>5, <1>6, <1>7, <1>8, <1>9, <1>10, <1>11, <1>12 DEF KeyInv

(* Reloading keeps it: the file alone satisfies what the pair does.        *)
LEMMA ReloadKeeps == ASSUME TypeOK, KeyInv, Reloads PROVE KeyInv'
<1> USE KeyTypes
<1>1. /\ mem' = disk /\ disk' = disk /\ code' = code /\ cred' = cred
      /\ log'.bought = log.bought /\ log'.granted = log.granted
      /\ log'.asked = log.asked /\ log'.gone = log.gone
      /\ log'.undone = log.undone /\ log'.lost = log.lost
      /\ log'.rescued = log.rescued
  BY DEF Reloads, KeyLog
<1>2. Fresh' /\ Once'
  BY <1>1 DEF KeyInv, Fresh, Unused, Once, Bought
<1>3. HalfGone' /\ RevokedStaysOut' /\ EnrolledDurable'
  BY <1>1 DEF KeyInv, HalfGone, RevokedStaysOut, EnrolledDurable
<1>4. Holders' /\ NotEmpty' /\ CodeBuysOne'
  BY <1>1 DEF KeyInv, Holders, NotEmpty, CodeBuysOne
<1> QED BY <1>2, <1>3, <1>4 DEF KeyInv

(* The rescue tool keeps it.                                               *)
LEMMA RescueKeeps ==
  ASSUME TypeOK, KeyInv, NEW d \in Devices, Rescues(d) PROVE KeyInv'
<1> USE KeyTypes
<1>1. /\ mem'.devices = disk.devices \ {d} /\ disk' = mem'
      /\ mem'.codes = disk.codes /\ code' = code /\ cred' = cred
      /\ log'.bought = log.bought /\ log'.granted = log.granted
      /\ log'.asked = log.asked \cup {d} /\ log'.gone = log.gone
      /\ log'.undone = log.undone /\ log'.lost = log.lost
      /\ log'.rescued = TRUE
  BY DEF Rescues
<1>2. Fresh' /\ Once'
  BY <1>1 DEF KeyInv, Fresh, Unused, Once, Bought
<1>3. HalfGone' /\ RevokedStaysOut' /\ EnrolledDurable'
  BY <1>1 DEF KeyInv, HalfGone, RevokedStaysOut, EnrolledDurable
<1>4. Holders' /\ NotEmpty' /\ CodeBuysOne'
  BY <1>1 DEF KeyInv, Holders, NotEmpty, CodeBuysOne
<1> QED BY <1>2, <1>3, <1>4 DEF KeyInv

(* Losing a machine keeps it.                                              *)
LEMMA LossKeeps ==
  ASSUME TypeOK, KeyInv, NEW m \in Machines, Loses(m) PROVE KeyInv'
<1> USE KeyTypes
<1>1. /\ mem' = mem /\ disk' = disk /\ code' = code
      /\ log'.bought = log.bought /\ log'.granted = log.granted
      /\ log'.asked = log.asked /\ log'.gone = log.gone
      /\ log'.undone = log.undone /\ log'.lost = log.lost \cup {cred[m]}
      /\ log'.rescued = log.rescued
  BY DEF Loses
<1>2. Fresh' /\ Once'
  BY <1>1 DEF KeyInv, Fresh, Unused, Once, Bought
<1>3. HalfGone' /\ RevokedStaysOut' /\ EnrolledDurable'
  BY <1>1 DEF KeyInv, HalfGone, RevokedStaysOut, EnrolledDurable
<1>4. \A x \in Machines : x # m => cred'[x] = cred[x]
  BY DEF Loses
<1>5. Holders' /\ NotEmpty' /\ CodeBuysOne'
  BY <1>1, <1>4 DEF KeyInv, Holders, NotEmpty, CodeBuysOne
<1> QED BY <1>2, <1>3, <1>5 DEF KeyInv

(* It holds at the start.                                                  *)
LEMMA KeyStart == Init => KeyInv /\ Listed
<1> SUFFICES ASSUME Init PROVE KeyInv /\ Listed
  OBVIOUS
<1>1. ASSUME NEW holder \in [Machines -> Devices \cup {None}], InitWith(holder),
             \A x, y \in Machines :
               holder[x] # None /\ holder[y] # None => holder[x] = holder[y]
      PROVE  KeyInv /\ Listed
  <2> DEFINE enrolled == {holder[m] : m \in Machines} \ {None}
  <2>1. /\ mem.devices = enrolled /\ disk = mem
        /\ \A c \in Codes : mem.codes[c] = None
        /\ log.granted = enrolled /\ log.gone = {} /\ cred = holder
        /\ log.asked = {} /\ log.undone = {}
        /\ \A d \in Devices : log.bought[d] = IF d \in enrolled THEN Earlier ELSE None
    BY <1>1 DEF Init, InitWith
  <2>2. /\ \A x, y \in enrolled : x = y
        /\ enrolled \subseteq Devices
    BY <1>1
  <2> HIDE DEF enrolled
  <2>3. Fresh /\ Once
    BY <2>1, <2>2, NoneAssumption DEF Fresh, Unused, Once, Bought
  <2>4. HalfGone /\ NotEmpty /\ CodeBuysOne /\ RevokedStaysOut /\ EnrolledDurable
    BY <2>1, <2>2 DEF HalfGone, NotEmpty, CodeBuysOne, RevokedStaysOut, EnrolledDurable
  <2>5. Holders
    BY <2>1 DEF Holders, enrolled
  <2>6. Listed
    BY DEF Init, Listed
  <2> QED BY <2>3, <2>4, <2>5, <2>6 DEF KeyInv
<1>2. CASE InitWith([m \in Machines |-> None])
  <2>1. [m \in Machines |-> None] \in [Machines -> Devices \cup {None}]
    OBVIOUS
  <2> QED BY <1>1, <1>2, <2>1
<1>3. ASSUME NEW h \in Machines, NEW d \in Devices,
             InitWith([m \in Machines |-> IF m = h THEN d ELSE None])
      PROVE  KeyInv /\ Listed
  <2>1. [m \in Machines |-> IF m = h THEN d ELSE None]
          \in [Machines -> Devices \cup {None}]
    OBVIOUS
  <2> QED BY <1>1, <1>3, <2>1
<1> QED BY <1>2, <1>3 DEF Init

(* What is listed stays listed.                                            *)
LEMMA ListedKeeps ==
  ASSUME TypeOK, TypeOK', Listed, KeyStep, NamesListed PROVE Listed'
<1>1. \A d \in Devices : ~Unused(d) => log'.bought[d] # None
  BY KeyTypes, NoneAssumption
     DEF KeyStep, Tame, Reloads, Drops, Rescues, Buys, Loses, KeyLog, Unused
<1>2. ASSUME NEW n \in Nonces, reqs'[n] # None
      PROVE  log'.bought[reqs'[n].arg] # None
  <2>1. reqs'[n].arg \in Devices
    BY <1>2 DEF TypeOK, Requests
  <2>2. ~Unused(reqs'[n].arg)
    BY <1>2 DEF Listed, NamesListed
  <2> QED BY <1>1, <2>1, <2>2
<1>3. ASSUME NEW m \in Machines, call'[m] # None, call'[m].kind # "enrol"
      PROVE  log'.bought[call'[m].arg] # None
  <2>1. call'[m].arg \in Devices
    BY <1>3 DEF TypeOK, Calls
  <2>2. ~Unused(call'[m].arg)
    BY <1>3 DEF Listed, NamesListed
  <2> QED BY <1>1, <2>1, <2>2
<1> QED BY <1>2, <1>3 DEF Listed, Unused

(* Whatever step is taken, codes and devices stay as they should.          *)
LEMMA KeyNext ==
  ASSUME TypeOK, Listed, KeyInv, [Next]_vars
  PROVE  Listed' /\ KeyInv'
<1>1. TypeOK' /\ KeyStep /\ NamesListed
  BY NextType, StepKinds, StepNames
<1>2. Listed'
  BY <1>1, ListedKeeps
<1>3. KeyInv'
  BY <1>1, TameKeeps, DropKeeps, BuyKeeps, ReloadKeeps, RescueKeeps, LossKeeps
     DEF KeyStep
<1> QED BY <1>2, <1>3

(* The three together are inductive.                                       *)
LEMMA KeysHold == Spec => [](TypeOK /\ Listed /\ KeyInv)
<1>1. Init => TypeOK /\ Listed /\ KeyInv
  BY InitType, KeyStart
<1>2. TypeOK /\ Listed /\ KeyInv /\ [Next]_vars => (TypeOK /\ Listed /\ KeyInv)'
  BY NextType, KeyNext
<1> QED BY <1>1, <1>2, PTL DEF Spec

(* A code buys one device, whatever is lost, repeated or restarted.        *)
THEOREM OneDevicePerCode == Spec => []CodeBuysOne
<1>1. KeyInv => CodeBuysOne
  BY DEF KeyInv
<1> QED BY <1>1, KeysHold, PTL

(* A device whose removal was answered stays out, unless an earlier        *)
(* removal of it had failed to save.                                       *)
THEOREM RevocationHolds == Spec => []RevokedStaysOut
<1>1. KeyInv => RevokedStaysOut
  BY DEF KeyInv
<1> QED BY <1>1, KeysHold, PTL

(* A granted device stays until somebody asks for its removal.             *)
THEOREM EnrolmentDurable == Spec => []EnrolledDurable
<1>1. KeyInv => EnrolledDurable
  BY DEF KeyInv
<1> QED BY <1>1, KeysHold, PTL

(* Removals through the server never leave a running server with keys      *)
(* nobody holds: some device is enrolled (NotEmpty) and its key is held.   *)
THEOREM NeverLockedOut == Spec => []StillReachable
<1>1. TypeOK /\ KeyInv => StillReachable
  <2> SUFFICES ASSUME TypeOK, KeyInv, log.granted # {}, ~log.rescued,
                      log.lost \cup log.undone = {}
               PROVE  \E m \in Machines : cred[m] \in mem.devices
    BY DEF StillReachable
  <2>1. PICK d \in mem.devices : TRUE
    BY DEF KeyInv, NotEmpty
  <2>2. PICK m \in Machines : cred[m] = d
    BY <2>1 DEF KeyInv, Holders
  <2> QED BY <2>1, <2>2
<1> QED BY <1>1, KeysHold, PTL

-----------------------------------------------------------------------------
(* Requests and the bootstrap code.  Most steps leave alone what the two   *)
(* invariants below speak of, or at most sign a fresh request.             *)

(* A nonce is remembered from its use on, never before, and its request    *)
(* was not dated further ahead than the window allows.                     *)
NonceInv ==
  \A n \in Nonces :
    /\ seen[n] = None => log.ran[n] = 0
    /\ seen[n] # None => /\ log.ran[n] = 1 /\ reqs[n] # None
                         /\ reqs[n].ts <= seen[n] + Future

(* An outstanding bootstrap request has not been printed for.              *)
BootInv ==
  IF sentinel THEN log.printed < log.touched ELSE log.printed <= log.touched

(* What signing, answering and typing leave alone.                         *)
Quiet ==
  /\ seen' = seen /\ log'.ran = log.ran
  /\ \A n \in Nonces : reqs[n] # None => reqs'[n] = reqs[n]
  /\ sentinel' = sentinel
  /\ log'.touched = log.touched /\ log'.printed = log.printed

(* A quiet step keeps both.                                                *)
LEMMA QuietKeeps ==
  ASSUME TypeOK, NonceInv, BootInv, Quiet PROVE NonceInv' /\ BootInv'
<1>1. NonceInv'
  BY DEF NonceInv, Quiet
<1>2. BootInv'
  BY DEF BootInv, Quiet
<1> QED BY <1>1, <1>2

(* Every step keeps both.                                                  *)
LEMMA CountsNext ==
  ASSUME TypeOK, NonceInv, BootInv, [Next]_vars
  PROVE  NonceInv' /\ BootInv'
<1> USE DEF process, machines
<1>0. /\ log \in Log /\ log.ran \in [Nonces -> Nat]
      /\ log.touched \in Nat /\ log.printed \in Nat /\ now \in Nat
      /\ sentinel \in BOOLEAN /\ seen \in [Nonces -> Nat \cup {None}]
  BY DEF TypeOK, Log
<1>1. CASE UNCHANGED vars
  BY <1>1, QuietKeeps DEF vars, Quiet
<1>2. ASSUME NEW n \in Nonces, Authenticate(n) PROVE NonceInv' /\ BootInv'
  <2>1. /\ InWindow(reqs[n].ts) /\ FreshNonce(n) /\ reqs[n] # None
        /\ reqs' = reqs /\ sentinel' = sentinel
        /\ seen' = [seen EXCEPT ![n] = now]
    BY <1>2 DEF Authenticate, Accepts
  <2>2. /\ log'.touched = log.touched /\ log'.printed = log.printed
        /\ log'.ran = [log.ran EXCEPT ![n] = @ + 1]
    BY <1>0, <1>2 DEF Authenticate, Log
  <2>3. reqs[n].ts \in Nat /\ {Skew, Future} \subseteq Nat
    BY <2>1, RequestFields, ClockAssumption
  <2>4. seen[n] = None
    <3>1. CASE seen[n] # None
      <4>1. seen[n] \in Nat /\ reqs[n].ts <= seen[n] + Future
        BY <1>0, <3>1 DEF NonceInv
      <4> QED BY <1>0, <2>1, <2>3, <3>1, <4>1 DEF FreshNonce, InWindow
    <3> QED BY <3>1
  <2>5. log'.ran[n] = 1 /\ seen'[n] = now /\ reqs[n].ts <= now + Future
    BY <1>0, <2>1, <2>2, <2>4 DEF NonceInv, InWindow
  <2>6. \A x \in Nonces : x # n => seen'[x] = seen[x] /\ log'.ran[x] = log.ran[x]
    BY <1>0, <2>1, <2>2
  <2>7. NonceInv'
    BY <1>0, <2>1, <2>5, <2>6, NoneAssumption DEF NonceInv
  <2> QED BY <2>1, <2>2, <2>7 DEF BootInv
<1>3. ASSUME NEW n \in Nonces, Refuse(n) PROVE Quiet
  BY <1>3 DEF Refuse, Answer, Quiet
<1>4. ASSUME NEW n \in Nonces, MintCode(n) PROVE Quiet
  <2>1. seen' = seen /\ reqs' = reqs /\ sentinel' = sentinel
    BY <1>4 DEF MintCode, Answer
  <2>2. /\ log'.ran = log.ran /\ log'.touched = log.touched
        /\ log'.printed = log.printed
    BY <1>0, <1>4 DEF MintCode, SameCode, NewCodeFor, Log
  <2> QED BY <2>1, <2>2 DEF Quiet
<1>5. ASSUME NEW n \in Nonces, ForgetDevice(n) PROVE Quiet
  <2>1. seen' = seen /\ reqs' = reqs /\ sentinel' = sentinel
    BY <1>5 DEF ForgetDevice, AlreadyGone, LastDevice, Removed, Answer
  <2>2. /\ log'.ran = log.ran /\ log'.touched = log.touched
        /\ log'.printed = log.printed
    BY <1>0, <1>5 DEF ForgetDevice, AlreadyGone, LastDevice, Removed, Log
  <2> QED BY <2>1, <2>2 DEF Quiet
<1>6. ASSUME NEW n \in Nonces, RenameDevice(n) PROVE Quiet
  BY <1>6 DEF RenameDevice, Answer, Quiet
<1>7. ASSUME NEW m \in Machines, Enrol(m) PROVE Quiet
  <2>1. seen' = seen /\ reqs' = reqs /\ sentinel' = sentinel
    BY <1>7 DEF Enrol
  <2>2. /\ log'.ran = log.ran /\ log'.touched = log.touched
        /\ log'.printed = log.printed
    BY <1>0, <1>7 DEF Enrol, BadCode, Redeem, Log
  <2> QED BY <2>1, <2>2 DEF Quiet
<1>8. CASE Crash
  <2>1. /\ log'.touched = log.touched /\ log'.printed = log.printed
        /\ log'.ran = [n \in Nonces |-> 0]
    BY <1>0, <1>8 DEF Crash, Log
  <2>2. sentinel' = sentinel /\ seen' = [n \in Nonces |-> None]
    BY <1>8 DEF Crash, Stopped
  <2> QED BY <2>1, <2>2 DEF NonceInv, BootInv
<1>9. CASE BootEmpty \/ BootFatal \/ BootPlain
  BY <1>9, QuietKeeps DEF BootEmpty, BootFatal, BootPlain, Quiet
<1>10. CASE BootAsked
  <2>1. seen' = seen /\ reqs' = reqs /\ sentinel
    BY <1>10 DEF BootAsked
  <2>2. CASE NotConsumed
    BY <1>10, <2>1, <2>2, QuietKeeps DEF NotConsumed, Quiet
  <2>3. ASSUME NEW ok \in BOOLEAN, sentinel' = FALSE, Printed(ok)
        PROVE  NonceInv' /\ BootInv'
    <3>1. /\ log'.ran = log.ran /\ log'.touched = log.touched
          /\ log'.printed \in {log.printed, log.printed + 1}
      BY <1>0, <2>3 DEF Printed, Log
    <3>2. NonceInv'
      BY <2>1, <3>1 DEF NonceInv
    <3>3. log.printed < log.touched
      BY <2>1 DEF BootInv
    <3>4. log'.printed <= log'.touched
      BY <1>0, <3>1, <3>3
    <3> QED BY <2>3, <3>2, <3>4 DEF BootInv
  <2> QED BY <1>10, <2>2, <2>3 DEF BootAsked
<1>11. CASE Touch
  <2>1. /\ log'.ran = log.ran /\ log'.touched = log.touched + 1
        /\ log'.printed = log.printed
    BY <1>0, <1>11 DEF Touch, Log
  <2>2. NonceInv'
    BY <1>11, <2>1 DEF Touch, NonceInv
  <2>3. log.printed <= log.touched
    BY <1>11 DEF Touch, BootInv
  <2>4. log'.printed < log'.touched
    BY <1>0, <2>1, <2>3
  <2> QED BY <1>11, <2>2, <2>4 DEF Touch, BootInv
<1>12. CASE Tick
  BY <1>12, QuietKeeps DEF Tick, Quiet
<1>13. ASSUME NEW d \in Devices, Rescue(d) PROVE Quiet
  <2>1. /\ log'.ran = log.ran /\ log'.touched = log.touched
        /\ log'.printed = log.printed
    BY <1>0, <1>13 DEF Rescue, Log
  <2> QED BY <1>13, <2>1 DEF Rescue, Quiet
<1>14. ASSUME NEW m \in Machines, NEW c \in Codes, StartEnrol(m, c) PROVE Quiet
  BY <1>14 DEF StartEnrol, Quiet
<1>15. ASSUME NEW m \in Machines, NEW kind \in Kinds, NEW d \in Devices,
              StartCall(m, kind, d)
       PROVE  Quiet
  BY <1>15, SignKeeps DEF StartCall, Quiet
<1>16. ASSUME NEW m \in Machines, Thrown(m) PROVE Quiet
  <2>1. \A n \in Nonces : reqs[n] # None => reqs'[n] = reqs[n]
    BY <1>16, SignKeeps, CallFields DEF Thrown
  <2> QED BY <1>16, <2>1 DEF Thrown, Quiet
<1>17. ASSUME NEW m \in Machines, Wipe(m) PROVE Quiet
  <2>1. /\ log'.ran = log.ran /\ log'.touched = log.touched
        /\ log'.printed = log.printed
    BY <1>0, <1>17 DEF Wipe, Log
  <2> QED BY <1>17, <2>1 DEF Wipe, Quiet
<1> QED BY <1>1, <1>2, <1>3, <1>4, <1>5, <1>6, <1>7, <1>8, <1>9, <1>10, <1>11,
           <1>12, <1>13, <1>14, <1>15, <1>16, <1>17, QuietKeeps
        DEF Next, Server, People

(* Both hold throughout.                                                   *)
LEMMA CountsHold == Spec => [](TypeOK /\ NonceInv /\ BootInv)
<1>1. Init => TypeOK /\ NonceInv /\ BootInv
  <2> SUFFICES ASSUME Init PROVE NonceInv /\ BootInv
    BY InitType
  <2>1. /\ log.touched = 0 /\ log.printed = 0 /\ ~sentinel
        /\ \A n \in Nonces : log.ran[n] = 0 /\ seen[n] = None
    BY DEF Init, InitWith
  <2> QED BY <2>1 DEF NonceInv, BootInv
<1>2. TypeOK /\ NonceInv /\ BootInv /\ [Next]_vars
        => (TypeOK /\ NonceInv /\ BootInv)'
  BY NextType, CountsNext
<1> QED BY <1>1, <1>2, PTL DEF Spec

(* A process handles a signed request once, for any window, any clock and  *)
(* any number of deliveries: by the time its nonce is forgotten the window *)
(* has passed it.                                                          *)
THEOREM RequestHonouredOnce == Spec => []HonouredOnce
<1>1. TypeOK /\ NonceInv => HonouredOnce
  BY DEF NonceInv, HonouredOnce
<1> QED BY <1>1, CountsHold, PTL

(* A bootstrap request is worth one code.                                  *)
THEOREM OneBootstrapCode == Spec => []BootstrapOnce
<1>1. TypeOK /\ BootInv => BootstrapOnce
  BY DEF BootInv, BootstrapOnce, TypeOK, Log
<1> QED BY <1>1, CountsHold, PTL

-----------------------------------------------------------------------------
(* One code per request.  While a request is inside the window it is       *)
(* remembered: a mint lives as long as the request it was made for can be  *)
(* presented, so an answered request finds its code, in memory and after a *)
(* restart, and one whose save failed has been handled by this process.    *)
Open(x) == reqs[x] # None /\ now <= reqs[x].ts + Skew
Dated(d, x) ==
  d.mints[x] # None => reqs[x] # None /\ reqs[x].ts + Skew <= d.mints[x].expiry
Answered(x) ==
  log.codesOf[x] # {} =>
    /\ reqs[x] # None
    /\ \E c \in Codes : /\ log.codesOf[x] = {c}
                        /\ Open(x) => \A d \in {mem, disk} :
                             d.mints[x] # None /\ d.mints[x].code = c
Handling(x) ==
  x \in running => Open(x) /\ reqs[x].ts <= now + Future /\ seen[x] # None
Apart(x) ==
  Open(x) /\ mem.mints[x] # disk.mints[x] => seen[x] # None /\ x \notin running
MintInv ==
  \A x \in Nonces :
    Dated(mem, x) /\ Dated(disk, x) /\ Answered(x) /\ Handling(x) /\ Apart(x)

(* What most steps leave alone; a store that is read or written changes    *)
(* hands whole.                                                            *)
Calm ==
  /\ now' = now /\ log'.codesOf = log.codesOf /\ seen' = seen /\ running' \subseteq running
  /\ \A x \in Nonces : reqs[x] # None => reqs'[x] = reqs[x]
  /\ \/ mem'.mints = mem.mints  /\ disk'.mints \in {mem.mints, disk.mints}
     \/ mem'.mints = disk.mints /\ disk'.mints = disk.mints

LEMMA CalmKeeps == ASSUME TypeOK, MintInv, Calm PROVE MintInv'
<1> SUFFICES ASSUME NEW x \in Nonces
             PROVE  (Dated(mem, x) /\ Dated(disk, x) /\ Answered(x) /\ Handling(x) /\ Apart(x))'
  BY DEF MintInv
<1>1. Dated(mem, x) /\ Dated(disk, x) /\ Answered(x) /\ Handling(x) /\ Apart(x)
  BY DEF MintInv
<1>2. CASE reqs[x] = None
  <2>1. mem.mints[x] = None /\ disk.mints[x] = None /\ log.codesOf[x] = {} /\ x \notin running
    BY <1>1, <1>2 DEF Dated, Answered, Handling, Open
  <2>2. mem'.mints[x] = None /\ disk'.mints[x] = None /\ log'.codesOf[x] = {} /\ x \notin running'
    BY <2>1 DEF Calm
  <2> QED BY <2>2 DEF Dated, Answered, Handling, Apart
<1>3. CASE reqs[x] # None
  <2>1. reqs'[x] = reqs[x] /\ now' = now /\ seen' = seen /\ log'.codesOf[x] = log.codesOf[x]
    BY <1>3 DEF Calm
  <2>2. Open(x)' = Open(x)
    BY <2>1 DEF Open
  <2>3. CASE mem'.mints = mem.mints /\ disk'.mints \in {mem.mints, disk.mints}
    <3>1. Dated(mem, x)' /\ Dated(disk, x)'
      BY <1>1, <2>1, <2>3 DEF Dated
    <3>2. Answered(x)' /\ Handling(x)' /\ Apart(x)'
      BY <1>1, <2>1, <2>2, <2>3 DEF Answered, Handling, Apart, Calm
    <3> QED BY <3>1, <3>2
  <2>4. CASE mem'.mints = disk.mints /\ disk'.mints = disk.mints
    <3>1. Dated(mem, x)' /\ Dated(disk, x)'
      BY <1>1, <2>1, <2>4 DEF Dated
    <3>2. Answered(x)' /\ Handling(x)' /\ Apart(x)'
      BY <1>1, <2>1, <2>2, <2>4 DEF Answered, Handling, Apart, Calm
    <3> QED BY <3>1, <3>2
  <2> QED BY <2>3, <2>4 DEF Calm
<1> QED BY <1>2, <1>3

(* Minting sweeps no mint of a request still inside the window.            *)
LEMMA SweepSpares ==
  ASSUME TypeOK, MintInv, NEW c \in Codes, NEW n, NEW x \in Nonces, x # n
  PROVE  /\ Open(x) => Minted(mem, c, n).mints[x] = mem.mints[x]
         /\ Minted(mem, c, n).mints[x] \in {mem.mints[x], None}
<1>1. mem \in Stores /\ now \in Nat
  BY DEF TypeOK
<1>2. Minted(mem, c, n).mints[x] =
        IF mem.mints[x] # None /\ Live(mem.mints[x].expiry) THEN mem.mints[x] ELSE None
  <2>1. \A y \in Nonces : Minted(mem, c, n).mints[y] =
          IF y = n THEN [code |-> c, expiry |-> now + CodeTTL]
          ELSE IF mem.mints[y] # None /\ Live(mem.mints[y].expiry)
               THEN mem.mints[y] ELSE None
    BY ONLY <1>1, MintedFields, c \in Codes
  <2> QED BY <2>1
<1>3. ASSUME Open(x), mem.mints[x] # None PROVE Live(mem.mints[x].expiry)
  <2>1. Dated(mem, x)
    BY DEF MintInv
  <2>2. mem.mints[x].expiry \in Nat
    BY <1>1, <1>3 DEF Stores, Mints
  <2>3. reqs[x].ts \in Nat /\ now <= reqs[x].ts + Skew
    BY <1>3, RequestFields DEF Open
  <2> QED BY <1>1, <1>3, <2>1, <2>2, <2>3 DEF Dated, Live
<1> QED BY <1>2, <1>3

(* A request that minting is not for keeps what is said of it.             *)
LEMMA SweepKeeps ==
  ASSUME TypeOK, MintInv, NEW c \in Codes, NEW n, NEW x \in Nonces, x # n,
         mem' = Minted(mem, c, n), disk' \in {mem', disk},
         reqs' = reqs, now' = now, seen' = seen, log'.codesOf[x] = log.codesOf[x],
         x \in running' => x \in running
  PROVE  (Dated(mem, x) /\ Dated(disk, x) /\ Answered(x) /\ Handling(x) /\ Apart(x))'
<1>1. Dated(mem, x) /\ Dated(disk, x) /\ Answered(x) /\ Handling(x) /\ Apart(x)
  BY DEF MintInv
<1>2. /\ Open(x) => mem'.mints[x] = mem.mints[x]
      /\ mem'.mints[x] \in {mem.mints[x], None}
  BY SweepSpares
<1>3. Open(x)' = Open(x)
  BY DEF Open
<1>4. Dated(mem, x)' /\ Dated(disk, x)'
  BY <1>1, <1>2 DEF Dated
<1>5. Answered(x)' /\ Handling(x)' /\ Apart(x)'
  BY <1>1, <1>2, <1>3 DEF Answered, Handling, Apart
<1> QED BY <1>4, <1>5

(* The request that minting is for: it had no code, and its handler ends.  *)
LEMMA NewCodeKeeps ==
  ASSUME TypeOK, MintInv, NEW n \in Nonces, NEW c \in FreshCodes, NEW ok \in BOOLEAN,
         Handled(n), NewCodeFor(n, c, ok), reqs' = reqs, UNCHANGED <<seen, now>>
  PROVE  MintInv'
<1>1. c \in Codes /\ mem \in Stores /\ now \in Nat /\ log \in Log
  BY DEF FreshCodes, TypeOK
<1>2. /\ mem' = Minted(mem, c, n) /\ disk' \in {mem', disk} /\ (ok => disk' = mem')
      /\ running' = running \ {n} /\ n \in running
      /\ log'.codesOf = [log.codesOf EXCEPT ![n] = IF ok THEN @ \cup {c} ELSE @]
  BY <1>1, SaveCases DEF NewCodeFor, Handled, Log
<1>3. \A x \in Nonces : x # n => log'.codesOf[x] = log.codesOf[x]
  BY <1>1, <1>2 DEF Log
<1>4. Dated(mem, n) /\ Dated(disk, n) /\ Answered(n) /\ Handling(n) /\ Apart(n)
  BY DEF MintInv
<1>5. Open(n) /\ reqs[n].ts <= now + Future /\ seen[n] # None
  BY <1>2, <1>4 DEF Handling
<1>6. reqs[n] # None /\ reqs[n].ts \in Nat
  BY <1>5, RequestFields DEF Open
<1>7. mem.mints[n] = None
  <2>1. CASE mem.mints[n] # None
    <3>1. mem.mints[n].expiry \in Nat
      BY <1>1, <2>1 DEF Stores, Mints
    <3> QED BY <1>1, <1>4, <1>5, <1>6, <2>1, <3>1
            DEF Dated, Open, NewCodeFor, Remembered, Live
  <2> QED BY <2>1
<1>8. log.codesOf[n] = {}
  BY <1>4, <1>5, <1>7 DEF Answered
<1>9. mem'.mints[n] = [code |-> c, expiry |-> now + CodeTTL]
  <2>1. \A y \in Nonces : Minted(mem, c, n).mints[y] =
          IF y = n THEN [code |-> c, expiry |-> now + CodeTTL]
          ELSE IF mem.mints[y] # None /\ Live(mem.mints[y].expiry)
               THEN mem.mints[y] ELSE None
    BY ONLY <1>1, MintedFields
  <2> QED BY <1>2, <2>1
<1>10. mem'.mints[n].code = c /\ mem'.mints[n].expiry = now + CodeTTL
  BY <1>9
<1>11. mem'.mints[n] # None
  BY <1>1, <1>9 DEF Mints
<1>12. now' = now /\ seen' = seen /\ n \notin running'
  BY <1>2
<1>13. Dated(mem, n)' /\ Dated(disk, n)'
  <2>1. reqs[n].ts + Skew <= now + CodeTTL
    BY <1>1, <1>5, <1>6
  <2>2. Dated(mem, n)'
    BY <1>6, <1>10, <2>1 DEF Dated
  <2> QED BY <1>2, <1>4, <2>2 DEF Dated
<1>14. Answered(n)'
  <2>1. CASE ok
    <3>1. log'.codesOf[n] = {c} /\ disk' = mem'
      BY <1>1, <1>2, <1>8, <2>1 DEF Log
    <3> QED BY <1>1, <1>6, <1>10, <1>11, <3>1 DEF Answered
  <2>2. CASE ~ok
    <3>1. log'.codesOf[n] = {}
      BY <1>1, <1>2, <1>8, <2>2 DEF Log
    <3> QED BY <3>1 DEF Answered
  <2> QED BY <2>1, <2>2
<1>15. Handling(n)' /\ Apart(n)'
  BY <1>5, <1>12 DEF Handling, Apart
<1>16. ASSUME NEW x \in Nonces, x # n
       PROVE  (Dated(mem, x) /\ Dated(disk, x) /\ Answered(x) /\ Handling(x) /\ Apart(x))'
  BY <1>1, <1>2, <1>3, <1>12, <1>16, SweepKeeps
<1> QED BY <1>13, <1>14, <1>15, <1>16 DEF MintInv

(* A request asked again gets the code it got, which the file has too.     *)
LEMMA SameCodeKeeps ==
  ASSUME TypeOK, MintInv, NEW n \in Nonces,
         Handled(n), SameCode(n), reqs' = reqs, UNCHANGED <<seen, now>>
  PROVE  MintInv'
<1>1. mem \in Stores /\ now \in Nat /\ log \in Log
  BY DEF TypeOK
<1>2. /\ mem' = mem /\ disk' = disk /\ running' = running \ {n} /\ n \in running
      /\ mem.mints[n] # None
      /\ log'.codesOf = [log.codesOf EXCEPT ![n] = @ \cup {mem.mints[n].code}]
  BY <1>1 DEF SameCode, Handled, Remembered, store, Log
<1>3. \A x \in Nonces : x # n => log'.codesOf[x] = log.codesOf[x]
  BY <1>1, <1>2 DEF Log
<1>4. Dated(mem, n) /\ Dated(disk, n) /\ Answered(n) /\ Handling(n) /\ Apart(n)
  BY DEF MintInv
<1>5. Open(n) /\ reqs[n] # None /\ seen[n] # None /\ mem.mints[n] = disk.mints[n]
  BY <1>2, <1>4 DEF Handling, Apart, Open
<1>6. mem.mints[n].code \in Codes
  BY <1>1, <1>2 DEF Stores, Mints
<1>7. log'.codesOf[n] = {mem.mints[n].code}
  BY <1>1, <1>2, <1>4, <1>5 DEF Answered, Log
<1>8. Answered(n)'
  BY <1>2, <1>5, <1>6, <1>7 DEF Answered
<1>9. Dated(mem, n)' /\ Dated(disk, n)' /\ Handling(n)' /\ Apart(n)'
  BY <1>2, <1>4 DEF Dated, Handling, Apart, Open
<1>10. ASSUME NEW x \in Nonces, x # n
       PROVE  (Dated(mem, x) /\ Dated(disk, x) /\ Answered(x) /\ Handling(x) /\ Apart(x))'
  <2>1. Dated(mem, x) /\ Dated(disk, x) /\ Answered(x) /\ Handling(x) /\ Apart(x)
    BY DEF MintInv
  <2>2. log'.codesOf[x] = log.codesOf[x]
    BY <1>3, <1>10
  <2> QED BY <1>2, <2>1, <2>2 DEF Dated, Answered, Handling, Apart, Open
<1> QED BY <1>8, <1>9, <1>10 DEF MintInv

(* A code printed at the start is for no request.                          *)
LEMMA PrintKeeps ==
  ASSUME TypeOK, MintInv, NEW c \in FreshCodes, mem' = Minted(mem, c, None),
         disk' \in {mem', disk}, UNCHANGED <<reqs, now, seen, running>>,
         log'.codesOf = log.codesOf
  PROVE  MintInv'
<1>1. c \in Codes
  BY DEF FreshCodes
<1> SUFFICES ASSUME NEW x \in Nonces
             PROVE  (Dated(mem, x) /\ Dated(disk, x) /\ Answered(x) /\ Handling(x) /\ Apart(x))'
  BY DEF MintInv
<1>2. x # None
  OBVIOUS
<1> QED BY <1>1, <1>2, SweepKeeps

(* A request let through is in the window, and this process has not        *)
(* handled it.                                                             *)
LEMMA AcceptKeeps ==
  ASSUME TypeOK, NonceInv, MintInv, NEW n \in Nonces, Authenticate(n)
  PROVE  MintInv'
<1>1. /\ mem' = mem /\ disk' = disk /\ reqs' = reqs /\ now' = now /\ reqs[n] # None
      /\ running' = running \cup {n} /\ seen' = [seen EXCEPT ![n] = now]
      /\ InWindow(reqs[n].ts) /\ FreshNonce(n)
  BY DEF Authenticate, Accepts, store, machines
<1>2. log'.codesOf = log.codesOf /\ now \in Nat /\ now # None /\ seen \in [Nonces -> Nat \cup {None}]
  BY DEF Authenticate, TypeOK, Log
<1>3. reqs[n].ts \in Nat
  BY <1>1, RequestFields
<1>4. seen[n] = None
  <2>1. CASE seen[n] # None
    <3>1. seen[n] \in Nat /\ reqs[n].ts <= seen[n] + Future
      BY <1>2, <2>1 DEF NonceInv
    <3> QED BY <1>1, <1>2, <1>3, <2>1, <3>1 DEF FreshNonce, InWindow
  <2> QED BY <2>1
<1>5. ASSUME NEW x \in Nonces
      PROVE  (Dated(mem, x) /\ Dated(disk, x) /\ Answered(x) /\ Handling(x) /\ Apart(x))'
  <2>1. Dated(mem, x) /\ Dated(disk, x) /\ Answered(x) /\ Handling(x) /\ Apart(x)
    BY DEF MintInv
  <2>2. Open(x)' = Open(x)
    BY <1>1 DEF Open
  <2>3. Dated(mem, x)' /\ Dated(disk, x)' /\ Answered(x)'
    BY <1>1, <1>2, <2>1, <2>2 DEF Dated, Answered
  <2>4. CASE x # n
    <3>1. seen'[x] = seen[x] /\ (x \in running' => x \in running)
      BY <1>1, <1>2, <2>4
    <3>2. Handling(x)' /\ Apart(x)'
      BY <1>1, <2>1, <2>2, <3>1 DEF Handling, Apart
    <3> QED BY <2>3, <3>2
  <2>5. CASE x = n
    <3>1. seen'[n] # None /\ Open(n) /\ reqs[n].ts <= now + Future
      BY <1>1, <1>2, <1>3 DEF InWindow, Open
    <3>2. Handling(n)'
      BY <1>1, <2>2, <2>5, <3>1 DEF Handling
    <3>3. mem.mints[n] = disk.mints[n]
      BY <1>4, <2>1, <2>5, <3>1 DEF Apart
    <3>4. Apart(n)'
      BY <1>1, <3>3 DEF Apart
    <3> QED BY <2>3, <2>5, <3>2, <3>4
  <2> QED BY <2>4, <2>5
<1> QED BY <1>5 DEF MintInv

(* The server goes down and comes back with what the file holds.           *)
LEMMA CrashKeeps == ASSUME TypeOK, MintInv, Crash PROVE MintInv'
<1>1. /\ mem' = disk /\ disk' = disk /\ reqs' = reqs /\ now' = now /\ running' = {}
      /\ log'.codesOf = log.codesOf
  BY DEF Crash, Stopped, Loaded, machines, TypeOK, Log
<1>2. ASSUME NEW x \in Nonces
      PROVE  (Dated(mem, x) /\ Dated(disk, x) /\ Answered(x) /\ Handling(x) /\ Apart(x))'
  <2>1. Dated(mem, x) /\ Dated(disk, x) /\ Answered(x) /\ Handling(x) /\ Apart(x)
    BY DEF MintInv
  <2>2. Open(x)' = Open(x)
    BY <1>1 DEF Open
  <2> QED BY <1>1, <2>1, <2>2 DEF Dated, Answered, Handling, Apart
<1> QED BY <1>2 DEF MintInv

(* Time passes once nothing is being handled.                              *)
LEMMA TickKeeps == ASSUME TypeOK, MintInv, Tick PROVE MintInv'
<1>1. /\ mem' = mem /\ disk' = disk /\ reqs' = reqs /\ now' = now + 1 /\ running' = {}
      /\ log' = log /\ seen' = seen /\ now \in Nat
  BY DEF Tick, store, process, machines, TypeOK
<1>2. ASSUME NEW x \in Nonces
      PROVE  (Dated(mem, x) /\ Dated(disk, x) /\ Answered(x) /\ Handling(x) /\ Apart(x))'
  <2>1. Dated(mem, x) /\ Dated(disk, x) /\ Answered(x) /\ Handling(x) /\ Apart(x)
    BY DEF MintInv
  <2>2. Open(x)' => Open(x)
    BY <1>1, RequestFields DEF Open
  <2>3. Dated(mem, x)' /\ Dated(disk, x)' /\ Answered(x)'
    BY <1>1, <2>1, <2>2 DEF Dated, Answered
  <2>4. Handling(x)' /\ Apart(x)'
    BY <1>1, <2>1, <2>2 DEF Handling, Apart
  <2> QED BY <2>3, <2>4
<1> QED BY <1>2 DEF MintInv

(* Every step keeps it.                                                    *)
LEMMA MintNext ==
  ASSUME TypeOK, NonceInv, MintInv, [Next]_vars
  PROVE  MintInv'
<1> USE DEF process, machines, store
<1>0. log \in Log /\ mem \in Stores /\ disk \in Stores
  BY DEF TypeOK
<1>1. CASE UNCHANGED vars
  BY <1>1, CalmKeeps DEF vars, Calm
<1>2. ASSUME NEW n \in Nonces, Authenticate(n) PROVE MintInv'
  BY <1>2, AcceptKeeps
<1>3. ASSUME NEW n \in Nonces, Refuse(n) PROVE Calm
  BY <1>3 DEF Refuse, Answer, Calm
<1>4. ASSUME NEW n \in Nonces, MintCode(n) PROVE MintInv'
  <2>1. reqs' = reqs /\ seen' = seen /\ now' = now /\ Handled(n)
    BY <1>4 DEF MintCode, Answer
  <2>2. ASSUME NEW c \in FreshCodes, NEW ok \in BOOLEAN, NewCodeFor(n, c, ok) PROVE MintInv'
    BY <2>1, <2>2, NewCodeKeeps
  <2>3. CASE SameCode(n)
    BY <2>1, <2>3, SameCodeKeeps
  <2> QED BY <1>4, <2>2, <2>3 DEF MintCode
<1>5. ASSUME NEW n \in Nonces, ForgetDevice(n) PROVE Calm
  <2>1. /\ now' = now /\ seen' = seen /\ reqs' = reqs /\ running' \subseteq running
    BY <1>5 DEF ForgetDevice, Handled, AlreadyGone, LastDevice, Removed, Answer
  <2>2. log'.codesOf = log.codesOf
    BY <1>0, <1>5 DEF ForgetDevice, AlreadyGone, LastDevice, Removed, Log
  <2>3. mem'.mints = mem.mints /\ disk'.mints \in {mem.mints, disk.mints}
    <3>1. [mem EXCEPT !.devices = @ \ {reqs[n].arg}].mints = mem.mints
      BY <1>0 DEF Stores
    <3>2. ASSUME NEW ok \in BOOLEAN, Removed(n, reqs[n].arg, ok)
          PROVE  mem'.mints = mem.mints /\ disk'.mints \in {mem.mints, disk.mints}
      BY <3>1, <3>2, SaveCases DEF Removed, ForgetSave
    <3> QED BY <1>5, <3>2 DEF ForgetDevice, AlreadyGone, LastDevice
  <2> QED BY <2>1, <2>2, <2>3 DEF Calm
<1>6. ASSUME NEW n \in Nonces, RenameDevice(n) PROVE Calm
  <2>1. /\ now' = now /\ seen' = seen /\ reqs' = reqs /\ running' \subseteq running
        /\ log' = log
    BY <1>6 DEF RenameDevice, Handled, Answer
  <2>2. mem'.mints = mem.mints /\ disk'.mints \in {mem.mints, disk.mints}
    BY <1>6, SaveCases DEF RenameDevice
  <2> QED BY <2>1, <2>2 DEF Calm
<1>7. ASSUME NEW m \in Machines, Enrol(m) PROVE Calm
  <2>1. /\ now' = now /\ seen' = seen /\ reqs' = reqs /\ running' = running
    BY <1>7 DEF Enrol
  <2>2. log'.codesOf = log.codesOf
    BY <1>0, <1>7 DEF Enrol, BadCode, Redeem, Log
  <2>3. call[m].arg \in Codes
    BY <1>7, CallFields DEF Enrol
  <2>4. CASE BadCode(m, call[m].arg)
    BY <1>0, <2>1, <2>2, <2>4 DEF BadCode, Stores, Calm
  <2>5. ASSUME NEW d \in Devices, NEW ok \in BOOLEAN, NEW heard \in BOOLEAN,
               Redeem(m, call[m].arg, d, ok, heard)
        PROVE  mem'.mints = mem.mints /\ disk'.mints \in {mem.mints, disk.mints}
    <3>1. Save(Redeemed(mem, call[m].arg, d), ok)
      BY <2>5 DEF Redeem
    <3>2. Redeemed(mem, call[m].arg, d).mints = mem.mints
      BY <1>0, <2>3, RedeemedFields
    <3> QED BY <3>1, <3>2, SaveCases
  <2> QED BY <1>7, <2>1, <2>2, <2>4, <2>5 DEF Enrol, Calm
<1>8. CASE Crash
  BY <1>8, CrashKeeps
<1>9. CASE BootEmpty
  <2>1. PICK c \in FreshCodes : Save(Minted(mem, c, None), TRUE)
    BY <1>9 DEF BootEmpty, PrintCode
  <2>2. mem' = Minted(mem, c, None) /\ disk' \in {mem', disk}
    BY <2>1, SaveCases
  <2>3. log' = log /\ UNCHANGED <<reqs, now, seen, running>>
    BY <1>9 DEF BootEmpty
  <2> QED BY <2>2, <2>3, PrintKeeps
<1>10. CASE BootFatal
  <2>1. PICK c \in FreshCodes : disk' = Minted(mem, c, None) /\ mem' = disk'
    BY <1>10 DEF BootFatal
  <2> QED BY <1>10, <2>1, PrintKeeps DEF BootFatal
<1>11. CASE BootPlain
  BY <1>11 , CalmKeeps DEF BootPlain, Calm
<1>12. CASE BootAsked
  <2>1. seen' = seen /\ running' = running /\ now' = now /\ reqs' = reqs
    BY <1>12 DEF BootAsked
  <2>2. CASE NotConsumed
    BY <2>1, <2>2, CalmKeeps DEF NotConsumed, Calm
  <2>3. ASSUME NEW ok \in BOOLEAN, Printed(ok) PROVE MintInv'
    <3>1. PICK c \in FreshCodes : Save(Minted(mem, c, None), ok)
      BY <2>3 DEF Printed, PrintCode
    <3>2. log'.codesOf = log.codesOf
      BY <1>0, <2>3 DEF Printed, Log
    <3> QED BY <2>1, <3>1, <3>2, SaveCases, PrintKeeps
  <2> QED BY <1>12, <2>2, <2>3 DEF BootAsked
<1>13. CASE Touch
  <2>1. log'.codesOf = log.codesOf
    BY <1>0, <1>13 DEF Touch, Log
  <2> QED BY <1>13, <2>1, CalmKeeps DEF Touch, Calm
<1>14. CASE Tick
  BY <1>14, TickKeeps
<1>15. ASSUME NEW d \in Devices, Rescue(d) PROVE Calm
  <2>1. log'.codesOf = log.codesOf
    BY <1>0, <1>15 DEF Rescue, Log
  <2>2. [disk EXCEPT !.devices = @ \ {d}].mints = disk.mints
    BY <1>0 DEF Stores
  <2> QED BY <1>15, <2>1, <2>2 DEF Rescue, Calm
<1>16. ASSUME NEW m \in Machines, NEW c \in Codes, StartEnrol(m, c) PROVE Calm
  BY <1>16 DEF StartEnrol, Calm
<1>17. ASSUME NEW m \in Machines, NEW kind \in Kinds, NEW d \in Devices,
              StartCall(m, kind, d)
       PROVE  Calm
  BY <1>17, SignKeeps DEF StartCall, Calm
<1>18. ASSUME NEW m \in Machines, Thrown(m) PROVE Calm
  <2>1. \A n \in Nonces : reqs[n] # None => reqs'[n] = reqs[n]
    BY <1>18, SignKeeps, CallFields DEF Thrown
  <2> QED BY <1>18, <2>1 DEF Thrown, Calm
<1>19. ASSUME NEW m \in Machines, Wipe(m) PROVE Calm
  <2>1. log'.codesOf = log.codesOf
    BY <1>0, <1>19 DEF Wipe, Log
  <2> QED BY <1>19, <2>1 DEF Wipe, Calm
<1> QED BY <1>1, <1>2, <1>3, <1>4, <1>5, <1>6, <1>7, <1>8, <1>9, <1>10, <1>11, <1>12,
           <1>13, <1>14, <1>15, <1>16, <1>17, <1>18, <1>19, CalmKeeps
        DEF Next, Server, People

(* A signed request is answered with one enrolment code, however often and *)
(* however late it is delivered, whatever saves fail and restarts happen.  *)
THEOREM RequestBuysOneCode == Spec => []OneCodePerRequest
<1>1. Init => TypeOK /\ NonceInv /\ MintInv
  <2> SUFFICES ASSUME Init PROVE NonceInv /\ MintInv
    BY InitType
  <2>1. /\ running = {}
        /\ \A n \in Nonces : /\ log.ran[n] = 0 /\ seen[n] = None /\ log.codesOf[n] = {}
                             /\ mem.mints[n] = None /\ disk.mints[n] = None
    BY DEF Init, InitWith
  <2> QED BY <2>1 DEF NonceInv, MintInv, Dated, Answered, Handling, Apart
<1>2. TypeOK /\ MintInv => OneCodePerRequest
  <2> SUFFICES ASSUME MintInv, NEW n \in Nonces, log.codesOf[n] # {}
               PROVE  \A x, y \in log.codesOf[n] : x = y
    BY DEF OneCodePerRequest
  <2>1. Answered(n)
    BY DEF MintInv
  <2> QED BY <2>1 DEF Answered
<1>3. TypeOK /\ NonceInv /\ MintInv /\ [Next]_vars => MintInv'
  BY MintNext
<1>4. Spec => [](TypeOK /\ NonceInv)
  BY CountsHold, PTL
<1> QED BY <1>1, <1>2, <1>3, <1>4, PTL DEF Spec

=============================================================================
