---------------------------- MODULE HeaderProofs ----------------------------
(***************************************************************************)
(* Header.tla, for every number of machines, pages, passwords, vaults and  *)
(* recovery codes, and every mixture of races, crashes and restores.       *)
(***************************************************************************)
EXTENDS Header, TLAPS

USE BoundsAssumption, NoneAssumption

Ops == {"idle", "setup", "join", "adopt", "change", "sheet", "print"}

-----------------------------------------------------------------------------
(* What a handler took with it: the header it will land, the code it shows,*)
(* the salt of the header it started from.                                 *)
JobShape ==
  \A m \in Machines, p \in Pages :
    LET j == job[m][p]
    IN  /\ j.op \in {"join", "adopt", "change"} => j.hdr \in Headers
        /\ j.op \in {"adopt", "change"} => j.base \in Salts
        /\ j.op \in {"setup", "join"} => j.base = None
        /\ j.op = "sheet" => j.code \in RecCodes
        /\ j.op \in {"adopt", "change", "sheet", "print"} => mem[m] # None
SyncShape ==
  \A m \in Machines :
    /\ sync[m].at = "put" => sync[m].hdr \in Headers
    /\ sync[m].at # "idle" => mem[m] # None
TypeInv == TypeOK /\ JobShape /\ SyncShape

(* Building headers and vaults.                                            *)
LEMMA HeaderFields ==
  ASSUME NEW h \in Headers
  PROVE  /\ h.key \in Keys /\ h.gen \in Nat /\ h.salt \in Salts
         /\ h.rec \in RecCodes \cup {None} /\ h.bio \in BOOLEAN
         /\ h.proof \in Proofs /\ Seal(h) \in Proofs
         /\ Portable(h) \in Headers
         /\ \A b \in BOOLEAN : [h EXCEPT !.bio = b] \in Headers
         /\ \A c \in RecCodes : [h EXCEPT !.rec = c] \in Headers
         /\ \A s \in Salts : Rewrapped(h, s) \in Headers
<1>1. /\ h.key \in Keys /\ h.gen \in Nat /\ h.salt \in Salts
      /\ h.rec \in RecCodes \cup {None} /\ h.bio \in BOOLEAN
      /\ h.proof \in Proofs /\ Seal(h) \in Proofs
  BY DEF Headers, Proofs, Seal
<1>2. \A b \in BOOLEAN : [h EXCEPT !.bio = b] \in Headers
  BY DEF Headers
<1>3. \A c \in RecCodes : [h EXCEPT !.rec = c] \in Headers
  BY DEF Headers
<1>4. ASSUME NEW s \in Salts PROVE Rewrapped(h, s) \in Headers
  <2> DEFINE g == [h EXCEPT !.gen = @ + 1, !.salt = s]
  <2>0. h.gen + 1 \in Nat
    BY <1>1
  <2>1. g \in Headers
    BY <2>0 DEF Headers
  <2>2. Seal(g) \in Proofs
    BY <2>1 DEF Headers, Proofs, Seal
  <2>3. [g EXCEPT !.proof = Seal(g)] \in Headers
    BY <2>1, <2>2 DEF Headers
  <2> QED BY <2>3 DEF Rewrapped, Proven
<1> QED BY <1>1, <1>2, <1>3, <1>4 DEF Portable

LEMMA NewHeader ==
  ASSUME NEW k \in Keys, NEW s \in Salts
  PROVE  Header(k, 0, s, None, FALSE) \in Headers
BY DEF Header, Headers, Proofs

LEMMA VaultFields ==
  ASSUME NEW v \in Vaults
  PROVE  /\ v.meta \in Headers /\ v.pending \in Headers \cup {None}
         /\ v.holds \in SUBSET Keys
         /\ \A h \in Headers : [v EXCEPT !.meta = h] \in Vaults
         /\ \A h \in Headers \cup {None} : [v EXCEPT !.pending = h] \in Vaults
         /\ \A h \in Headers : [v EXCEPT !.meta = h, !.pending = None] \in Vaults
         /\ \A S \in SUBSET Keys : [v EXCEPT !.holds = S] \in Vaults
BY DEF Vaults

LEMMA JobFields ==
  ASSUME TypeInv, NEW m \in Machines, NEW p \in Pages
  PROVE  /\ job[m][p] \in Jobs
         /\ job[m][p].op \in {"join", "adopt", "change"} => job[m][p].hdr \in Headers
         /\ job[m][p].op \in {"adopt", "change"} => job[m][p].base \in Salts
         /\ job[m][p].op \in {"setup", "join"} => job[m][p].base = None
         /\ job[m][p].op = "sheet" => job[m][p].code \in RecCodes
         /\ job[m][p].op \in {"adopt", "change", "sheet", "print"} => mem[m] # None
BY DEF TypeInv, TypeOK, JobShape

(* Beginning and ending a handler.                                         *)
GoodJob(j) ==
  /\ j \in Jobs
  /\ j.op \in {"join", "adopt", "change"} => j.hdr \in Headers
  /\ j.op \in {"adopt", "change"} => j.base \in Salts
  /\ j.op \in {"setup", "join"} => j.base = None
  /\ j.op = "sheet" => j.code \in RecCodes

LEMMA IdleType == GoodJob(Idle) /\ Resting \in Syncs /\ HeaderDone \in Syncs
                  /\ Resting.at = "idle" /\ HeaderDone.at = "records"
BY DEF GoodJob, Idle, Jobs, Resting, HeaderDone, Syncs

VaultsStayPut == \A m \in Machines : mem[m] # None => mem'[m] # None

LEMMA BeginType ==
  ASSUME TypeInv, NEW m \in Machines, NEW p \in Pages, NEW j, GoodJob(j),
         j.op \in {"adopt", "change", "sheet", "print"} => mem'[m] # None,
         VaultsStayPut, job' = [job EXCEPT ![m][p] = j]
  PROVE  job' \in [Machines -> [Pages -> Jobs]] /\ JobShape'
<1>1. job \in [Machines -> [Pages -> Jobs]]
  BY DEF TypeInv, TypeOK
<1>2. \A n \in Machines, q \in Pages :
        job'[n][q] = IF n = m /\ q = p THEN j ELSE job[n][q]
  BY <1>1
<1>3. job' \in [Machines -> [Pages -> Jobs]]
  BY <1>1 DEF GoodJob
<1>4. \A n \in Machines, q \in Pages : GoodJob(job'[n][q])
  BY <1>2, JobFields DEF GoodJob
<1>5. \A n \in Machines, q \in Pages :
        job'[n][q].op \in {"adopt", "change", "sheet", "print"} => mem'[n] # None
  BY <1>2, JobFields DEF VaultsStayPut
<1> QED BY <1>3, <1>4, <1>5 DEF JobShape, GoodJob

(* A vault lands in memory and is on its way to storage.                   *)
LEMMA LandType ==
  ASSUME TypeInv, NEW m \in Machines, NEW v \in Vaults \cup {None},
         MemIs(m, v), Persist(m, v)
  PROVE  /\ mem' \in [Machines -> Vaults \cup {None}]
         /\ writing' \in [Machines -> Vaults \cup {None}]
         /\ mem' = [mem EXCEPT ![m] = v]
BY DEF TypeInv, TypeOK, MemIs, Persist


(* What is not at an index a step writes.                                  *)
LEMMA LogType ==
  ASSUME log \in Log
  PROVE  /\ log.retired \in [Machines -> SUBSET Salts] /\ log.late \in SUBSET Machines
         /\ log.kept \in [Machines -> RecCodes \cup {None}]
         /\ log.told \in [Machines -> RecCodes \cup {None}]
         /\ log.printed \in SUBSET Machines /\ log.vouched \in [Machines -> Nat]
         /\ log.seenGen \in [Machines -> Nat]
         /\ log.past \in {"whole", "restored", "rewritten"}
BY DEF Log

LEMMA InitType == Init => TypeInv
<1> SUFFICES ASSUME Init PROVE TypeInv
  OBVIOUS
<1> DEFINE h == Header(1, 0, 1, None, FALSE)
           v == [meta |-> h, pending |-> None, holds |-> {1}]
<1>1. JobShape /\ SyncShape /\ job \in [Machines -> [Pages -> Jobs]]
      /\ sync \in [Machines -> Syncs]
  BY IdleType DEF Init, JobShape, SyncShape, GoodJob, Idle
<1>2. log \in Log
  BY DEF Init, Log
<1>3. CASE /\ mem = [m \in Machines |-> None]
           /\ srv = [meta |-> None, seq |-> 0, holds |-> {}]
           /\ drawn = [salt |-> 0, code |-> 0, key |-> 0]
  <2>1. srv \in Stores
    BY <1>3 DEF Stores
  <2>2. seen \in [Machines -> Nat]
    BY <1>3 DEF Init
  <2>3. drawn \in [salt : 0 .. MaxSalts, code : 0 .. MaxCodes, key : 0 .. MaxVaults]
    BY <1>3
  <2>4. mem \in [Machines -> Vaults \cup {None}]
    BY <1>3
  <2> QED BY <1>1, <1>2, <2>1, <2>2, <2>3, <2>4 DEF Init, TypeInv, TypeOK
<1>4. ASSUME NEW having \in SUBSET Machines,
             mem = [m \in Machines |-> IF m \in having THEN v ELSE None],
             srv = [meta |-> h, seq |-> 1, holds |-> {1}],
             drawn = [salt |-> 1, code |-> 0, key |-> 1]
      PROVE  TypeInv
  <2>1. 1 \in Keys /\ 1 \in Salts
    BY <1>4 DEF Keys, Salts
  <2>2. h \in Headers
    BY <2>1, NewHeader
  <2> HIDE DEF h
  <2>3. v \in Vaults /\ srv \in Stores
    BY <1>4, <2>1, <2>2 DEF Vaults, Stores
  <2>4. seen \in [Machines -> Nat]
    BY <1>4 DEF Init
  <2> HIDE DEF v
  <2>5. mem \in [Machines -> Vaults \cup {None}]
    BY <1>4, <2>3
  <2>6. drawn \in [salt : 0 .. MaxSalts, code : 0 .. MaxCodes, key : 0 .. MaxVaults]
    BY <1>4
  <2> QED BY <1>1, <1>2, <2>3, <2>4, <2>5, <2>6 DEF Init, TypeInv, TypeOK
<1> QED BY <1>3, <1>4 DEF Init


(* A page's handlers keep the types: first those that begin one.           *)
LEMMA StartType ==
  ASSUME TypeInv, NEW m \in Machines, NEW p \in Pages,
         \/ StartSetup(m, p) \/ StartJoin(m, p) \/ StartAdopt(m, p)
         \/ StartChange(m, p) \/ StartSheet(m, p) \/ StartPrint(m, p)
  PROVE  TypeInv'
<1> USE DEF TypeInv, TypeOK, server, local
<1>1. /\ srv \in Stores /\ mem[m] \in Vaults \cup {None}
      /\ drawn \in [salt : 0 .. MaxSalts, code : 0 .. MaxCodes, key : 0 .. MaxVaults]
  OBVIOUS
<1>2. ASSUME NEW j, GoodJob(j), Begin(m, p, j),
             j.op \in {"adopt", "change", "sheet", "print"} => mem[m] # None,
             UNCHANGED <<server, local, sync, seen, floor, log>>,
             drawn' \in [salt : 0 .. MaxSalts, code : 0 .. MaxCodes, key : 0 .. MaxVaults]
      PROVE  TypeInv'
  <2>1. job' \in [Machines -> [Pages -> Jobs]] /\ JobShape'
    BY <1>2, BeginType DEF Begin, VaultsStayPut
  <2>2. jobs' \in 0 .. MaxJobs
    BY <1>2 DEF Begin, Counted
  <2> QED BY <1>2, <2>1, <2>2 DEF SyncShape
<1>3. CASE StartSetup(m, p)
  <2>1. GoodJob([Idle EXCEPT !.op = "setup"])
    BY DEF GoodJob, Jobs, Idle
  <2> QED BY <1>1, <1>2, <1>3, <2>1 DEF StartSetup, Idle
<1>4. CASE StartJoin(m, p)
  <2>1. srv.meta \in Headers
    BY <1>1, <1>4 DEF StartJoin, Stores
  <2>2. Portable(srv.meta) \in Headers
    BY <2>1, HeaderFields
  <2>3. GoodJob([Idle EXCEPT !.op = "join", !.hdr = Portable(srv.meta)])
    BY <2>2 DEF GoodJob, Jobs, Idle
  <2> QED BY <1>1, <1>2, <1>4, <2>3 DEF StartJoin, Idle
<1>5. CASE StartAdopt(m, p)
  <2>1. mem[m].pending \in Headers /\ mem[m].meta.salt \in Salts
    BY <1>1, <1>5, VaultFields, HeaderFields DEF StartAdopt
  <2>2. GoodJob([Idle EXCEPT !.op = "adopt", !.hdr = mem[m].pending,
                             !.base = mem[m].meta.salt])
    BY <2>1 DEF GoodJob, Jobs, Idle
  <2> QED BY <1>1, <1>2, <1>5, <2>2 DEF StartAdopt
<1>6. CASE StartChange(m, p)
  <2>1. mem[m].meta \in Headers /\ mem[m].meta.salt \in Salts
    BY <1>1, <1>6, VaultFields, HeaderFields DEF StartChange
  <2>2. drawn.salt + 1 \in Salts
    BY <1>1, <1>6 DEF StartChange, Salts
  <2>3. Rewrapped(mem[m].meta, drawn.salt + 1) \in Headers
    BY <2>1, <2>2, HeaderFields
  <2>4. GoodJob([Idle EXCEPT !.op = "change", !.base = mem[m].meta.salt,
                    !.hdr = Rewrapped(mem[m].meta, drawn.salt + 1)])
    BY <2>1, <2>3 DEF GoodJob, Jobs, Idle
  <2>5. drawn' \in [salt : 0 .. MaxSalts, code : 0 .. MaxCodes, key : 0 .. MaxVaults]
    BY <1>1, <1>6 DEF StartChange
  <2> QED BY <1>2, <1>6, <2>4, <2>5 DEF StartChange
<1>7. CASE StartSheet(m, p)
  <2>1. drawn.code + 1 \in RecCodes
    BY <1>1, <1>7 DEF StartSheet, RecCodes
  <2>2. GoodJob([Idle EXCEPT !.op = "sheet", !.code = drawn.code + 1])
    BY <2>1 DEF GoodJob, Jobs, Idle
  <2>3. drawn' \in [salt : 0 .. MaxSalts, code : 0 .. MaxCodes, key : 0 .. MaxVaults]
    BY <1>1, <1>7 DEF StartSheet
  <2> QED BY <1>2, <1>7, <2>2, <2>3 DEF StartSheet
<1>8. CASE StartPrint(m, p)
  <2>1. mem[m].meta.salt \in Salts
    BY <1>1, <1>8, VaultFields, HeaderFields DEF StartPrint
  <2>2. GoodJob([Idle EXCEPT !.op = "print", !.base = mem[m].meta.salt])
    BY <2>1 DEF GoodJob, Jobs, Idle
  <2> QED BY <1>1, <1>2, <1>8, <2>2 DEF StartPrint
<1> QED BY <1>3, <1>4, <1>5, <1>6, <1>7, <1>8

(* A handler is done, and what it landed is a vault.                       *)
LEMMA EndType ==
  ASSUME TypeInv, NEW m \in Machines, NEW p \in Pages,
         End(m, p), UNCHANGED <<server, disk, sync, floor>>,
         seen' \in [Machines -> Nat], log' \in Log,
         drawn' \in [salt : 0 .. MaxSalts, code : 0 .. MaxCodes, key : 0 .. MaxVaults],
         mem' \in [Machines -> Vaults \cup {None}], VaultsStayPut,
         writing' \in [Machines -> Vaults \cup {None}]
  PROVE  TypeInv'
<1>1. job' \in [Machines -> [Pages -> Jobs]] /\ JobShape'
  BY BeginType, IdleType DEF End, Idle
<1>2. SyncShape'
  BY DEF SyncShape, VaultsStayPut, TypeInv
<1> QED BY <1>1, <1>2 DEF End, TypeInv, TypeOK, server

LEMMA LandStays ==
  ASSUME TypeInv, NEW m \in Machines, NEW v \in Vaults, MemIs(m, v)
  PROVE  VaultsStayPut
BY DEF TypeInv, TypeOK, MemIs, VaultsStayPut

(* Those that end one.                                                     *)
LEMMA FinishType ==
  ASSUME TypeInv, NEW m \in Machines, NEW p \in Pages,
         \/ FinishSetup(m, p) \/ FinishJoin(m, p) \/ FinishAdopt(m, p)
         \/ FinishChange(m, p) \/ CloseSheet(m, p) \/ KeepCode(m, p)
         \/ FinishPrint(m, p)
  PROVE  TypeInv'
<1>1. /\ mem[m] \in Vaults \cup {None} /\ GoodJob(job[m][p])
      /\ drawn \in [salt : 0 .. MaxSalts, code : 0 .. MaxCodes, key : 0 .. MaxVaults]
      /\ log \in Log /\ seen \in [Machines -> Nat] /\ floor \in [Machines -> Nat]
  BY JobFields DEF GoodJob, TypeInv, TypeOK
<1>2. ASSUME NEW v \in Vaults, MemIs(m, v), Persist(m, v), End(m, p),
             UNCHANGED <<server, disk, sync, floor>>,
             seen' \in [Machines -> Nat], log' \in Log,
             drawn' \in [salt : 0 .. MaxSalts, code : 0 .. MaxCodes, key : 0 .. MaxVaults]
      PROVE  TypeInv'
  BY <1>2, LandType, LandStays, EndType
<1>3. job[m][p].op \in {"adopt", "change", "sheet", "print"} => mem[m] \in Vaults
  BY <1>1, JobFields
<1>4. Late(m, p) \in SUBSET Machines
  BY <1>1 DEF Late, Log
<1>5. [log EXCEPT !.late = Late(m, p)] \in Log
  BY <1>1, <1>4 DEF Log
<1>6. CASE FinishSetup(m, p)
  <2> DEFINE v == [meta |-> Header(drawn.key + 1, 0, drawn.salt + 1, None, FALSE),
                   pending |-> None, holds |-> {}]
  <2>1. drawn.key + 1 \in Keys /\ drawn.salt + 1 \in Salts
    BY <1>1, <1>6 DEF FinishSetup, Keys, Salts
  <2>2. v \in Vaults
    BY <2>1, NewHeader DEF Vaults
  <2>3. MemIs(m, v) /\ Persist(m, v)
    BY <1>6 DEF FinishSetup
  <2> HIDE DEF v
  <2>4. drawn' \in [salt : 0 .. MaxSalts, code : 0 .. MaxCodes, key : 0 .. MaxVaults]
    <3>1. drawn.key + 1 \in 0 .. MaxVaults /\ drawn.salt + 1 \in 0 .. MaxSalts
      BY <2>1 DEF Keys, Salts
    <3>2. drawn' = [drawn EXCEPT !.key = @ + 1, !.salt = @ + 1]
      BY <1>6 DEF FinishSetup
    <3> QED BY <1>1, <3>1, <3>2
  <2>5. /\ End(m, p) /\ log' \in Log /\ seen' \in [Machines -> Nat]
        /\ UNCHANGED <<server, disk, sync, floor>>
    BY <1>1, <1>5, <1>6 DEF FinishSetup
  <2> QED BY <1>2, <2>2, <2>3, <2>4, <2>5
<1>7. CASE FinishJoin(m, p)
  <2> DEFINE v == [meta |-> job[m][p].hdr, pending |-> None, holds |-> {}]
  <2>1. v \in Vaults
    BY <1>1, <1>7 DEF FinishJoin, GoodJob, Vaults
  <2>2. MemIs(m, v) /\ Persist(m, v)
    BY <1>7 DEF FinishJoin
  <2> HIDE DEF v
  <2>3. seen' \in [Machines -> Nat] /\ log' \in Log
    BY <1>1, <1>4, <1>7 DEF FinishJoin, Log
  <2> QED BY <1>1, <1>2, <1>7, <2>1, <2>2, <2>3 DEF FinishJoin
<1>8. CASE FinishAdopt(m, p)
  <2> DEFINE v == mem[m]
             h == job[m][p].hdr
             adopted == [v EXCEPT !.meta = [h EXCEPT !.bio = v.meta.bio], !.pending = None]
  <2>0. v \in Vaults /\ h \in Headers /\ v.meta.bio \in BOOLEAN
    BY <1>1, <1>3, <1>8, VaultFields, HeaderFields DEF FinishAdopt, GoodJob
  <2>1. CASE MemIs(m, [v EXCEPT !.pending = None]) /\ UNCHANGED <<writing, log>>
    <3>1. [v EXCEPT !.pending = None] \in Vaults
      BY <2>0, VaultFields
    <3>2. mem' \in [Machines -> Vaults \cup {None}]
      BY <2>1, <3>1 DEF MemIs, TypeInv, TypeOK
    <3>3. VaultsStayPut
      BY <2>1, <3>1, LandStays
    <3> QED BY <1>1, <1>8, <2>1, <3>2, <3>3, EndType DEF FinishAdopt, TypeInv, TypeOK
  <2>2. CASE UNCHANGED <<mem, writing, log>>
    BY <1>1, <1>8, <2>2, EndType DEF FinishAdopt, TypeInv, TypeOK, VaultsStayPut
  <2>3. CASE /\ MemIs(m, adopted) /\ Persist(m, adopted)
             /\ log' = [log EXCEPT !.late = Late(m, p),
                           !.kept[m] = None, !.told[m] = None]
    <3>1. log' \in Log
      BY <1>1, <1>4, <2>3 DEF Log
    <3>2. adopted \in Vaults
      BY <2>0, VaultFields, HeaderFields
    <3>3. MemIs(m, adopted) /\ Persist(m, adopted)
      BY <2>3
    <3> HIDE DEF adopted
    <3> QED BY <1>1, <1>2, <1>8, <3>1, <3>2, <3>3 DEF FinishAdopt
  <2> QED BY <1>8, <2>1, <2>2, <2>3 DEF FinishAdopt
<1>9. CASE FinishChange(m, p)
  <2> DEFINE v == [mem[m] EXCEPT !.meta = job[m][p].hdr, !.pending = None]
  <2>1. v \in Vaults
    BY <1>1, <1>3, <1>9, VaultFields DEF FinishChange, GoodJob
  <2>2. MemIs(m, v) /\ Persist(m, v)
    BY <1>9 DEF FinishChange
  <2> HIDE DEF v
  <2> QED BY <1>1, <1>2, <1>5, <1>9, <2>1, <2>2 DEF FinishChange
<1>10. CASE CloseSheet(m, p)
  BY <1>1, <1>10, EndType DEF CloseSheet, TypeInv, TypeOK, VaultsStayPut, local
<1>11. CASE KeepCode(m, p)
  <2> DEFINE v == [mem[m] EXCEPT !.meta.rec = job[m][p].code]
  <2>1. mem[m] \in Vaults /\ job[m][p].code \in RecCodes
    BY <1>1, <1>3, <1>11 DEF KeepCode, GoodJob
  <2>2. v \in Vaults
    BY <2>1, VaultFields, HeaderFields DEF Vaults
  <2>3. MemIs(m, v) /\ Persist(m, v)
    BY <1>11 DEF KeepCode
  <2> HIDE DEF v
  <2>4. log' \in Log
    BY <1>1, <1>11, <2>1 DEF KeepCode, Log
  <2> QED BY <1>1, <1>2, <1>11, <2>2, <2>3, <2>4 DEF KeepCode
<1>12. CASE FinishPrint(m, p)
  <2> DEFINE v == [mem[m] EXCEPT !.meta.bio = @ \/ job[m][p].base = mem[m].meta.salt]
  <2>1. mem[m] \in Vaults
    BY <1>3, <1>12 DEF FinishPrint
  <2>2. v \in Vaults
    BY <2>1, VaultFields, HeaderFields DEF Vaults
  <2>3. MemIs(m, v) /\ Persist(m, v)
    BY <1>12 DEF FinishPrint
  <2> HIDE DEF v
  <2>4. log' \in Log
    BY <1>1, <1>12 DEF FinishPrint, Log
  <2> QED BY <1>1, <1>2, <1>12, <2>2, <2>3, <2>4 DEF FinishPrint
<1> QED BY <1>6, <1>7, <1>8, <1>9, <1>10, <1>11, <1>12

(* Enrolment, records and the fingerprint, storage, the sync, the server.  *)
LEMMA RefreshType ==
  ASSUME TypeInv, NEW m \in Machines, NEW v \in Vaults, MemIs(m, v), Persist(m, v),
         UNCHANGED <<disk, job, floor>>, srv' \in Stores, saved' = saved,
         sync' \in [Machines -> Syncs], sync'[m] = sync[m] \/ sync'[m].at = "idle",
         \A n \in Machines \ {m} : sync'[n] = sync[n],
         seen' \in [Machines -> Nat], jobs' \in 0 .. MaxJobs, log' \in Log, drawn' = drawn
  PROVE  TypeInv'
<1>1. /\ mem' \in [Machines -> Vaults \cup {None}]
      /\ writing' \in [Machines -> Vaults \cup {None}] /\ VaultsStayPut
  BY LandType, LandStays
<1>2. JobShape'
  BY <1>1 DEF TypeInv, JobShape, VaultsStayPut
<1>3. SyncShape'
  BY <1>1 DEF TypeInv, SyncShape, VaultsStayPut
<1> QED BY <1>1, <1>2, <1>3 DEF TypeInv, TypeOK

LEMMA EnrolType ==
  ASSUME TypeInv, NEW m \in Machines, NEW a \in Machines, EnrolWithCodeOf(m, a)
  PROVE  TypeInv'
<1>1. log' \in Log /\ seen' \in [Machines -> Nat] /\ floor' \in [Machines -> Nat]
  BY DEF EnrolWithCodeOf, TypeInv, TypeOK, Log, Max2
<1> QED BY <1>1 DEF EnrolWithCodeOf, TypeInv, TypeOK, JobShape, SyncShape, server, local, Counted

LEMMA RecordsType ==
  ASSUME TypeInv, NEW m \in Machines,
         \/ ForgetPrint(m) \/ AddRecord(m) \/ RefuseDiverged(m)
         \/ MoveRecords(m) \/ FailRecords(m)
  PROVE  TypeInv'
<1>1. /\ mem[m] \in Vaults /\ srv \in Stores /\ log \in Log
      /\ sync \in [Machines -> Syncs] /\ Resting \in Syncs /\ Resting.at = "idle"
      /\ jobs \in 0 .. MaxJobs /\ seen \in [Machines -> Nat]
  BY IdleType DEF TypeInv, TypeOK, SyncShape, ForgetPrint, AddRecord, RefuseDiverged,
              MoveRecords, FailRecords
<1> USE DEF server
<1>2. CASE ForgetPrint(m)
  <2> DEFINE v == [mem[m] EXCEPT !.meta.bio = FALSE]
  <2>1. v \in Vaults
    BY <1>1, VaultFields, HeaderFields DEF Vaults
  <2>2. MemIs(m, v) /\ Persist(m, v) /\ Counted
        /\ UNCHANGED <<server, disk, job, sync, seen, floor, drawn, log>>
    BY <1>2 DEF ForgetPrint
  <2> HIDE DEF v
  <2> QED BY <1>1, <2>1, <2>2, RefreshType DEF Counted
<1>3. CASE AddRecord(m)
  <2> DEFINE v == [mem[m] EXCEPT !.holds = @ \cup {mem[m].meta.key}]
  <2>1. v \in Vaults
    BY <1>1, VaultFields, HeaderFields
  <2>2. MemIs(m, v) /\ Persist(m, v) /\ Counted
        /\ UNCHANGED <<server, disk, job, sync, seen, floor, drawn, log>>
    BY <1>3 DEF AddRecord
  <2> HIDE DEF v
  <2> QED BY <1>1, <2>1, <2>2, RefreshType DEF Counted
<1>4. CASE RefuseDiverged(m)
  <2>1. mem' = mem /\ MemIs(m, mem[m])
    BY <1>4 DEF RefuseDiverged, MemIs, TypeInv, TypeOK
  <2> QED BY <1>1, <1>4, <2>1, RefreshType DEF RefuseDiverged
<1>5. CASE FailRecords(m)
  <2>1. mem' = mem /\ MemIs(m, mem[m])
    BY <1>5 DEF FailRecords, MemIs, TypeInv, TypeOK
  <2> QED BY <1>1, <1>5, <2>1, RefreshType DEF FailRecords
<1>6. CASE MoveRecords(m)
  <2> DEFINE both == srv.holds \cup mem[m].holds
             v    == [mem[m] EXCEPT !.holds = both]
  <2>1. both \in SUBSET Keys
    BY <1>1, VaultFields DEF Stores
  <2>2. v \in Vaults
    BY <1>1, <2>1, VaultFields
  <2>3. MemIs(m, v) /\ Persist(m, v)
    BY <1>6 DEF MoveRecords
  <2>4. srv' \in Stores
    <3>1. srv' = srv \/ srv' = [srv EXCEPT !.seq = @ + 1, !.holds = both]
      BY <1>6 DEF MoveRecords
    <3> HIDE DEF both
    <3>2. srv.seq + 1 \in Nat
      BY <1>1 DEF Stores
    <3>3. [srv EXCEPT !.seq = @ + 1, !.holds = both] \in Stores
      BY <1>1, <2>1, <3>2 DEF Stores
    <3> QED BY <1>1, <3>1, <3>3
  <2>5. GenOf(srv.meta) \in Nat /\ srv'.seq \in Nat
    <3>1. srv.meta \in Headers \cup {None}
      BY <1>1 DEF Stores
    <3>2. GenOf(srv.meta) \in Nat
      BY <3>1, HeaderFields DEF GenOf
    <3> QED BY <2>4, <3>2 DEF Stores
  <2>6. log' \in Log
    <3> HIDE DEF both, v
    <3>1. [log EXCEPT !.seenGen[m] = GenOf(srv.meta)] \in Log
      BY <1>1, <2>5 DEF Log
    <3>2. [log EXCEPT !.seenGen[m] = GenOf(srv.meta),
             !.past = IF @ = "whole" THEN @ ELSE "rewritten"] \in Log
      BY <1>1, <2>5 DEF Log
    <3> QED BY <1>6, <3>1, <3>2 DEF MoveRecords
  <2>7. seen' \in [Machines -> Nat]
    BY <1>1, <1>6, <2>5 DEF MoveRecords
  <2>8. /\ sync' \in [Machines -> Syncs] /\ sync'[m].at = "idle"
        /\ \A n \in Machines \ {m} : sync'[n] = sync[n]
        /\ UNCHANGED <<saved, disk, job, floor, drawn, jobs>>
    BY <1>1, <1>6 DEF MoveRecords
  <2> HIDE DEF v
  <2> QED BY <1>1, <2>2, <2>3, <2>4, <2>6, <2>7, <2>8, RefreshType
<1> QED BY <1>2, <1>3, <1>4, <1>5, <1>6

LEMMA StorageType ==
  ASSUME TypeInv, NEW m \in Machines, Flush(m) \/ Crash(m)
  PROVE  TypeInv'
<1>1. /\ mem \in [Machines -> Vaults \cup {None}] /\ disk \in [Machines -> Vaults \cup {None}]
      /\ writing \in [Machines -> Vaults \cup {None}] /\ log \in Log
  BY DEF TypeInv, TypeOK
<1>2. CASE Flush(m)
  <2>1. writing[m] \in Vaults /\ disk' \in [Machines -> Vaults \cup {None}]
        /\ writing' \in [Machines -> Vaults \cup {None}]
    BY <1>1, <1>2 DEF Flush
  <2>2. disk[m] # None => disk[m].meta.salt \in Salts
    BY <1>1, VaultFields, HeaderFields
  <2>3. log' \in Log
    BY <1>1, <1>2, <2>2 DEF Flush, Log
  <2> QED BY <1>2, <2>1, <2>3 DEF Flush, TypeInv, TypeOK, JobShape, SyncShape, server
<1>3. CASE Crash(m)
  <2>0. /\ mem' \in [Machines -> Vaults \cup {None}]
        /\ writing' \in [Machines -> Vaults \cup {None}]
    BY <1>1, <1>3 DEF Crash
  <2>5. log' \in Log
    BY <1>1, <1>3 DEF Crash, Log
  <2>1. /\ job' \in [Machines -> [Pages -> Jobs]] /\ sync' \in [Machines -> Syncs]
        /\ jobs' \in 0 .. MaxJobs
    <3>1. [p \in Pages |-> Idle] \in [Pages -> Jobs]
      BY IdleType DEF GoodJob
    <3> QED BY <1>3, <3>1, IdleType DEF Crash, TypeInv, TypeOK, Counted
  <2>2. \A n \in Machines, p \in Pages :
          job'[n][p] = IF n = m THEN Idle ELSE job[n][p]
    BY <1>3 DEF Crash, TypeInv, TypeOK
  <2>3. JobShape'
    BY <1>1, <1>3, <2>2, IdleType DEF Crash, TypeInv, JobShape, GoodJob, Idle
  <2>4. SyncShape'
    BY <1>1, <1>3, IdleType DEF Crash, TypeInv, TypeOK, SyncShape
  <2> QED BY <1>3, <2>0, <2>5, <2>1, <2>3, <2>4 DEF Crash, TypeInv, TypeOK, server
<1> QED BY <1>2, <1>3

LEMMA HeaderSyncType ==
  ASSUME TypeInv, NEW m \in Machines, ReadHeader(m) \/ Publish(m)
  PROVE  TypeInv'
<1>1. /\ mem \in [Machines -> Vaults \cup {None}] /\ srv \in Stores /\ log \in Log
      /\ writing \in [Machines -> Vaults \cup {None}] /\ sync \in [Machines -> Syncs]
      /\ mem[m] \in Vaults /\ Resting \in Syncs /\ HeaderDone \in Syncs
      /\ Resting.at = "idle" /\ HeaderDone.at = "records"
  BY IdleType DEF TypeInv, TypeOK, SyncShape, ReadHeader, Publish
<1>2. CASE ReadHeader(m)
  <2>1. CASE /\ srv.meta # None
             /\ MemIs(m, [mem[m] EXCEPT !.pending = Portable(srv.meta)])
             /\ sync' = [sync EXCEPT ![m] = HeaderDone] /\ UNCHANGED writing
    <3>1. Portable(srv.meta) \in Headers
      BY <1>1, <2>1, HeaderFields DEF Stores
    <3>2. [mem[m] EXCEPT !.pending = Portable(srv.meta)] \in Vaults
      BY <1>1, <3>1, VaultFields
    <3>3. mem' \in [Machines -> Vaults \cup {None}] /\ VaultsStayPut
      BY <1>1, <2>1, <3>2, LandStays DEF MemIs
    <3>4. JobShape' /\ SyncShape'
      BY <1>1, <1>2, <2>1, <3>3
      DEF ReadHeader, TypeInv, JobShape, SyncShape, VaultsStayPut
    <3> QED BY <1>1, <1>2, <2>1, <3>3, <3>4 DEF ReadHeader, TypeInv, TypeOK, server
  <2>2. CASE sync' = [sync EXCEPT ![m] = HeaderDone] /\ UNCHANGED <<mem, writing>>
    <3>1. JobShape' /\ SyncShape'
      BY <1>1, <1>2, <2>2 DEF ReadHeader, TypeInv, JobShape, SyncShape
    <3> QED BY <1>1, <1>2, <2>2, <3>1 DEF ReadHeader, TypeInv, TypeOK, server
  <2>3. CASE /\ sync' = [sync EXCEPT ![m] =
                  [at |-> "put", hdr |-> Portable(mem[m].meta), seq |-> srv.seq]]
             /\ UNCHANGED <<mem, writing>>
    <3>1. Portable(mem[m].meta) \in Headers /\ srv.seq \in Nat
      BY <1>1, VaultFields, HeaderFields DEF Stores
    <3>2. [at |-> "put", hdr |-> Portable(mem[m].meta), seq |-> srv.seq] \in Syncs
      BY <3>1 DEF Syncs
    <3>3. JobShape' /\ SyncShape'
      BY <1>1, <1>2, <2>3, <3>1 DEF ReadHeader, TypeInv, JobShape, SyncShape
    <3> QED BY <1>1, <1>2, <2>3, <3>2, <3>3 DEF ReadHeader, TypeInv, TypeOK, server
  <2> QED BY <1>2, <2>1, <2>2, <2>3 DEF ReadHeader
<1>3. CASE Publish(m)
  <2>1. sync[m].hdr \in Headers /\ UNCHANGED <<saved, mem, disk, job, seen, floor, drawn, jobs>>
    BY <1>3 DEF Publish, TypeInv, SyncShape
  <2>2. srv' \in Stores /\ log' \in Log
    BY <1>1, <1>3, <2>1 DEF Publish, ServerNow, Stores, Log
  <2>3. writing' \in [Machines -> Vaults \cup {None}]
    BY <1>1, <1>3 DEF Publish, Persist
  <2>4. sync' \in [Machines -> Syncs] /\ sync'[m].at # "put"
        /\ \A n \in Machines \ {m} : sync'[n] = sync[n]
    BY <1>1, <1>3 DEF Publish
  <2>5. SyncShape' /\ JobShape'
    BY <1>1, <2>1, <2>4 DEF TypeInv, SyncShape, JobShape
  <2> QED BY <2>1, <2>2, <2>3, <2>4, <2>5 DEF TypeInv, TypeOK
<1> QED BY <1>2, <1>3

LEMMA StoreType ==
  ASSUME TypeInv, Backup \/ Restore
  PROVE  TypeInv'
<1>1. log' \in Log
  BY DEF TypeInv, TypeOK, Backup, Restore, Log
<1> QED BY <1>1 DEF TypeInv, TypeOK, JobShape, SyncShape, Backup, Restore, Counted, local

(* Every step keeps the types.                                             *)
LEMMA NextType == TypeInv /\ [Next]_vars => TypeInv'
<1>1. TypeInv /\ UNCHANGED vars => TypeInv'
  BY DEF vars, TypeInv, TypeOK, JobShape, SyncShape
<1> QED BY <1>1, StartType, FinishType, EnrolType, RecordsType, StorageType,
           HeaderSyncType, StoreType DEF Next, Machine, Page

(* Every variable holds a value of its kind, and what a handler or a sync  *)
(* took with it is what it will need.                                      *)
THEOREM TypeCorrect == Spec => []TypeOK
<1>1. Init => TypeInv
  BY InitType
<1>2. TypeInv /\ [Next]_vars => TypeInv'
  BY NextType
<1>3. TypeInv => TypeOK
  BY DEF TypeInv
<1> QED BY <1>1, <1>2, <1>3, PTL DEF Spec

-----------------------------------------------------------------------------
(* The server: its sequence, and what machines have seen of it.            *)

(* A step that leaves the server and what is known of it alone, sends it   *)
(* nothing and fetches nothing of it.                                      *)
QuietServer ==
  /\ UNCHANGED <<srv, saved, seen, floor>>
  /\ log'.past = log.past /\ log'.seenGen = log.seenGen /\ log'.vouched = log.vouched
  /\ \A n \in Machines : sync'[n].at = "put" => sync'[n] = sync[n]
  /\ \A n \in Machines, q \in Pages : job'[n][q].op = "join" => job'[n][q] = job[n][q]

LEMMA BeginsNoJoin ==
  ASSUME TypeInv, NEW m \in Machines, NEW p \in Pages, NEW j, j.op # "join",
         job' = [job EXCEPT ![m][p] = j]
  PROVE  \A n \in Machines, q \in Pages : job'[n][q].op = "join" => job'[n][q] = job[n][q]
BY DEF TypeInv, TypeOK

LEMMA PageQuiet ==
  ASSUME TypeInv, NEW m \in Machines, NEW p \in Pages,
         \/ StartSetup(m, p) \/ StartAdopt(m, p) \/ StartChange(m, p)
         \/ StartSheet(m, p) \/ StartPrint(m, p)
         \/ FinishSetup(m, p) \/ FinishAdopt(m, p) \/ FinishChange(m, p)
         \/ CloseSheet(m, p) \/ KeepCode(m, p) \/ FinishPrint(m, p)
  PROVE  QuietServer
<1>1. /\ UNCHANGED <<srv, saved, sync, seen, floor>>
      /\ \E j : j.op # "join" /\ job' = [job EXCEPT ![m][p] = j]
  <2> USE DEF Begin, End, Idle, server
  <2>1. CASE StartSetup(m, p) BY <2>1 DEF StartSetup
  <2>2. CASE StartAdopt(m, p) BY <2>2 DEF StartAdopt
  <2>3. CASE StartChange(m, p) BY <2>3 DEF StartChange
  <2>4. CASE StartSheet(m, p) BY <2>4 DEF StartSheet
  <2>5. CASE StartPrint(m, p) BY <2>5 DEF StartPrint
  <2>6. CASE FinishSetup(m, p) BY <2>6 DEF FinishSetup
  <2>7. CASE FinishAdopt(m, p) BY <2>7 DEF FinishAdopt
  <2>8. CASE FinishChange(m, p) BY <2>8 DEF FinishChange
  <2>9. CASE CloseSheet(m, p) BY <2>9 DEF CloseSheet
  <2>10. CASE KeepCode(m, p) BY <2>10 DEF KeepCode
  <2>11. CASE FinishPrint(m, p) BY <2>11 DEF FinishPrint
  <2> QED BY <2>1, <2>2, <2>3, <2>4, <2>5, <2>6, <2>7, <2>8, <2>9, <2>10, <2>11
<1>2. log'.past = log.past /\ log'.seenGen = log.seenGen /\ log'.vouched = log.vouched
  BY DEF TypeInv, TypeOK, Log, StartSetup, StartAdopt, StartChange, StartSheet, StartPrint,
         FinishSetup, FinishAdopt, FinishChange, CloseSheet, KeepCode, FinishPrint
<1> QED BY <1>1, <1>2, BeginsNoJoin DEF QuietServer

LEMMA MachineQuiet ==
  ASSUME TypeInv, NEW m \in Machines,
         \/ ForgetPrint(m) \/ AddRecord(m) \/ Flush(m) \/ Crash(m)
         \/ RefuseDiverged(m) \/ FailRecords(m)
  PROVE  QuietServer
<1>1. UNCHANGED <<srv, saved, seen, floor>>
  BY DEF server, ForgetPrint, AddRecord, Flush, Crash, RefuseDiverged, FailRecords
<1>2. log'.past = log.past /\ log'.seenGen = log.seenGen /\ log'.vouched = log.vouched
  BY DEF TypeInv, TypeOK, Log, ForgetPrint, AddRecord, Flush, Crash, RefuseDiverged,
         FailRecords
<1>3. \A n \in Machines : sync'[n].at = "put" => sync'[n] = sync[n]
  BY IdleType DEF TypeInv, TypeOK, ForgetPrint, AddRecord, Flush, Crash, RefuseDiverged,
         FailRecords
<1>4. \A n \in Machines, q \in Pages : job'[n][q].op = "join" => job'[n][q] = job[n][q]
  <2>1. CASE job' = job BY <2>1
  <2>2. CASE Crash(m)
    <3>1. \A n \in Machines, q \in Pages :
            job'[n][q] = IF n = m THEN Idle ELSE job[n][q]
      BY <2>2 DEF Crash, TypeInv, TypeOK
    <3> QED BY <3>1 DEF Idle
  <2> QED BY <2>1, <2>2 DEF ForgetPrint, AddRecord, Flush, RefuseDiverged, FailRecords
<1> QED BY <1>1, <1>2, <1>3, <1>4 DEF QuietServer

(* While the server is whole, a header on its way outranks the server's    *)
(* unless something was written since it was read; a copy is no younger    *)
(* than the server, and nobody has seen more than it holds.                *)
OutranksServer ==
  \A m \in Machines : sync[m].at = "put" =>
    /\ sync[m].seq <= srv.seq
    /\ sync[m].seq = srv.seq =>
         srv.meta = None \/ sync[m].hdr.gen > srv.meta.gen
CopyIsOlder ==
  saved # None =>
    /\ saved.seq <= srv.seq
    /\ saved.seq = srv.seq => saved.meta = srv.meta
SeenIsThere == \A m \in Machines : srv.seq >= seen[m] /\ srv.seq >= floor[m]

(* What a server that has the sequence a machine has seen is at.           *)
KeepsUp(s) ==
  \A m \in Machines :
    /\ s.seq >= seen[m]  => GenOf(s.meta) >= log.seenGen[m]
    /\ s.seq >= floor[m] => GenOf(s.meta) >= log.vouched[m]
JoinsKeepUp ==
  \A m \in Machines, p \in Pages :
    job[m][p].op = "join" => job[m][p].hdr.gen >= log.vouched[m]

ServerInv ==
  /\ log.past = "whole" => OutranksServer /\ CopyIsOlder /\ SeenIsThere
  /\ log.past = "restored" => saved = srv
  /\ log.past # "rewritten" =>
       KeepsUp(srv) /\ (saved # None => KeepsUp(saved)) /\ JoinsKeepUp

LEMMA ServerFields ==
  ASSUME TypeInv
  PROVE  /\ srv.seq \in Nat /\ srv.meta \in Headers \cup {None} /\ GenOf(srv.meta) \in Nat
         /\ saved # None => /\ saved.seq \in Nat /\ saved.meta \in Headers \cup {None}
                            /\ GenOf(saved.meta) \in Nat
         /\ \A m \in Machines : /\ seen[m] \in Nat /\ floor[m] \in Nat
                                /\ log.seenGen[m] \in Nat /\ log.vouched[m] \in Nat
                                /\ sync[m].seq \in Nat
                                /\ sync[m].at = "put" => sync[m].hdr.gen \in Nat
         /\ \A h \in Headers : GenOf(h) = h.gen
         /\ log.past \in {"whole", "restored", "rewritten"}
<1>1. /\ srv \in Stores /\ saved \in Stores \cup {None} /\ log \in Log
      /\ sync \in [Machines -> Syncs]
      /\ seen \in [Machines -> Nat] /\ floor \in [Machines -> Nat]
      /\ \A m \in Machines : sync[m].at = "put" => sync[m].hdr \in Headers
  BY DEF TypeInv, TypeOK, SyncShape
<1>2. \A h \in Headers \cup {None} : GenOf(h) \in Nat
  BY HeaderFields DEF GenOf
<1>3. \A h \in Headers : GenOf(h) = h.gen
  BY NoneAssumption DEF GenOf
<1>4. /\ srv.seq \in Nat /\ srv.meta \in Headers \cup {None}
      /\ saved # None => saved.seq \in Nat /\ saved.meta \in Headers \cup {None}
  BY <1>1 DEF Stores
<1>5. \A m \in Machines : /\ log.seenGen[m] \in Nat /\ log.vouched[m] \in Nat
                          /\ sync[m].seq \in Nat
  BY <1>1 DEF Log, Syncs
<1> QED BY <1>1, <1>2, <1>3, <1>4, <1>5, HeaderFields, LogType

LEMMA ServerInit == Init => ServerInv
<1> SUFFICES ASSUME Init PROVE ServerInv
  OBVIOUS
<1>1. TypeInv
  BY InitType
<1>2. log.past = "whole" /\ \A m \in Machines :
        sync[m].at # "put" /\ \A p \in Pages : job[m][p].op # "join"
  BY DEF Init, Resting, Idle
<1>3. CopyIsOlder
  BY <1>1, ServerFields DEF Init, CopyIsOlder
<1>4. \A m \in Machines : floor[m] = 0 /\ (seen[m] = 0 \/ seen[m] = srv.seq)
                          /\ log.seenGen[m] = 0 /\ log.vouched[m] = 0
  BY DEF Init
<1> QED BY <1>1, <1>2, <1>3, <1>4, ServerFields
        DEF ServerInv, OutranksServer, SeenIsThere, KeepsUp, JoinsKeepUp

LEMMA ServerQuiet ==
  ASSUME TypeInv, ServerInv, QuietServer
  PROVE  ServerInv'
BY DEF QuietServer, ServerInv, OutranksServer, CopyIsOlder, SeenIsThere, KeepsUp, JoinsKeepUp

LEMMA ServerEnrol ==
  ASSUME TypeInv, ServerInv, NEW m \in Machines, NEW a \in Machines, EnrolWithCodeOf(m, a)
  PROVE  ServerInv'
<1>1. UNCHANGED <<srv, saved, job, sync>> /\ log'.past = log.past
  BY DEF EnrolWithCodeOf, server, TypeInv, TypeOK, Log
<1>2. \A n \in Machines :
        /\ floor'[n] = IF n = m THEN seen[a] ELSE floor[n]
        /\ seen'[n]  = IF n = m THEN Max2(seen[m], seen[a]) ELSE seen[n]
        /\ log'.vouched[n] = IF n = m THEN log.seenGen[a] ELSE log.vouched[n]
        /\ log'.seenGen[n] = IF n = m THEN Max2(log.seenGen[m], log.seenGen[a])
                             ELSE log.seenGen[n]
  BY DEF EnrolWithCodeOf, TypeInv, TypeOK, Log
<1>3. \A p \in Pages : job[m][p].op # "join"
  BY DEF EnrolWithCodeOf, Busy
<1>4. JoinsKeepUp => JoinsKeepUp'
  BY <1>1, <1>2, <1>3 DEF JoinsKeepUp
<1>5. SeenIsThere => SeenIsThere'
  BY <1>1, <1>2, ServerFields DEF SeenIsThere, Max2
<1>6. ASSUME NEW s, s.seq \in Nat, GenOf(s.meta) \in Nat, KeepsUp(s)
      PROVE  \A n \in Machines :
               /\ s.seq >= seen'[n]  => GenOf(s.meta) >= log'.seenGen[n]
               /\ s.seq >= floor'[n] => GenOf(s.meta) >= log'.vouched[n]
  BY <1>2, <1>6, ServerFields DEF KeepsUp, Max2
<1>7. KeepsUp(srv) => KeepsUp(srv)'
  BY <1>1, <1>6, ServerFields DEF KeepsUp
<1>8. saved # None /\ KeepsUp(saved) => KeepsUp(saved)'
  BY <1>1, <1>6, ServerFields DEF KeepsUp
<1> QED BY <1>1, <1>4, <1>5, <1>7, <1>8
        DEF ServerInv, OutranksServer, CopyIsOlder

LEMMA ServerJoin ==
  ASSUME TypeInv, ServerInv, NEW m \in Machines, NEW p \in Pages,
         StartJoin(m, p) \/ FinishJoin(m, p)
  PROVE  ServerInv'
<1>1. CASE StartJoin(m, p)
  <2>1. UNCHANGED <<srv, saved, sync, seen, floor, log>>
    BY <1>1 DEF StartJoin, server
  <2>2. \A n \in Machines, q \in Pages :
          job'[n][q] = IF n = m /\ q = p
                       THEN [Idle EXCEPT !.op = "join", !.hdr = Portable(srv.meta)]
                       ELSE job[n][q]
    BY <1>1 DEF StartJoin, Begin, TypeInv, TypeOK
  <2>3. srv.meta \in Headers /\ srv.seq >= floor[m]
    BY <1>1, ServerFields DEF StartJoin, AboveFloor
  <2>4. [Idle EXCEPT !.op = "join", !.hdr = Portable(srv.meta)].hdr.gen = GenOf(srv.meta)
    BY <2>3, ServerFields DEF Idle, Portable, Headers
  <2>5. KeepsUp(srv) /\ JoinsKeepUp => JoinsKeepUp'
    BY <2>1, <2>2, <2>3, <2>4 DEF KeepsUp, JoinsKeepUp
  <2> QED BY <2>1, <2>5 DEF ServerInv, OutranksServer, CopyIsOlder, SeenIsThere, KeepsUp
<1>2. CASE FinishJoin(m, p)
  <2>1. UNCHANGED <<srv, saved, sync, floor>> /\ log'.past = log.past
        /\ log'.vouched = log.vouched
    BY <1>2 DEF FinishJoin, server, TypeInv, TypeOK, Log
  <2>2. \A n \in Machines :
          /\ seen'[n] = IF n = m THEN floor[m] ELSE seen[n]
          /\ log'.seenGen[n] = IF n = m THEN log.vouched[m] ELSE log.seenGen[n]
    BY <1>2 DEF FinishJoin, TypeInv, TypeOK, Log
  <2>3. \A n \in Machines, q \in Pages : job'[n][q].op = "join" => job'[n][q] = job[n][q]
    BY <1>2, BeginsNoJoin DEF FinishJoin, End, Idle
  <2>4. SeenIsThere => SeenIsThere'
    BY <2>1, <2>2 DEF SeenIsThere
  <2>5. KeepsUp(srv) => KeepsUp(srv)'
    BY <2>1, <2>2 DEF KeepsUp
  <2>6. KeepsUp(saved) => KeepsUp(saved)'
    BY <2>1, <2>2 DEF KeepsUp
  <2> QED BY <2>1, <2>3, <2>4, <2>5, <2>6
          DEF ServerInv, OutranksServer, CopyIsOlder, JoinsKeepUp
<1> QED BY <1>1, <1>2

LEMMA ServerRead ==
  ASSUME TypeInv, ServerInv, NEW m \in Machines, ReadHeader(m)
  PROVE  ServerInv'
<1>1. UNCHANGED <<srv, saved, job, seen, floor, log>>
  BY DEF ReadHeader, server
<1>2. \A n \in Machines \ {m} : sync'[n] = sync[n]
  BY DEF ReadHeader, TypeInv, TypeOK
<1>3. sync'[m].at = "put" =>
        /\ sync'[m].seq = srv.seq
        /\ srv.meta = None \/ sync'[m].hdr.gen > srv.meta.gen
  <2>1. ASSUME srv.meta = None \/ GenOf(srv.meta) < mem[m].meta.gen,
               sync' = [sync EXCEPT ![m] =
                  [at |-> "put", hdr |-> Portable(mem[m].meta), seq |-> srv.seq]]
        PROVE  /\ sync'[m].seq = srv.seq
               /\ srv.meta = None \/ sync'[m].hdr.gen > srv.meta.gen
    <3>1. mem[m].meta \in Headers
      BY VaultFields DEF ReadHeader, TypeInv, TypeOK
    <3>2. Portable(mem[m].meta).gen = mem[m].meta.gen /\ mem[m].meta.gen \in Nat
      BY <3>1 DEF Portable, Headers
    <3>3. sync'[m] = [at |-> "put", hdr |-> Portable(mem[m].meta), seq |-> srv.seq]
      BY <2>1 DEF TypeInv, TypeOK
    <3>4. srv.meta # None => srv.meta.gen < mem[m].meta.gen
      BY <2>1, ServerFields
    <3>5. srv.meta # None => srv.meta.gen \in Nat
      BY ServerFields
    <3> QED BY <3>2, <3>3, <3>4, <3>5
  <2>2. CASE sync' = [sync EXCEPT ![m] = HeaderDone]
    BY <2>2, IdleType DEF TypeInv, TypeOK
  <2> QED BY <2>1, <2>2 DEF ReadHeader
<1>4. OutranksServer => OutranksServer'
  BY <1>1, <1>2, <1>3, ServerFields DEF OutranksServer
<1> QED BY <1>1, <1>4 DEF ServerInv, CopyIsOlder, SeenIsThere, KeepsUp, JoinsKeepUp

(* A publication changes the server only by a header that outranks its own.*)
LEMMA PublishSteps ==
  ASSUME TypeInv, NEW m \in Machines, Publish(m)
  PROVE  /\ UNCHANGED <<saved, job, seen, floor>>
         /\ log'.seenGen = log.seenGen /\ log'.vouched = log.vouched
         /\ \A n \in Machines : sync'[n].at = "put" => sync'[n] = sync[n]
         /\ \/ srv' = srv /\ log' = log
            \/ /\ sync[m].at = "put" /\ sync[m].seq = srv.seq
               /\ srv'.meta = sync[m].hdr /\ srv'.seq = srv.seq + 1
               /\ log'.past = IF log.past = "whole" THEN log.past ELSE "rewritten"
<1>1. UNCHANGED <<saved, job, seen, floor>>
  BY DEF Publish
<1>2. log'.seenGen = log.seenGen /\ log'.vouched = log.vouched
  BY DEF Publish, ServerNow, TypeInv, TypeOK, Log
<1>3. \A n \in Machines : sync'[n].at = "put" => sync'[n] = sync[n]
  BY IdleType DEF Publish, TypeInv, TypeOK
<1>4. \/ srv' = srv /\ log' = log
      \/ /\ sync[m].at = "put" /\ sync[m].seq = srv.seq
         /\ srv'.meta = sync[m].hdr /\ srv'.seq = srv.seq + 1
         /\ log'.past = IF log.past = "whole" THEN log.past ELSE "rewritten"
  BY DEF Publish, ServerNow, IfMatch, TypeInv, TypeOK, Log
<1> QED BY <1>1, <1>2, <1>3, <1>4

LEMMA ServerPublish ==
  ASSUME TypeInv, ServerInv, NEW m \in Machines, Publish(m)
  PROVE  ServerInv'
<1>1. CASE srv' = srv /\ log' = log
  BY <1>1, PublishSteps
  DEF ServerInv, OutranksServer, CopyIsOlder, SeenIsThere, KeepsUp, JoinsKeepUp
<1>2. CASE /\ sync[m].at = "put" /\ sync[m].seq = srv.seq
           /\ srv'.meta = sync[m].hdr /\ srv'.seq = srv.seq + 1
           /\ log'.past = IF log.past = "whole" THEN log.past ELSE "rewritten"
  <2>1. CASE log.past # "whole"
    BY <1>2, <2>1, PublishSteps DEF ServerInv
  <2>2. CASE log.past = "whole"
    <3>1. GenOf(srv'.meta) >= GenOf(srv.meta) /\ GenOf(srv'.meta) \in Nat
      <4>1. sync[m].hdr \in Headers /\ GenOf(sync[m].hdr) = sync[m].hdr.gen
            /\ sync[m].hdr.gen \in Nat
        BY <1>2, ServerFields DEF TypeInv, SyncShape
      <4>2. srv.meta = None \/ sync[m].hdr.gen > srv.meta.gen
        BY <1>2, <2>2 DEF ServerInv, OutranksServer
      <4>3. srv.meta = None => GenOf(srv.meta) = 0
        BY DEF GenOf
      <4>4. srv.meta # None => GenOf(srv.meta) = srv.meta.gen
        BY DEF GenOf
      <4> QED BY <1>2, <4>1, <4>2, <4>3, <4>4, ServerFields
    <3>2. OutranksServer'
      BY <1>2, <2>2, PublishSteps, ServerFields DEF ServerInv, OutranksServer
    <3>3. CopyIsOlder' /\ SeenIsThere'
      BY <1>2, <2>2, PublishSteps, ServerFields DEF ServerInv, CopyIsOlder, SeenIsThere
    <3>4. KeepsUp(srv)'
      BY <1>2, <2>2, <3>1, PublishSteps, ServerFields DEF ServerInv, KeepsUp, SeenIsThere
    <3>5. JoinsKeepUp' /\ (saved # None => KeepsUp(saved))'
      BY <1>2, <2>2, PublishSteps DEF ServerInv, KeepsUp, JoinsKeepUp
    <3> QED BY <1>2, <2>2, <3>2, <3>3, <3>4, <3>5 DEF ServerInv
  <2> QED BY <2>1, <2>2
<1> QED BY <1>1, <1>2, PublishSteps

(* Records that move change the sequence and nothing of the header.        *)
LEMMA MoveSteps ==
  ASSUME TypeInv, NEW m \in Machines, MoveRecords(m)
  PROVE  /\ UNCHANGED <<saved, job, floor>> /\ log'.vouched = log.vouched
         /\ srv'.meta = srv.meta
         /\ \A n \in Machines :
              /\ sync'[n].at = "put" => sync'[n] = sync[n]
              /\ seen'[n] = IF n = m THEN srv'.seq ELSE seen[n]
              /\ log'.seenGen[n] = IF n = m THEN GenOf(srv.meta) ELSE log.seenGen[n]
         /\ \/ srv' = srv /\ log'.past = log.past
            \/ /\ srv'.seq = srv.seq + 1
               /\ log'.past = IF log.past = "whole" THEN log.past ELSE "rewritten"
<1> DEFINE both == srv.holds \cup mem[m].holds
<1>0. srv \in Stores /\ log \in Log /\ log.seenGen \in [Machines -> Nat]
      /\ seen \in [Machines -> Nat] /\ sync \in [Machines -> Syncs]
  BY DEF TypeInv, TypeOK, Log
<1>1. UNCHANGED <<saved, job, floor>> /\ seen' = [seen EXCEPT ![m] = srv'.seq]
      /\ sync' = [sync EXCEPT ![m] = Resting]
  BY DEF MoveRecords
<1>2. \/ srv' = srv /\ log' = [log EXCEPT !.seenGen[m] = GenOf(srv.meta)]
      \/ /\ srv' = [srv EXCEPT !.seq = @ + 1, !.holds = both]
         /\ log' = [log EXCEPT !.seenGen[m] = GenOf(srv.meta),
                               !.past = IF @ = "whole" THEN @ ELSE "rewritten"]
  BY DEF MoveRecords
<1> HIDE DEF both
<1>3. \A n \in Machines :
        log'.seenGen[n] = IF n = m THEN GenOf(srv.meta) ELSE log.seenGen[n]
  <2>1. log'.seenGen = [log.seenGen EXCEPT ![m] = GenOf(srv.meta)]
    BY <1>0, <1>2 DEF Log
  <2> QED BY <1>0, <2>1
<1>4. /\ log'.vouched = log.vouched /\ srv'.meta = srv.meta
      /\ \/ srv' = srv /\ log'.past = log.past
         \/ /\ srv'.seq = srv.seq + 1
            /\ log'.past = IF log.past = "whole" THEN log.past ELSE "rewritten"
  BY <1>0, <1>2 DEF Stores, Log
<1>5. \A n \in Machines : /\ sync'[n].at = "put" => sync'[n] = sync[n]
                          /\ seen'[n] = IF n = m THEN srv'.seq ELSE seen[n]
  BY <1>0, <1>1, IdleType
<1> QED BY <1>1, <1>3, <1>4, <1>5

LEMMA ServerMove ==
  ASSUME TypeInv, ServerInv, NEW m \in Machines, MoveRecords(m)
  PROVE  ServerInv'
<1>1. GenOf(srv'.meta) = GenOf(srv.meta) /\ srv'.seq \in Nat
  BY MoveSteps, ServerFields
<1>2. CASE srv'.seq = srv.seq + 1 /\ log.past # "whole" /\ log'.past = "rewritten"
  BY <1>2 DEF ServerInv
<1>3. CASE log.past = "whole" /\ log'.past = "whole"
           /\ (srv' = srv \/ srv'.seq = srv.seq + 1)
  <2>1. OutranksServer'
    BY <1>3, MoveSteps, ServerFields DEF ServerInv, OutranksServer
  <2>2. CopyIsOlder' /\ SeenIsThere'
    BY <1>3, MoveSteps, ServerFields DEF ServerInv, CopyIsOlder, SeenIsThere
  <2>3. KeepsUp(srv)'
    BY <1>1, <1>3, MoveSteps, ServerFields DEF ServerInv, KeepsUp, SeenIsThere
  <2>4. saved # None => KeepsUp(saved)'
    BY <1>1, <1>3, MoveSteps, ServerFields DEF ServerInv, KeepsUp, CopyIsOlder
  <2>5. JoinsKeepUp'
    BY <1>3, MoveSteps DEF ServerInv, JoinsKeepUp
  <2> QED BY <1>3, <2>1, <2>2, <2>3, <2>4, <2>5, MoveSteps DEF ServerInv
<1>4. CASE srv' = srv /\ log'.past = log.past /\ log.past # "whole"
  <2>1. KeepsUp(srv) => KeepsUp(srv)'
    BY <1>4, MoveSteps, ServerFields DEF KeepsUp
  <2>2. JoinsKeepUp => JoinsKeepUp'
    BY <1>4, MoveSteps DEF JoinsKeepUp
  <2>3. log.past = "restored" => saved' = srv'
    BY <1>4, MoveSteps DEF ServerInv
  <2>4. log.past = "restored" /\ KeepsUp(srv)' => KeepsUp(saved)'
    BY <2>3 DEF KeepsUp
  <2> QED BY <1>4, <2>1, <2>2, <2>3, <2>4, ServerFields DEF ServerInv
<1> QED BY <1>2, <1>3, <1>4, MoveSteps

LEMMA ServerCopies ==
  ASSUME TypeInv, ServerInv, Backup \/ Restore
  PROVE  ServerInv'
<1>1. CASE Backup
  <2>1. UNCHANGED <<srv, job, sync, seen, floor, log>> /\ saved' = srv
    BY <1>1 DEF Backup
  <2>2. KeepsUp(srv) => KeepsUp(srv)' /\ KeepsUp(saved)'
    BY <2>1 DEF KeepsUp
  <2>3. CopyIsOlder'
    BY <2>1, ServerFields DEF CopyIsOlder
  <2> QED BY <2>1, <2>2, <2>3
          DEF ServerInv, OutranksServer, SeenIsThere, JoinsKeepUp
<1>2. CASE Restore
  <2>1. UNCHANGED <<saved, job, sync, seen, floor>> /\ srv' = saved /\ saved # None
        /\ saved # srv
    BY <1>2 DEF Restore, local
  <2>2. log' = [log EXCEPT !.past = IF @ = "rewritten" THEN @ ELSE "restored"]
    BY <1>2 DEF Restore
  <2>3. /\ log'.past = IF log.past = "rewritten" THEN log.past ELSE "restored"
        /\ log'.seenGen = log.seenGen /\ log'.vouched = log.vouched
    BY <2>2 DEF TypeInv, TypeOK, Log
  <2>4. KeepsUp(saved) => KeepsUp(srv)' /\ KeepsUp(saved)'
    BY <2>1, <2>3 DEF KeepsUp
  <2>5. JoinsKeepUp => JoinsKeepUp'
    BY <2>1, <2>3 DEF JoinsKeepUp
  <2> QED BY <2>1, <2>3, <2>4, <2>5 DEF ServerInv
<1> QED BY <1>1, <1>2

LEMMA ServerNext == TypeInv /\ ServerInv /\ [Next]_vars => ServerInv'
<1>1. ServerInv /\ UNCHANGED vars => ServerInv'
  BY DEF vars, ServerInv, OutranksServer, CopyIsOlder, SeenIsThere, KeepsUp, JoinsKeepUp
<1> QED BY <1>1, ServerQuiet, PageQuiet, MachineQuiet, ServerEnrol, ServerJoin, ServerRead,
           ServerPublish, ServerMove, ServerCopies DEF Next, Machine, Page

(* A header a machine joins from is no older than the one the machine that *)
(* minted its code had seen, however often the server is restored, until   *)
(* it is written to again after that (joinVault()'s floor).                *)
THEOREM JoinIsCurrent == Spec => []JoinKeepsUp
<1>1. Init => TypeInv /\ ServerInv
  BY InitType, ServerInit
<1>2. TypeInv /\ ServerInv /\ [Next]_vars => (TypeInv /\ ServerInv)'
  BY NextType, ServerNext
<1>3. TypeInv /\ ServerInv => JoinKeepsUp
  BY ServerFields DEF ServerInv, JoinsKeepUp, JoinKeepsUp, Busy
<1> QED BY <1>1, <1>2, <1>3, PTL DEF Spec

(* Only a publication, or a restore, changes the server's header.          *)
LEMMA OutranksStep ==
  ASSUME TypeInv, ServerInv, [Next]_vars,
         srv'.meta # srv.meta, srv.meta # None, log'.past = "whole"
  PROVE  GenOf(srv'.meta) > srv.meta.gen
<1>1. ASSUME NEW m \in Machines, Publish(m) PROVE GenOf(srv'.meta) > srv.meta.gen
  <2>1. /\ sync[m].at = "put" /\ sync[m].seq = srv.seq /\ srv'.meta = sync[m].hdr
        /\ log.past = "whole"
    BY <1>1, PublishSteps, ServerFields
  <2>2. sync[m].hdr.gen > srv.meta.gen
    BY <2>1 DEF ServerInv, OutranksServer
  <2>3. GenOf(sync[m].hdr) = sync[m].hdr.gen
    BY <2>1, ServerFields DEF TypeInv, SyncShape
  <2> QED BY <2>1, <2>2, <2>3
<1>2. QuietServer \/ UNCHANGED vars => srv' = srv
  BY DEF QuietServer, vars
<1>3. \A m \in Machines : MoveRecords(m) => srv'.meta = srv.meta
  BY MoveSteps
<1>4. Restore => log'.past # "whole"
  BY DEF Restore, TypeInv, TypeOK, Log
<1>5. Backup => srv' = srv
  BY DEF Backup
<1>6. /\ \A m \in Machines, p \in Pages :
           StartJoin(m, p) \/ FinishJoin(m, p) => srv' = srv
      /\ \A m, a \in Machines : EnrolWithCodeOf(m, a) \/ ReadHeader(m) => srv' = srv
  BY DEF EnrolWithCodeOf, StartJoin, FinishJoin, ReadHeader, server
<1>7. \/ QuietServer \/ UNCHANGED vars \/ Backup \/ Restore
      \/ \E m \in Machines : Publish(m) \/ MoveRecords(m)
      \/ \E m \in Machines, p \in Pages : StartJoin(m, p) \/ FinishJoin(m, p)
      \/ \E m \in Machines : ReadHeader(m) \/ \E a \in Machines : EnrolWithCodeOf(m, a)
  BY PageQuiet, MachineQuiet DEF Next, Machine, Page
<1> QED BY <1>1, <1>2, <1>3, <1>4, <1>5, <1>6, <1>7

(* A published header replaces one of a lower generation, however machines *)
(* race between reading and publishing (syncHeader(), putMeta()).          *)
THEOREM PublicationOutranks == Spec => PublishedOutranks
<1>1. Init => TypeInv /\ ServerInv
  BY InitType, ServerInit
<1>2. TypeInv /\ ServerInv /\ [Next]_vars => (TypeInv /\ ServerInv)'
  BY NextType, ServerNext
<1>3. TypeInv /\ ServerInv /\ [Next]_vars
        => [srv'.meta # srv.meta /\ srv.meta # None /\ log'.past = "whole"
              => GenOf(srv'.meta) > srv.meta.gen]_vars
  BY OutranksStep
<1> QED BY <1>1, <1>2, <1>3, PTL DEF Spec, PublishedOutranks

-----------------------------------------------------------------------------
(* Headers: what their proof is about, and whether they may travel.        *)
ProofFits(h) == h.proof = [Seal(h) EXCEPT !.rec = h.proof.rec]
Travels(h)   == ProofFits(h) /\ ~h.bio
Stays(m, h, printed) == ProofFits(h) /\ (h.bio => m \in printed)
SoundVault(m, v, printed) ==
  v # None => Stays(m, v.meta, printed) /\ (v.pending # None => Travels(v.pending))
SoundStore(s) == s # None => (s.meta # None => Travels(s.meta))
SoundJob(m, j, printed) ==
  /\ j.op = "join"   => Travels(j.hdr)
  /\ j.op = "adopt"  => ProofFits(j.hdr)
  /\ j.op = "change" => Stays(m, j.hdr, printed)

SoundStores == (srv.meta # None => Travels(srv.meta)) /\ SoundStore(saved)
SoundVaults ==
  \A m \in Machines :
    /\ SoundVault(m, mem[m], log.printed) /\ SoundVault(m, disk[m], log.printed)
    /\ SoundVault(m, writing[m], log.printed)
SoundJobs == \A m \in Machines, p \in Pages : SoundJob(m, job[m][p], log.printed)
SoundSyncs == \A m \in Machines : sync[m].at = "put" => Travels(sync[m].hdr)
HeaderInv == SoundStores /\ SoundVaults /\ SoundJobs /\ SoundSyncs

LEMMA SameProof ==
  ASSUME NEW h \in Headers, ProofFits(h), NEW g \in Headers,
         g.key = h.key, g.gen = h.gen, g.salt = h.salt, g.proof = h.proof
  PROVE  ProofFits(g)
<1>1. /\ h.proof \in Proofs /\ h.proof.key = h.key /\ h.proof.gen = h.gen
      /\ h.proof.salt = h.salt
  BY DEF ProofFits, Seal, Headers, Proofs
<1>2. Seal(g) = [key |-> h.key, gen |-> h.gen, salt |-> h.salt, rec |-> g.rec]
  BY DEF Seal
<1>3. [Seal(g) EXCEPT !.rec = h.proof.rec]
        = [key |-> h.key, gen |-> h.gen, salt |-> h.salt, rec |-> h.proof.rec]
  BY <1>2
<1>4. h.proof = [key |-> h.key, gen |-> h.gen, salt |-> h.salt, rec |-> h.proof.rec]
  BY <1>1 DEF Proofs
<1> QED BY <1>3, <1>4 DEF ProofFits

LEMMA FitFacts ==
  ASSUME NEW h \in Headers, ProofFits(h)
  PROVE  /\ Travels(Portable(h))
         /\ \A b \in BOOLEAN : ProofFits([h EXCEPT !.bio = b])
<1>1. \A b \in BOOLEAN : LET g == [h EXCEPT !.bio = b]
        IN /\ g \in Headers /\ g.key = h.key /\ g.gen = h.gen /\ g.salt = h.salt
           /\ g.proof = h.proof /\ g.bio = b
  BY DEF Headers
<1> QED BY <1>1, SameProof DEF Portable, Travels

LEMMA RewrappedFacts ==
  ASSUME NEW h \in Headers, NEW s \in Salts
  PROVE  /\ ProofFits(Rewrapped(h, s)) /\ Rewrapped(h, s).bio = h.bio
         /\ Rewrapped(h, s).key = h.key /\ Rewrapped(h, s).gen = h.gen + 1
         /\ Rewrapped(h, s).salt = s /\ Rewrapped(h, s).rec = h.rec
<1> DEFINE g == [h EXCEPT !.gen = @ + 1, !.salt = s]
           r == [g EXCEPT !.proof = Seal(g)]
<1>1. g \in Headers
  <2>1. h.gen + 1 \in Nat
    BY HeaderFields
  <2> QED BY <2>1 DEF Headers
<1>2. /\ g.key = h.key /\ g.gen = h.gen + 1 /\ g.salt = s /\ g.rec = h.rec
      /\ g.bio = h.bio
  BY DEF Headers
<1> HIDE DEF g
<1>3. Rewrapped(h, s) = r
  BY DEF Rewrapped, Proven, g
<1>4. /\ r.key = g.key /\ r.gen = g.gen /\ r.salt = g.salt /\ r.rec = g.rec
      /\ r.bio = g.bio /\ r.proof = Seal(g)
  BY <1>1 DEF Headers
<1> HIDE DEF r
<1>5. Seal(r) = Seal(g) /\ [Seal(g) EXCEPT !.rec = Seal(g).rec] = Seal(g)
  BY <1>4 DEF Seal
<1> QED BY <1>2, <1>3, <1>4, <1>5 DEF ProofFits

LEMMA HeaderFacts ==
  ASSUME NEW k, NEW g, NEW s, NEW r
  PROVE  /\ Travels(Header(k, g, s, r, FALSE))
         /\ Header(k, g, s, r, FALSE).key = k /\ Header(k, g, s, r, FALSE).gen = g
         /\ Header(k, g, s, r, FALSE).salt = s /\ Header(k, g, s, r, FALSE).rec = r
BY DEF Travels, ProofFits, Header, Seal

(* One vault lands, or one handler begins or ends, and all else is sound.  *)
LEMMA SoundLand ==
  ASSUME TypeInv, SoundVaults, NEW m \in Machines, NEW v, MemIs(m, v), Persist(m, v),
         disk' = disk, log.printed \subseteq log'.printed, SoundVault(m, v, log'.printed)
  PROVE  SoundVaults'
BY DEF TypeInv, TypeOK, SoundVaults, SoundVault, Stays, MemIs, Persist

LEMMA SoundPage ==
  ASSUME TypeInv, SoundJobs, NEW m \in Machines, NEW p \in Pages, NEW j,
         job' = [job EXCEPT ![m][p] = j], log.printed \subseteq log'.printed,
         SoundJob(m, j, log'.printed)
  PROVE  SoundJobs'
BY DEF TypeInv, TypeOK, SoundJobs, SoundJob, Stays

LEMMA SoundIdle == \A m, S : SoundJob(m, Idle, S)
BY DEF SoundJob, Idle

LEMMA HeaderInit == Init => HeaderInv
<1> SUFFICES ASSUME Init PROVE HeaderInv
  OBVIOUS
<1>1. TypeInv
  BY InitType
<1>2. /\ srv.meta # None => srv.meta = Header(1, 0, 1, None, FALSE)
      /\ saved # None => saved = srv
      /\ disk = mem
      /\ \A m \in Machines : /\ writing[m] = None /\ sync[m].at = "idle"
                             /\ mem[m] # None => /\ mem[m].meta = Header(1, 0, 1, None, FALSE)
                                                 /\ mem[m].pending = None
                             /\ \A p \in Pages : job[m][p] = Idle
  <2> DEFINE h == Header(1, 0, 1, None, FALSE)
             v == [meta |-> h, pending |-> None, holds |-> {1}]
  <2>1. /\ srv.meta \in {None, h} /\ saved \in {None, srv} /\ disk = mem
        /\ \A m \in Machines : mem[m] \in {None, v}
    <3>1. CASE srv = [meta |-> None, seq |-> 0, holds |-> {}]
               /\ mem = [m \in Machines |-> None]
      BY <3>1 DEF Init
    <3>2. ASSUME NEW having, mem = [m \in Machines |-> IF m \in having THEN v ELSE None],
                 srv = [meta |-> h, seq |-> 1, holds |-> {1}]
          PROVE  srv.meta \in {None, h} /\ \A m \in Machines : mem[m] \in {None, v}
      <4> HIDE DEF v, h
      <4> QED BY <3>2
    <3> QED BY <3>1, <3>2 DEF Init
  <2>2. v.meta = h /\ v.pending = None
    OBVIOUS
  <2>3. \A m \in Machines : /\ writing[m] = None /\ sync[m].at = "idle"
                             /\ \A p \in Pages : job[m][p] = Idle
    BY DEF Init, Resting
  <2> HIDE DEF v, h
  <2>4. \A m \in Machines : mem[m] # None => mem[m].meta = h /\ mem[m].pending = None
    BY <2>1, <2>2
  <2> QED BY <2>1, <2>3, <2>4 DEF h
<1>3. Travels(Header(1, 0, 1, None, FALSE))
  BY HeaderFacts
<1> QED BY <1>2, <1>3, SoundIdle DEF HeaderInv, SoundStores, SoundStore, SoundVaults, SoundVault,
          SoundJobs, SoundSyncs, Stays, Travels

(* The vault at hand, and its headers.                                     *)
LEMMA SoundHere ==
  ASSUME TypeInv, HeaderInv, NEW m \in Machines, mem[m] # None
  PROVE  /\ mem[m] \in Vaults /\ mem[m].meta \in Headers
         /\ Stays(m, mem[m].meta, log.printed)
         /\ mem[m].pending # None => mem[m].pending \in Headers /\ Travels(mem[m].pending)
         /\ mem[m].pending \in Headers \cup {None}
BY VaultFields DEF TypeInv, TypeOK, HeaderInv, SoundVaults, SoundVault

LEMMA HeaderStarts ==
  ASSUME TypeInv, HeaderInv, NEW m \in Machines, NEW p \in Pages,
         \/ StartSetup(m, p) \/ StartJoin(m, p) \/ StartAdopt(m, p)
         \/ StartChange(m, p) \/ StartSheet(m, p) \/ StartPrint(m, p)
  PROVE  HeaderInv'
<1>1. UNCHANGED <<srv, saved, mem, disk, writing, sync, log>>
  BY DEF StartSetup, StartJoin, StartAdopt, StartChange, StartSheet, StartPrint,
         server, local
<1>2. ASSUME NEW j, job' = [job EXCEPT ![m][p] = j], SoundJob(m, j, log.printed)
      PROVE  HeaderInv'
  <2>1. SoundJobs'
    BY <1>1, <1>2, SoundPage DEF HeaderInv
  <2> QED BY <1>1, <2>1 DEF HeaderInv, SoundStores, SoundVaults, SoundSyncs
<1> USE DEF SoundJob, Idle, Begin
<1>3. CASE StartSetup(m, p)
  BY <1>2, <1>3 DEF StartSetup
<1>4. CASE StartJoin(m, p)
  <2>1. srv.meta \in Headers /\ Travels(srv.meta)
    BY <1>4, ServerFields DEF StartJoin, HeaderInv, SoundStores
  <2>2. Travels(Portable(srv.meta))
    BY <2>1, FitFacts DEF Travels
  <2>3. job' = [job EXCEPT ![m][p] = [Idle EXCEPT !.op = "join", !.hdr = Portable(srv.meta)]]
    BY <1>4 DEF StartJoin
  <2> QED BY <1>2, <2>2, <2>3
<1>5. CASE StartAdopt(m, p)
  <2>1. ProofFits(mem[m].pending)
    BY <1>5, SoundHere DEF StartAdopt, Travels
  <2> QED BY <1>2, <1>5, <2>1 DEF StartAdopt
<1>6. CASE StartChange(m, p)
  <2> DEFINE h == Rewrapped(mem[m].meta, drawn.salt + 1)
  <2>1. mem[m].meta \in Headers /\ Stays(m, mem[m].meta, log.printed)
    BY <1>6, SoundHere DEF StartChange
  <2>2. drawn.salt + 1 \in Salts
    BY <1>6 DEF StartChange, Salts, TypeInv, TypeOK
  <2>3. Stays(m, h, log.printed)
    BY <2>1, <2>2, RewrappedFacts DEF Stays
  <2>4. job' = [job EXCEPT ![m][p] = [Idle EXCEPT !.op = "change", !.base = mem[m].meta.salt,
                                                 !.hdr = h]]
    BY <1>6 DEF StartChange
  <2> HIDE DEF h
  <2> QED BY <1>2, <2>3, <2>4
<1>7. CASE StartSheet(m, p)
  BY <1>2, <1>7 DEF StartSheet
<1>8. CASE StartPrint(m, p)
  BY <1>2, <1>8 DEF StartPrint
<1> QED BY <1>3, <1>4, <1>5, <1>6, <1>7, <1>8

LEMMA HeaderEnds ==
  ASSUME TypeInv, HeaderInv, NEW m \in Machines, NEW p \in Pages, NEW v,
         End(m, p), UNCHANGED <<server, disk, sync>>,
         log.printed \subseteq log'.printed,
         \/ MemIs(m, v) /\ Persist(m, v) /\ SoundVault(m, v, log'.printed)
         \/ SoundVaults' 
  PROVE  HeaderInv'
<1>1. SoundJobs'
  BY SoundPage, SoundIdle DEF End, HeaderInv
<1>2. SoundVaults'
  BY SoundLand DEF HeaderInv
<1> QED BY <1>1, <1>2 DEF HeaderInv, SoundStores, SoundSyncs, server

LEMMA HeaderFinishes ==
  ASSUME TypeInv, HeaderInv, NEW m \in Machines, NEW p \in Pages,
         \/ FinishSetup(m, p) \/ FinishJoin(m, p) \/ FinishAdopt(m, p)
         \/ FinishChange(m, p) \/ CloseSheet(m, p) \/ KeepCode(m, p)
         \/ FinishPrint(m, p)
  PROVE  HeaderInv'
<1>0. log \in Log /\ log.printed \in SUBSET Machines /\ SoundJob(m, job[m][p], log.printed)
  BY DEF TypeInv, TypeOK, Log, HeaderInv, SoundJobs
<1>1. CASE FinishSetup(m, p)
  <2> DEFINE v == [meta |-> Header(drawn.key + 1, 0, drawn.salt + 1, None, FALSE),
                   pending |-> None, holds |-> {}]
  <2>1. SoundVault(m, v, log'.printed)
    BY HeaderFacts DEF SoundVault, Stays, Travels
  <2>2. MemIs(m, v) /\ Persist(m, v) /\ End(m, p) /\ UNCHANGED <<server, disk, sync>>
        /\ log' = [log EXCEPT !.late = Late(m, p)]
    BY <1>1 DEF FinishSetup
  <2>3. log'.printed = log.printed
    BY <1>0, <2>2 DEF Log
  <2> HIDE DEF v
  <2> QED BY <2>1, <2>2, <2>3, HeaderEnds
<1>2. CASE FinishJoin(m, p)
  <2> DEFINE v == [meta |-> job[m][p].hdr, pending |-> None, holds |-> {}]
  <2>1. SoundVault(m, v, log'.printed)
    BY <1>0, <1>2 DEF FinishJoin, SoundJob, SoundVault, Travels, Stays
  <2>2. MemIs(m, v) /\ Persist(m, v) /\ End(m, p) /\ UNCHANGED <<server, disk, sync>>
    BY <1>2 DEF FinishJoin
  <2>3. log'.printed = log.printed
    BY <1>0, <1>2 DEF FinishJoin, Log
  <2> HIDE DEF v
  <2> QED BY <2>1, <2>2, <2>3, HeaderEnds
<1>3. CASE FinishAdopt(m, p)
  <2> DEFINE v == mem[m]
             h == job[m][p].hdr
             g == [h EXCEPT !.bio = v.meta.bio]
             adopted == [v EXCEPT !.meta = g, !.pending = None]
  <2>0. v \in Vaults /\ v # None /\ v.meta \in Headers /\ Stays(m, v.meta, log.printed)
        /\ h \in Headers /\ ProofFits(h)
    BY <1>0, <1>3, JobFields, SoundHere DEF FinishAdopt, SoundJob
  <2>1. End(m, p) /\ UNCHANGED <<server, disk, sync>> /\ log'.printed = log.printed
    BY <1>0, <1>3 DEF FinishAdopt, Log
  <2>2. CASE MemIs(m, [v EXCEPT !.pending = None]) /\ UNCHANGED <<writing, log>>
    <3>1. SoundVault(m, [v EXCEPT !.pending = None], log'.printed)
      BY <2>0, <2>2 DEF Vaults, SoundVault
    <3>2. SoundVaults'
      BY <2>1, <2>2, <3>1 DEF MemIs, TypeInv, TypeOK, HeaderInv, SoundVaults
    <3> QED BY <2>1, <3>2, HeaderEnds
  <2>3. CASE UNCHANGED <<mem, writing, log>>
    <3>1. SoundVaults'
      BY <2>1, <2>3 DEF HeaderInv, SoundVaults
    <3> QED BY <2>1, <3>1, HeaderEnds
  <2>4. CASE MemIs(m, adopted) /\ Persist(m, adopted)
    <3>1. ProofFits(g) /\ g.bio = v.meta.bio /\ g \in Headers
      BY <2>0, FitFacts, HeaderFields DEF Headers
    <3>2. adopted.meta = g /\ adopted.pending = None
      <4> HIDE DEF g
      <4> QED BY <2>0 DEF Vaults
    <3>3. SoundVault(m, adopted, log'.printed)
      <4> HIDE DEF adopted, g
      <4> QED BY <2>0, <2>1, <3>1, <3>2 DEF SoundVault, Stays
    <3> HIDE DEF adopted
    <3> QED BY <2>1, <2>4, <3>3, HeaderEnds
  <2> QED BY <1>3, <2>2, <2>3, <2>4 DEF FinishAdopt
<1>4. CASE FinishChange(m, p)
  <2> DEFINE v == [mem[m] EXCEPT !.meta = job[m][p].hdr, !.pending = None]
  <2>1. mem[m] \in Vaults /\ Stays(m, job[m][p].hdr, log.printed)
    BY <1>0, <1>4, JobFields, SoundHere DEF FinishChange, SoundJob
  <2>2. MemIs(m, v) /\ Persist(m, v) /\ End(m, p) /\ UNCHANGED <<server, disk, sync>>
        /\ log' = [log EXCEPT !.late = Late(m, p)]
    BY <1>4 DEF FinishChange
  <2>3. log'.printed = log.printed
    BY <1>0, <2>2 DEF Log
  <2>4. v.meta = job[m][p].hdr /\ v.pending = None
    BY <2>1 DEF Vaults
  <2> HIDE DEF v
  <2> QED BY <2>1, <2>2, <2>3, <2>4, HeaderEnds DEF SoundVault
<1>5. CASE CloseSheet(m, p)
  <2>1. SoundVaults'
    BY <1>5 DEF CloseSheet, HeaderInv, SoundVaults, local
  <2> QED BY <1>5, <2>1, HeaderEnds DEF CloseSheet, local
<1>6. CASE KeepCode(m, p)
  <2> DEFINE g == [mem[m].meta EXCEPT !.rec = job[m][p].code]
             v == [mem[m] EXCEPT !.meta = g]
  <2>1. /\ mem[m] \in Vaults /\ Stays(m, mem[m].meta, log.printed) /\ mem[m].meta \in Headers
        /\ mem[m].pending # None => Travels(mem[m].pending)
        /\ job[m][p].code \in RecCodes
    BY <1>6, JobFields, SoundHere DEF KeepCode
  <2>2. MemIs(m, v) /\ Persist(m, v) /\ End(m, p) /\ UNCHANGED <<server, disk, sync>>
    BY <1>6 DEF KeepCode
  <2>3. log'.printed = log.printed
    BY <1>0, <1>6 DEF KeepCode, Log
  <2>4. Stays(m, g, log.printed)
    <3>1. /\ g \in Headers /\ g.key = mem[m].meta.key /\ g.gen = mem[m].meta.gen
          /\ g.salt = mem[m].meta.salt /\ g.proof = mem[m].meta.proof
          /\ g.bio = mem[m].meta.bio
      BY <2>1 DEF Headers
    <3> HIDE DEF g
    <3>2. ProofFits(g)
      BY <2>1, <3>1, SameProof DEF Stays
    <3> QED BY <2>1, <3>1, <3>2 DEF Stays
  <2>5. v.meta = g /\ v.pending = mem[m].pending
    <3> HIDE DEF g
    <3> QED BY <2>1 DEF Vaults
  <2> HIDE DEF v, g
  <2>6. SoundVault(m, v, log'.printed)
    <3>1. Stays(m, g, log'.printed)
      BY <2>3, <2>4 DEF Stays
    <3>2. Stays(m, v.meta, log'.printed)
      BY <2>5, <3>1
    <3>3. v.pending # None => Travels(v.pending)
      BY <2>1, <2>5
    <3> QED BY <3>2, <3>3 DEF SoundVault
  <2> QED BY <2>2, <2>3, <2>6, HeaderEnds
<1>7. CASE FinishPrint(m, p)
  <2> DEFINE b == mem[m].meta.bio \/ job[m][p].base = mem[m].meta.salt
             g == [mem[m].meta EXCEPT !.bio = b]
             v == [mem[m] EXCEPT !.meta = g]
  <2>1. /\ mem[m] \in Vaults /\ Stays(m, mem[m].meta, log.printed) /\ mem[m].meta \in Headers
        /\ mem[m].pending # None => Travels(mem[m].pending)
        /\ mem[m].meta.bio \in BOOLEAN
    BY <1>7, JobFields, SoundHere, HeaderFields DEF FinishPrint
  <2>2. MemIs(m, v) /\ Persist(m, v) /\ End(m, p) /\ UNCHANGED <<server, disk, sync>>
    BY <1>7 DEF FinishPrint
  <2>3. log'.printed = log.printed \cup {m}
    BY <1>0, <1>7 DEF FinishPrint, Log
  <2>4. ProofFits(g)
    <3>1. b \in BOOLEAN
      BY <2>1
    <3> HIDE DEF b
    <3>2. /\ g \in Headers /\ g.key = mem[m].meta.key /\ g.gen = mem[m].meta.gen
          /\ g.salt = mem[m].meta.salt /\ g.proof = mem[m].meta.proof
      BY <2>1, <3>1 DEF Headers
    <3> HIDE DEF g
    <3> QED BY <2>1, <3>2, SameProof DEF Stays
  <2>5. v.meta = g /\ v.pending = mem[m].pending
    <3> HIDE DEF g
    <3> QED BY <2>1 DEF Vaults
  <2> HIDE DEF v, g
  <2>6. SoundVault(m, v, log'.printed)
    <3>1. Stays(m, g, log'.printed)
      BY <2>3, <2>4 DEF Stays
    <3>2. Stays(m, v.meta, log'.printed)
      BY <2>5, <3>1
    <3>3. v.pending # None => Travels(v.pending)
      BY <2>1, <2>5
    <3> QED BY <3>2, <3>3 DEF SoundVault
  <2> QED BY <2>2, <2>3, <2>6, HeaderEnds
<1> QED BY <1>1, <1>2, <1>3, <1>4, <1>5, <1>6, <1>7

LEMMA HeaderRefreshes ==
  ASSUME TypeInv, HeaderInv, NEW m \in Machines,
         \/ ForgetPrint(m) \/ AddRecord(m) \/ RefuseDiverged(m)
         \/ MoveRecords(m) \/ FailRecords(m)
  PROVE  HeaderInv'
<1>1. /\ mem[m] # None /\ UNCHANGED <<saved, disk, job>> /\ srv'.meta = srv.meta
      /\ \A n \in Machines : sync'[n].at = "put" => sync'[n] = sync[n]
  BY MoveSteps, IdleType
  DEF ForgetPrint, AddRecord, RefuseDiverged, MoveRecords, FailRecords, TypeInv, TypeOK,
      SyncShape, server
<1>2. log'.printed = log.printed
  BY DEF ForgetPrint, AddRecord, RefuseDiverged, MoveRecords, FailRecords, TypeInv,
         TypeOK, Log
<1>3. /\ mem[m] \in Vaults /\ mem[m].meta \in Headers
      /\ Stays(m, mem[m].meta, log.printed)
      /\ mem[m].pending # None => Travels(mem[m].pending)
  BY <1>1, SoundHere
<1>4. ASSUME NEW v, MemIs(m, v), Persist(m, v), SoundVault(m, v, log.printed)
      PROVE  HeaderInv'
  <2>1. SoundVaults'
    BY <1>1, <1>2, <1>4, SoundLand DEF HeaderInv
  <2> QED BY <1>1, <1>2, <2>1 DEF HeaderInv, SoundStores, SoundJobs, SoundSyncs
<1>5. SoundVault(m, mem[m], log.printed)
  BY <1>3 DEF SoundVault
<1>6. CASE ForgetPrint(m)
  <2> DEFINE g == [mem[m].meta EXCEPT !.bio = FALSE]
             v == [mem[m] EXCEPT !.meta = g]
  <2>1. Travels(g)
    BY <1>3, FitFacts DEF Stays, Portable
  <2>2. v.meta = g /\ v.pending = mem[m].pending
    <3> HIDE DEF g
    <3> QED BY <1>3 DEF Vaults
  <2>3. MemIs(m, v) /\ Persist(m, v)
    BY <1>6 DEF ForgetPrint
  <2> HIDE DEF g, v
  <2>4. Stays(m, v.meta, log.printed)
    BY <2>1, <2>2 DEF Travels, Stays
  <2> QED BY <1>3, <1>4, <2>2, <2>3, <2>4 DEF SoundVault
<1>7. ASSUME NEW S, MemIs(m, [mem[m] EXCEPT !.holds = S]),
             Persist(m, [mem[m] EXCEPT !.holds = S])
      PROVE  HeaderInv'
  <2> DEFINE v == [mem[m] EXCEPT !.holds = S]
  <2>1. v.meta = mem[m].meta /\ v.pending = mem[m].pending
    BY <1>3 DEF Vaults
  <2> HIDE DEF v
  <2>2. SoundVault(m, v, log.printed)
    BY <1>3, <2>1 DEF SoundVault
  <2> QED BY <1>4, <1>7, <2>2 DEF v
<1>8. CASE AddRecord(m)
  BY <1>7, <1>8 DEF AddRecord
<1>9. CASE MoveRecords(m)
  BY <1>7, <1>9 DEF MoveRecords
<1>10. CASE RefuseDiverged(m) \/ FailRecords(m)
  <2>1. MemIs(m, mem[m]) /\ Persist(m, mem[m])
    BY <1>10 DEF RefuseDiverged, FailRecords, MemIs, TypeInv, TypeOK
  <2> QED BY <1>4, <1>5, <2>1
<1> QED BY <1>6, <1>8, <1>9, <1>10

LEMMA HeaderStorage ==
  ASSUME TypeInv, HeaderInv, NEW m \in Machines, Flush(m) \/ Crash(m)
  PROVE  HeaderInv'
<1>1. UNCHANGED <<srv, saved>> /\ log'.printed = log.printed
  BY DEF Flush, Crash, server, TypeInv, TypeOK, Log
<1>2. SoundVaults'
  BY <1>1 DEF Flush, Crash, TypeInv, TypeOK, HeaderInv, SoundVaults, SoundVault
<1>3. CASE Flush(m)
  BY <1>1, <1>2, <1>3 DEF Flush, HeaderInv, SoundStores, SoundJobs, SoundSyncs
<1>4. CASE Crash(m)
  <2>1. \A n \in Machines, p \in Pages :
          job'[n][p] = IF n = m THEN Idle ELSE job[n][p]
    BY <1>4 DEF Crash, TypeInv, TypeOK
  <2>2. SoundJobs'
    BY <1>1, <2>1, SoundIdle DEF HeaderInv, SoundJobs
  <2>3. SoundSyncs'
    BY <1>4, IdleType DEF Crash, TypeInv, TypeOK, HeaderInv, SoundSyncs
  <2> QED BY <1>1, <1>2, <2>2, <2>3 DEF HeaderInv, SoundStores
<1> QED BY <1>3, <1>4

LEMMA HeaderSyncs ==
  ASSUME TypeInv, HeaderInv, NEW m \in Machines, ReadHeader(m) \/ Publish(m)
  PROVE  HeaderInv'
<1>1. /\ mem[m] \in Vaults /\ mem[m].meta \in Headers /\ mem[m] # None
      /\ Stays(m, mem[m].meta, log.printed)
  BY SoundHere DEF ReadHeader, Publish, TypeInv, SyncShape
<1>2. CASE ReadHeader(m)
  <2>1. UNCHANGED <<srv, saved, disk, writing, job, log>>
    BY <1>2 DEF ReadHeader, server
  <2>2. CASE /\ srv.meta # None
             /\ MemIs(m, [mem[m] EXCEPT !.pending = Portable(srv.meta)])
             /\ sync' = [sync EXCEPT ![m] = HeaderDone]
    <3> DEFINE h == Portable(srv.meta)
               v == [mem[m] EXCEPT !.pending = h]
    <3>1. Travels(h)
      BY <2>2, ServerFields, FitFacts DEF HeaderInv, SoundStores, Travels
    <3>2. v.meta = mem[m].meta /\ v.pending = h
      <4> HIDE DEF h
      <4> QED BY <1>1 DEF Vaults
    <3> HIDE DEF h
    <3>3. SoundVault(m, v, log.printed)
      <4> HIDE DEF v
      <4> QED BY <1>1, <3>1, <3>2 DEF SoundVault
    <3>4. MemIs(m, v)
      BY <2>2 DEF h
    <3> HIDE DEF v
    <3>5. SoundVaults'
      BY <2>1, <3>3, <3>4 DEF MemIs, TypeInv, TypeOK, HeaderInv, SoundVaults
    <3>6. SoundSyncs'
      BY <2>2, IdleType DEF TypeInv, TypeOK, HeaderInv, SoundSyncs
    <3> QED BY <2>1, <3>5, <3>6 DEF HeaderInv, SoundStores, SoundJobs
  <2>3. CASE sync' = [sync EXCEPT ![m] = HeaderDone] /\ UNCHANGED mem
    <3>1. SoundSyncs'
      BY <2>3, IdleType DEF TypeInv, TypeOK, HeaderInv, SoundSyncs
    <3> QED BY <2>1, <2>3, <3>1 DEF HeaderInv, SoundStores, SoundJobs, SoundVaults
  <2>4. CASE /\ sync' = [sync EXCEPT ![m] =
                  [at |-> "put", hdr |-> Portable(mem[m].meta), seq |-> srv.seq]]
             /\ UNCHANGED mem
    <3>1. Travels(Portable(mem[m].meta))
      BY <1>1, FitFacts DEF Stays
    <3>2. SoundSyncs'
      BY <2>4, <3>1 DEF TypeInv, TypeOK, HeaderInv, SoundSyncs
    <3> QED BY <2>1, <2>4, <3>2 DEF HeaderInv, SoundStores, SoundJobs, SoundVaults
  <2> QED BY <1>2, <2>2, <2>3, <2>4 DEF ReadHeader
<1>3. CASE Publish(m)
  <2>1. /\ UNCHANGED <<saved, mem, disk, job>> /\ log'.printed = log.printed
        /\ \/ UNCHANGED writing
           \/ Persist(m, mem[m])
    BY <1>3 DEF Publish, ServerNow, TypeInv, TypeOK, Log
  <2>2. SoundVaults'
    BY <2>1 DEF Persist, TypeInv, TypeOK, HeaderInv, SoundVaults, SoundVault
  <2>3. SoundSyncs' /\ SoundStores'
    BY <1>3, <2>1, PublishSteps DEF HeaderInv, SoundSyncs, SoundStores
  <2> QED BY <2>1, <2>2, <2>3 DEF HeaderInv, SoundJobs
<1> QED BY <1>2, <1>3

LEMMA HeaderElse ==
  ASSUME TypeInv, HeaderInv,
         \/ Backup \/ Restore \/ UNCHANGED vars
         \/ \E m, a \in Machines : EnrolWithCodeOf(m, a)
  PROVE  HeaderInv'
<1>1. UNCHANGED <<mem, disk, writing, job, sync>> /\ log'.printed = log.printed
  BY DEF Backup, Restore, EnrolWithCodeOf, vars, local, TypeInv, TypeOK, Log
<1>2. SoundStores'
  BY DEF Backup, Restore, EnrolWithCodeOf, vars, server, HeaderInv, SoundStores, SoundStore
<1> QED BY <1>1, <1>2 DEF HeaderInv, SoundVaults, SoundJobs, SoundSyncs

LEMMA HeaderNext == TypeInv /\ HeaderInv /\ [Next]_vars => HeaderInv'
BY HeaderStarts, HeaderFinishes, HeaderRefreshes, HeaderStorage, HeaderSyncs, HeaderElse
DEF Next, Machine, Page

(* The proof of a header on the server is about that header, whoever       *)
(* published it, and whatever copy of the server was put back.             *)
THEOREM PublishedIsProved == Spec => []PublishedAdoptable
<1>1. Init => TypeInv /\ HeaderInv
  BY InitType, HeaderInit
<1>2. TypeInv /\ HeaderInv /\ [Next]_vars => (TypeInv /\ HeaderInv)'
  BY NextType, HeaderNext
<1>3. HeaderInv => PublishedAdoptable
  BY DEF HeaderInv, SoundStores, Travels, ProofFits, PublishedAdoptable
<1> QED BY <1>1, <1>2, <1>3, PTL DEF Spec

(* A fingerprint wrapping never leaves the machine it was made on.         *)
THEOREM FingerprintNeverLeaves == Spec => []FingerprintStaysHome
<1>1. Init => TypeInv /\ HeaderInv
  BY InitType, HeaderInit
<1>2. TypeInv /\ HeaderInv /\ [Next]_vars => (TypeInv /\ HeaderInv)'
  BY NextType, HeaderNext
<1>3. HeaderInv => FingerprintStaysHome
  BY DEF HeaderInv, SoundStores, SoundVaults, SoundSyncs, SoundVault, Stays, Travels,
         FingerprintStaysHome
<1> QED BY <1>1, <1>2, <1>3, PTL DEF Spec

-----------------------------------------------------------------------------
(* A machine's own vault.  Every password is new, so a salt belongs to one *)
(* key and one generation for good: a table t says which, and holds of the *)
(* salts no header has any more.                                           *)
Tables == [Salts -> [key : Keys, gen : Nat]]
Fits(t, n, h) ==
  h # None => /\ h.salt <= n
              /\ t[h.salt].key = h.key /\ t[h.salt].gen = h.gen
VaultFits(t, n, v) == v # None => Fits(t, n, v.meta) /\ Fits(t, n, v.pending)
StoreFits(t, n, s) == s # None => Fits(t, n, s.meta)

(* A handler goes to a higher generation than it came from, a change to    *)
(* the same vault.                                                         *)
JobFits(t, n, j) ==
  /\ j.op \in {"join", "adopt", "change"} => Fits(t, n, j.hdr)
  /\ j.op \in {"adopt", "change"} =>
       j.base <= n /\ j.hdr.gen > t[j.base].gen
  /\ j.op = "change" => j.hdr.key = t[j.base].key

(* What memory holds is what was last written, or is on its way.           *)
Last(w, d) == IF w # None THEN w ELSE d
InStep(v, w, d) ==
  /\ v = None <=> Last(w, d) = None
  /\ v # None => v.meta = Last(w, d).meta /\ v.holds = Last(w, d).holds

(* As long as nothing landed late: no handler of js came from a header     *)
(* ahead of the vault's, v; a change carries its recovery code; v succeeds *)
(* the vault in storage, d; the salts d moved on from are behind it; and   *)
(* the codes told of are in.                                               *)
HandlersOf(t, js, v) ==
  \A p \in Pages :
    /\ js[p].op \in {"adopt", "change"} => t[js[p].base].gen <= v.meta.gen
    /\ js[p].op = "change" /\ js[p].base = v.meta.salt => js[p].hdr.rec = v.meta.rec
Succeeds(v, d) ==
  /\ v.meta.key = d.meta.key \/ v.meta.key \in v.holds
  /\ v.meta.salt = d.meta.salt \/ v.meta.gen > d.meta.gen
MovedOn(t, v, d, gone) ==
  /\ d # None => v # None /\ Succeeds(v, d)
  /\ \A s \in gone : d # None /\ t[s].gen < d.meta.gen
Codes(v, d, kept, told) ==
  /\ kept # None => v # None /\ v.meta.rec = kept
  /\ told # None => d # None /\ d.meta.rec = told
  /\ told # None /\ kept = None => v # None /\ v.meta.rec = told
OnTime(t, m) ==
  /\ HandlersOf(t, job[m], mem[m])
  /\ MovedOn(t, mem[m], disk[m], log.retired[m])
  /\ Codes(mem[m], disk[m], log.kept[m], log.told[m])

Own(t, m) ==
  /\ VaultFits(t, drawn.salt, mem[m]) /\ VaultFits(t, drawn.salt, disk[m])
  /\ VaultFits(t, drawn.salt, writing[m])
  /\ sync[m].at = "put" => Fits(t, drawn.salt, sync[m].hdr)
  /\ \A p \in Pages : JobFits(t, drawn.salt, job[m][p])
  /\ \A s \in log.retired[m] : s <= drawn.salt
  /\ InStep(mem[m], writing[m], disk[m])
  /\ m \notin log.late => OnTime(t, m)
OwnInv(t) ==
  /\ Fits(t, drawn.salt, srv.meta) /\ StoreFits(t, drawn.salt, saved)
  /\ \A m \in Machines : Own(t, m)
LocalInv == \E t \in Tables : OwnInv(t)

(* What the kinds of a machine's parts say of the numbers in them.         *)
LEMMA OwnFields ==
  ASSUME TypeInv, NEW m \in Machines
  PROVE  /\ mem[m] \in Vaults \cup {None} /\ disk[m] \in Vaults \cup {None}
         /\ writing[m] \in Vaults \cup {None} /\ drawn.salt \in 0 .. MaxSalts
         /\ drawn.salt \in Nat
         /\ \A v \in {mem[m], disk[m], writing[m]} :
              v # None => /\ v.meta \in Headers /\ v.meta.gen \in Nat
                          /\ v.meta.salt \in Salts /\ v.meta.salt \in Nat
                          /\ v.pending \in Headers \cup {None}
         /\ log.retired[m] \in SUBSET Salts
         /\ sync[m].at = "put" => sync[m].hdr \in Headers
<1>1. /\ mem[m] \in Vaults \cup {None} /\ disk[m] \in Vaults \cup {None}
      /\ writing[m] \in Vaults \cup {None} /\ drawn.salt \in 0 .. MaxSalts
      /\ log.retired[m] \in SUBSET Salts
      /\ sync[m].at = "put" => sync[m].hdr \in Headers
  BY LogType DEF TypeInv, TypeOK, SyncShape
<1>2. ASSUME NEW v \in Vaults
      PROVE  /\ v.meta \in Headers /\ v.meta.gen \in Nat
             /\ v.meta.salt \in Salts /\ v.meta.salt \in Nat
             /\ v.pending \in Headers \cup {None}
  <2>1. v.meta \in Headers /\ v.pending \in Headers \cup {None}
    BY VaultFields
  <2>2. v.meta.gen \in Nat /\ v.meta.salt \in Salts
    BY <2>1, HeaderFields
  <2> QED BY <2>1, <2>2 DEF Salts
<1> QED BY <1>1, <1>2

(* Drawing more salts leaves a table right; so does what it says of salts  *)
(* nobody has drawn.                                                       *)
LEMMA FitsMore ==
  ASSUME NEW t, NEW u, NEW n \in Nat, NEW k \in Nat, n <= k,
         \A s \in Salts : s <= n => u[s] = t[s]
  PROVE  /\ \A h \in Headers \cup {None} : Fits(t, n, h) => Fits(u, k, h)
         /\ \A v \in Vaults \cup {None} : VaultFits(t, n, v) => VaultFits(u, k, v)
         /\ \A s \in Stores \cup {None} : StoreFits(t, n, s) => StoreFits(u, k, s)
         /\ \A j : GoodJob(j) /\ JobFits(t, n, j) => JobFits(u, k, j)
<1>1. \A h \in Headers \cup {None} : Fits(t, n, h) => Fits(u, k, h)
  BY HeaderFields DEF Fits, Salts
<1>2. \A v \in Vaults \cup {None} : VaultFits(t, n, v) => VaultFits(u, k, v)
  BY <1>1, VaultFields DEF VaultFits
<1>3. \A s \in Stores \cup {None} : StoreFits(t, n, s) => StoreFits(u, k, s)
  BY <1>1 DEF StoreFits, Stores
<1>4. \A j : GoodJob(j) /\ JobFits(t, n, j) => JobFits(u, k, j)
  BY <1>1 DEF GoodJob, JobFits, Salts
<1> QED BY <1>1, <1>2, <1>3, <1>4

LEMMA JobIsGood ==
  ASSUME TypeInv, NEW m \in Machines, NEW p \in Pages
  PROVE  GoodJob(job[m][p])
BY JobFields DEF GoodJob

LEMMA Another ==
  ASSUME TypeInv, NEW t \in Tables, NEW u \in Tables, OwnInv(t),
         \A s \in Salts : s <= drawn.salt => u[s] = t[s]
  PROVE  OwnInv(u)
<1>1. /\ \A h \in Headers \cup {None} : Fits(t, drawn.salt, h) => Fits(u, drawn.salt, h)
      /\ \A v \in Vaults \cup {None} :
           VaultFits(t, drawn.salt, v) => VaultFits(u, drawn.salt, v)
      /\ \A s \in Stores \cup {None} :
           StoreFits(t, drawn.salt, s) => StoreFits(u, drawn.salt, s)
      /\ \A j : GoodJob(j) /\ JobFits(t, drawn.salt, j) => JobFits(u, drawn.salt, j)
  <2>1. drawn.salt \in Nat /\ drawn.salt <= drawn.salt
    BY DEF TypeInv, TypeOK
  <2> QED BY <2>1, FitsMore
<1>2. Fits(u, drawn.salt, srv.meta) /\ StoreFits(u, drawn.salt, saved)
  BY <1>1, ServerFields DEF OwnInv, TypeInv, TypeOK
<1>3. ASSUME NEW m \in Machines PROVE Own(u, m)
  <2>1. Own(t, m)
    BY DEF OwnInv
  <2>2. /\ VaultFits(u, drawn.salt, mem[m]) /\ VaultFits(u, drawn.salt, disk[m])
        /\ VaultFits(u, drawn.salt, writing[m])
        /\ sync[m].at = "put" => Fits(u, drawn.salt, sync[m].hdr)
    BY <1>1, <2>1, OwnFields DEF Own
  <2>3. \A p \in Pages : JobFits(u, drawn.salt, job[m][p])
    BY <1>1, <2>1, JobIsGood DEF Own
  <2>4. HandlersOf(t, job[m], mem[m]) => HandlersOf(u, job[m], mem[m])
    BY <2>1, JobFields DEF Own, JobFits, HandlersOf
  <2>5. MovedOn(t, mem[m], disk[m], log.retired[m])
          => MovedOn(u, mem[m], disk[m], log.retired[m])
    BY <2>1, OwnFields DEF Own, MovedOn
  <2> QED BY <2>1, <2>2, <2>3, <2>4, <2>5 DEF Own, OnTime
<1> QED BY <1>2, <1>3 DEF OwnInv

(* What a step does not touch stays as it is.                              *)
Untouched(m) ==
  /\ mem'[m] = mem[m] /\ disk'[m] = disk[m] /\ writing'[m] = writing[m]
  /\ sync'[m].at = "put" => sync'[m] = sync[m]
  /\ log'.retired[m] = log.retired[m] /\ log'.kept[m] = log.kept[m]
  /\ log'.told[m] = log.told[m] /\ (m \in log.late => m \in log'.late)
  /\ drawn.salt <= drawn'.salt

LEMMA OwnStays ==
  ASSUME TypeInv, TypeInv', NEW t \in Tables, NEW m \in Machines, Own(t, m),
         Untouched(m), job'[m] = job[m]
  PROVE  Own(t, m)'
<1>1. drawn.salt \in Nat /\ drawn'.salt \in Nat /\ drawn.salt <= drawn'.salt
  BY DEF TypeInv, TypeOK, Untouched
<1>2. /\ VaultFits(t, drawn'.salt, mem[m]) /\ VaultFits(t, drawn'.salt, disk[m])
      /\ VaultFits(t, drawn'.salt, writing[m])
      /\ sync[m].at = "put" => Fits(t, drawn'.salt, sync[m].hdr)
  BY <1>1, FitsMore, OwnFields DEF Own
<1>3. \A p \in Pages : JobFits(t, drawn'.salt, job[m][p])
  BY <1>1, FitsMore, JobIsGood DEF Own
<1>4. \A s \in log.retired[m] : s <= drawn'.salt
  BY <1>1, OwnFields DEF Own, Salts
<1>5. OnTime(t, m) => OnTime(t, m)'
  BY DEF OnTime, Untouched
<1> QED BY <1>2, <1>3, <1>4, <1>5 DEF Own, Untouched

LEMMA OwnElsewhere ==
  ASSUME TypeInv, TypeInv', NEW t \in Tables, OwnInv(t), NEW m \in Machines,
         srv'.meta = srv.meta, saved' = saved, drawn.salt <= drawn'.salt,
         \A n \in Machines \ {m} : Untouched(n) /\ job'[n] = job[n],
         Own(t, m)'
  PROVE  OwnInv(t)'
<1>1. drawn.salt \in Nat /\ drawn'.salt \in Nat
  BY DEF TypeInv, TypeOK
<1>2. Fits(t, drawn'.salt, srv'.meta) /\ StoreFits(t, drawn'.salt, saved')
  BY <1>1, FitsMore, ServerFields DEF OwnInv, TypeInv, TypeOK
<1>3. \A n \in Machines \ {m} : Own(t, n)'
  BY OwnStays DEF OwnInv
<1> QED BY <1>2, <1>3 DEF OwnInv

LEMMA LocalInit == Init => LocalInv
<1> SUFFICES ASSUME Init PROVE LocalInv
  OBVIOUS
<1> DEFINE t == [s \in Salts |-> [key |-> 1, gen |-> 0]]
           h == Header(1, 0, 1, None, FALSE)
           v == [meta |-> h, pending |-> None, holds |-> {1}]
<1>1. t \in Tables
  BY DEF Tables, Keys
<1>2. Fits(t, 1, h) /\ \A n : Fits(t, n, None)
  <2>1. 1 \in Salts
    BY DEF Salts
  <2>2. h.key = 1 /\ h.gen = 0 /\ h.salt = 1
    BY DEF Header
  <2> HIDE DEF h
  <2> QED BY <2>1, <2>2 DEF Fits
<1>3. VaultFits(t, 1, v) /\ \A n : VaultFits(t, n, None) /\ StoreFits(t, n, None)
  BY <1>2 DEF VaultFits, StoreFits
<1>4. /\ \A n : JobFits(t, n, Idle) /\ \A w : Idle.op \notin {"adopt", "change"}
      /\ Resting.at # "put"
  BY IdleType DEF JobFits, Idle
<1> HIDE DEF t, h
<1>5. CASE /\ mem = [m \in Machines |-> None]
           /\ srv = [meta |-> None, seq |-> 0, holds |-> {}]
           /\ drawn = [salt |-> 0, code |-> 0, key |-> 0]
  <2>1. /\ \A m \in Machines : mem[m] = None /\ disk[m] = None
        /\ Fits(t, drawn.salt, srv.meta) /\ StoreFits(t, drawn.salt, saved)
    BY <1>2, <1>3, <1>5 DEF Init, StoreFits
  <2>2. ASSUME NEW m \in Machines PROVE Own(t, m)
    BY <1>3, <1>4, <2>1
    DEF Init, Own, OnTime, InStep, Last, HandlersOf, MovedOn, Codes
  <2>3. OwnInv(t)
    BY <2>1, <2>2 DEF OwnInv
  <2> QED BY <1>1, <2>3 DEF LocalInv
<1>6. ASSUME NEW having \in SUBSET Machines,
             mem = [m \in Machines |-> IF m \in having THEN v ELSE None],
             srv = [meta |-> h, seq |-> 1, holds |-> {1}],
             drawn = [salt |-> 1, code |-> 0, key |-> 1]
      PROVE  LocalInv
  <2>1. /\ \A m \in Machines : mem[m] \in {v, None} /\ disk[m] = mem[m]
        /\ drawn.salt = 1
        /\ Fits(t, drawn.salt, srv.meta) /\ StoreFits(t, drawn.salt, saved)
    BY <1>2, <1>3, <1>6 DEF Init, StoreFits
  <2> HIDE DEF v
  <2>2. ASSUME NEW m \in Machines PROVE Own(t, m)
    BY <1>3, <1>4, <2>1
    DEF Init, Own, OnTime, InStep, Last, HandlersOf, MovedOn, Codes, Succeeds
  <2>3. OwnInv(t)
    BY <2>1, <2>2 DEF OwnInv
  <2> QED BY <1>1, <2>3 DEF LocalInv
<1> QED BY <1>5, <1>6 DEF Init, h

(* A handler begins: it comes from the vault's own header.                 *)
LEMMA OwnBegin ==
  ASSUME TypeInv, TypeInv', NEW t \in Tables, OwnInv(t),
         NEW m \in Machines, NEW p \in Pages, NEW j,
         JobFits(t, drawn'.salt, j),
         j.op \in {"adopt", "change"} => j.base = mem[m].meta.salt /\ mem[m] # None,
         j.op = "change" => j.hdr.rec = mem[m].meta.rec,
         job' = [job EXCEPT ![m][p] = j], drawn.salt <= drawn'.salt,
         UNCHANGED <<server, local, sync, log>>
  PROVE  OwnInv(t)'
<1>0. drawn.salt \in Nat /\ drawn'.salt \in Nat
  BY DEF TypeInv, TypeOK
<1>1. \A n \in Machines : Untouched(n)
  BY DEF Untouched, local
<1>2. \A n \in Machines, q \in Pages :
        job'[n][q] = IF n = m /\ q = p THEN j ELSE job[n][q]
  BY DEF TypeInv, TypeOK
<1>3. \A n \in Machines \ {m} : job'[n] = job[n]
  BY DEF TypeInv, TypeOK
<1>4. Own(t, m) /\ UNCHANGED <<mem, disk, writing, sync, log>>
  BY DEF OwnInv, local
<1>5. \A q \in Pages : JobFits(t, drawn'.salt, job'[m][q])
  <2>1. \A q \in Pages : JobFits(t, drawn'.salt, job[m][q])
    BY <1>0, <1>4, FitsMore, JobIsGood DEF Own
  <2> QED BY <1>2, <2>1
<1>6. mem[m] # None => t[mem[m].meta.salt].gen = mem[m].meta.gen /\ mem[m].meta.gen \in Nat
  BY <1>4, OwnFields DEF Own, VaultFits, Fits
<1>7. HandlersOf(t, job[m], mem[m]) => HandlersOf(t, job'[m], mem[m])
  BY <1>2, <1>6 DEF HandlersOf
<1>8. /\ VaultFits(t, drawn'.salt, mem[m]) /\ VaultFits(t, drawn'.salt, disk[m])
      /\ VaultFits(t, drawn'.salt, writing[m])
      /\ sync[m].at = "put" => Fits(t, drawn'.salt, sync[m].hdr)
  BY <1>0, <1>4, FitsMore, OwnFields DEF Own
<1>9. \A s \in log.retired[m] : s <= drawn'.salt
  BY <1>0, <1>4, OwnFields DEF Own, Salts
<1>10. Own(t, m)'
  BY <1>4, <1>5, <1>7, <1>8, <1>9 DEF Own, OnTime
<1> QED BY <1>1, <1>3, <1>10, OwnElsewhere DEF server

(* The next salt is given to the key and generation that take it.          *)
LEMMA Extend ==
  ASSUME TypeInv, NEW t \in Tables, OwnInv(t), drawn.salt < MaxSalts,
         NEW k \in Keys, NEW g \in Nat
  PROVE  \E u \in Tables :
           /\ OwnInv(u) /\ \A s \in Salts : s <= drawn.salt => u[s] = t[s]
           /\ u[drawn.salt + 1].key = k /\ u[drawn.salt + 1].gen = g
<1> DEFINE u == [t EXCEPT ![drawn.salt + 1] = [key |-> k, gen |-> g]]
<1>1. drawn.salt \in Nat /\ drawn.salt + 1 \in Salts
  BY DEF TypeInv, TypeOK, Salts
<1>2. u \in Tables
  BY DEF Tables
<1>3. \A s \in Salts : s <= drawn.salt => u[s] = t[s]
  BY <1>1 DEF Tables, Salts
<1>4. u[drawn.salt + 1] = [key |-> k, gen |-> g]
  BY <1>1 DEF Tables
<1> HIDE DEF u
<1> QED BY <1>2, <1>3, <1>4, Another

LEMMA LocalStarts ==
  ASSUME TypeInv, TypeInv', LocalInv, NEW m \in Machines, NEW p \in Pages,
         \/ StartSetup(m, p) \/ StartJoin(m, p) \/ StartAdopt(m, p)
         \/ StartChange(m, p) \/ StartSheet(m, p) \/ StartPrint(m, p)
  PROVE  LocalInv'
<1>1. PICK t \in Tables : OwnInv(t)
  BY DEF LocalInv
<1>2. /\ drawn.salt \in Nat /\ drawn.salt <= drawn.salt
      /\ drawn \in [salt : 0 .. MaxSalts, code : 0 .. MaxCodes, key : 0 .. MaxVaults]
  BY DEF TypeInv, TypeOK
<1>3. Own(t, m) /\ Fits(t, drawn.salt, srv.meta)
  BY <1>1 DEF OwnInv
<1>4. mem[m] # None =>
        /\ mem[m].meta \in Headers /\ mem[m].meta.salt \in Salts
        /\ mem[m].meta.gen \in Nat /\ mem[m].pending \in Headers \cup {None}
        /\ Fits(t, drawn.salt, mem[m].meta) /\ Fits(t, drawn.salt, mem[m].pending)
        /\ mem[m].meta.salt <= drawn.salt
        /\ t[mem[m].meta.salt].gen = mem[m].meta.gen
        /\ t[mem[m].meta.salt].key = mem[m].meta.key
  BY <1>3, OwnFields DEF Own, VaultFits, Fits
<1>5. ASSUME NEW j, Begin(m, p, j), JobFits(t, drawn.salt, j),
             j.op \in {"adopt", "change"} => j.base = mem[m].meta.salt /\ mem[m] # None,
             j.op # "change", drawn'.salt = drawn.salt,
             UNCHANGED <<server, local, sync, log>>
      PROVE  LocalInv'
  BY <1>1, <1>2, <1>5, OwnBegin DEF Begin, LocalInv
<1>6. CASE StartSetup(m, p)
  <2> DEFINE j == [Idle EXCEPT !.op = "setup"]
  <2>1. JobFits(t, drawn.salt, j) /\ j.op = "setup"
    BY DEF JobFits, Idle
  <2> HIDE DEF j
  <2> QED BY <1>5, <1>6, <2>1 DEF StartSetup, j
<1>7. CASE StartJoin(m, p)
  <2> DEFINE j == [Idle EXCEPT !.op = "join", !.hdr = Portable(srv.meta)]
  <2>1. Fits(t, drawn.salt, Portable(srv.meta))
    BY <1>3, <1>7, ServerFields DEF StartJoin, Fits, Portable, Headers
  <2>2. JobFits(t, drawn.salt, j) /\ j.op = "join"
    BY <2>1 DEF JobFits, Idle
  <2> HIDE DEF j
  <2> QED BY <1>5, <1>7, <2>2 DEF StartJoin, j
<1>8. CASE StartAdopt(m, p)
  <2> DEFINE j == [Idle EXCEPT !.op = "adopt", !.hdr = mem[m].pending,
                               !.base = mem[m].meta.salt]
  <2>1. j.op = "adopt" /\ j.hdr = mem[m].pending /\ j.base = mem[m].meta.salt
    BY DEF Idle
  <2>2. JobFits(t, drawn.salt, j)
    BY <1>4, <1>8, <2>1 DEF StartAdopt, JobFits, Outranks
  <2>3. Begin(m, p, j)
    BY <1>8 DEF StartAdopt
  <2> HIDE DEF j
  <2> QED BY <1>5, <1>8, <2>1, <2>2, <2>3 DEF StartAdopt
<1>9. CASE StartChange(m, p)
  <2> DEFINE r == Rewrapped(mem[m].meta, drawn.salt + 1)
             j == [Idle EXCEPT !.op = "change", !.base = mem[m].meta.salt, !.hdr = r]
  <2>1. j.op = "change" /\ j.hdr = r /\ j.base = mem[m].meta.salt
    BY DEF Idle
  <2>2. Begin(m, p, j) /\ UNCHANGED <<server, local, sync, log>> /\ mem[m] # None
    BY <1>9 DEF StartChange
  <2> HIDE DEF j
  <2>3. drawn.salt + 1 \in Salts /\ drawn'.salt = drawn.salt + 1
        /\ drawn.salt <= drawn'.salt
    BY <1>2, <1>9 DEF StartChange, Salts
  <2>4. /\ r.key = mem[m].meta.key /\ r.gen = mem[m].meta.gen + 1
        /\ r.salt = drawn.salt + 1 /\ r.rec = mem[m].meta.rec
    BY <1>4, <2>2, <2>3, RewrappedFacts
  <2> HIDE DEF r
  <2>5. mem[m].meta.key \in Keys /\ mem[m].meta.gen + 1 \in Nat
    BY <1>4, <2>2, HeaderFields
  <2>6. PICK u \in Tables :
          /\ OwnInv(u) /\ \A s \in Salts : s <= drawn.salt => u[s] = t[s]
          /\ u[drawn.salt + 1].key = mem[m].meta.key
          /\ u[drawn.salt + 1].gen = mem[m].meta.gen + 1
    <3> DEFINE k == mem[m].meta.key
               g == mem[m].meta.gen + 1
    <3>1. k \in Keys /\ g \in Nat /\ drawn.salt < MaxSalts
      BY <1>9, <2>5 DEF StartChange
    <3> HIDE DEF k, g
    <3>2. \E u \in Tables :
            /\ OwnInv(u) /\ \A s \in Salts : s <= drawn.salt => u[s] = t[s]
            /\ u[drawn.salt + 1].key = k /\ u[drawn.salt + 1].gen = g
      BY ONLY TypeInv, <1>1, t \in Tables, <3>1, Extend, SMTT(60)
    <3> QED BY <3>2 DEF k, g
  <2>7. JobFits(u, drawn'.salt, j)
    <3>1. u[mem[m].meta.salt] = t[mem[m].meta.salt]
      BY <1>4, <2>2, <2>6
    <3>2. Fits(u, drawn'.salt, r)
      BY <1>2, <2>3, <2>4, <2>6 DEF Fits
    <3>3. mem[m].meta.salt <= drawn'.salt /\ r.gen > t[mem[m].meta.salt].gen
      BY <1>2, <1>4, <2>2, <2>3, <2>4 DEF Salts
    <3> QED BY <1>4, <2>1, <2>2, <2>4, <3>1, <3>2, <3>3 DEF JobFits
  <2>8. OwnInv(u)'
    BY <2>1, <2>2, <2>3, <2>4, <2>6, <2>7, OwnBegin DEF Begin
  <2> QED BY <2>8 DEF LocalInv
<1>10. CASE StartSheet(m, p)
  <2> DEFINE j == [Idle EXCEPT !.op = "sheet", !.code = drawn.code + 1]
  <2>1. JobFits(t, drawn.salt, j) /\ j.op = "sheet"
    BY DEF JobFits, Idle
  <2>2. Begin(m, p, j) /\ drawn'.salt = drawn.salt
    BY <1>2, <1>10 DEF StartSheet
  <2> HIDE DEF j
  <2> QED BY <1>5, <1>10, <2>1, <2>2 DEF StartSheet
<1>11. CASE StartPrint(m, p)
  <2> DEFINE j == [Idle EXCEPT !.op = "print", !.base = mem[m].meta.salt]
  <2>1. JobFits(t, drawn.salt, j) /\ j.op = "print"
    BY DEF JobFits, Idle
  <2>2. Begin(m, p, j)
    BY <1>11 DEF StartPrint
  <2> HIDE DEF j
  <2> QED BY <1>5, <1>11, <2>1, <2>2 DEF StartPrint
<1> QED BY <1>6, <1>7, <1>8, <1>9, <1>10, <1>11

(* A vault lands.                                                          *)
LEMMA OwnLand ==
  ASSUME TypeInv, TypeInv', NEW t \in Tables, OwnInv(t),
         NEW m \in Machines, NEW v \in Vaults, MemIs(m, v), Persist(m, v),
         VaultFits(t, drawn'.salt, v), drawn.salt <= drawn'.salt,
         srv'.meta = srv.meta, saved' = saved, disk' = disk,
         \A n \in Machines : sync'[n].at = "put" => sync'[n] = sync[n],
         \A n \in Machines \ {m} :
           /\ job'[n] = job[n] /\ log'.kept[n] = log.kept[n] /\ log'.told[n] = log.told[n],
         \A q \in Pages : job'[m][q] \in {job[m][q], Idle},
         log'.retired = log.retired, log.late \subseteq log'.late,
         m \notin log'.late =>
           /\ HandlersOf(t, job[m], v) /\ MovedOn(t, v, disk[m], log.retired[m])
           /\ Codes(v, disk[m], log'.kept[m], log'.told[m])
  PROVE  OwnInv(t)'
<1>0. drawn.salt \in Nat /\ drawn'.salt \in Nat
  BY DEF TypeInv, TypeOK
<1>1. /\ mem'[m] = v /\ writing'[m] = IF v = disk[m] THEN None ELSE v
      /\ \A n \in Machines \ {m} : mem'[n] = mem[n] /\ writing'[n] = writing[n]
  BY DEF MemIs, Persist, TypeInv, TypeOK
<1>2. \A n \in Machines \ {m} : Untouched(n)
  BY <1>1 DEF Untouched
<1>3. Own(t, m)
  BY DEF OwnInv
<1>4. \A q \in Pages : JobFits(t, drawn'.salt, job'[m][q])
  <2>1. \A q \in Pages : JobFits(t, drawn'.salt, job[m][q])
    BY <1>0, <1>3, FitsMore, JobIsGood DEF Own
  <2>2. JobFits(t, drawn'.salt, Idle)
    BY DEF JobFits, Idle
  <2> QED BY <2>1, <2>2
<1>5. /\ VaultFits(t, drawn'.salt, disk[m]) /\ VaultFits(t, drawn'.salt, writing'[m])
      /\ sync[m].at = "put" => Fits(t, drawn'.salt, sync[m].hdr)
  <2>1. VaultFits(t, drawn'.salt, disk[m])
        /\ (sync[m].at = "put" => Fits(t, drawn'.salt, sync[m].hdr))
    BY <1>0, <1>3, FitsMore, OwnFields DEF Own
  <2>2. VaultFits(t, drawn'.salt, None)
    BY DEF VaultFits
  <2> QED BY <1>1, <2>1, <2>2
<1>6. \A s \in log.retired[m] : s <= drawn'.salt
  BY <1>0, <1>3, OwnFields DEF Own, Salts
<1>7. InStep(v, writing'[m], disk[m])
  BY <1>1 DEF InStep, Last
<1>8. HandlersOf(t, job[m], v) => HandlersOf(t, job'[m], v)
  BY DEF HandlersOf, Idle
<1>9. Own(t, m)'
  BY <1>1, <1>4, <1>5, <1>6, <1>7, <1>8 DEF Own, OnTime
<1> QED BY <1>2, <1>9, OwnElsewhere

(* What a vault is known to have: its header, its records.                 *)
SameSeal(h, g) == h.key = g.key /\ h.gen = g.gen /\ h.salt = g.salt /\ h.rec = g.rec

LEMMA OwnRefresh ==
  ASSUME TypeInv, TypeInv', NEW t \in Tables, OwnInv(t),
         NEW m \in Machines, mem[m] # None,
         NEW v \in Vaults, MemIs(m, v), Persist(m, v),
         SameSeal(v.meta, mem[m].meta), v.pending \in {mem[m].pending, None},
         mem[m].holds \subseteq v.holds, drawn' = drawn,
         srv'.meta = srv.meta, saved' = saved, disk' = disk,
         \A n \in Machines : sync'[n].at = "put" => sync'[n] = sync[n],
         \A n \in Machines \ {m} : job'[n] = job[n],
         \A q \in Pages : job'[m][q] \in {job[m][q], Idle},
         log'.retired = log.retired, log'.late = log.late,
         log'.kept = log.kept, log'.told = log.told
  PROVE  OwnInv(t)'
<1>1. Own(t, m) /\ drawn.salt <= drawn'.salt
  BY DEF OwnInv, TypeInv, TypeOK
<1>2. VaultFits(t, drawn'.salt, v)
  BY <1>1, OwnFields DEF Own, VaultFits, Fits, SameSeal
<1>3. m \notin log'.late =>
        /\ HandlersOf(t, job[m], v) /\ MovedOn(t, v, disk[m], log.retired[m])
        /\ Codes(v, disk[m], log'.kept[m], log'.told[m])
  BY <1>1 DEF Own, OnTime, HandlersOf, MovedOn, Succeeds, Codes, SameSeal
<1> QED BY <1>1, <1>2, <1>3, OwnLand

(* A later header lands on the vault it came from, none of the handlers    *)
(* under way came from it.                                                 *)
LEMMA HandlersLater ==
  ASSUME TypeInv, NEW t \in Tables, OwnInv(t), NEW m \in Machines, mem[m] \in Vaults,
         NEW v \in Vaults, Fits(t, drawn.salt, v.meta), v.meta.gen > mem[m].meta.gen,
         HandlersOf(t, job[m], mem[m])
  PROVE  HandlersOf(t, job[m], v)
<1> SUFFICES ASSUME NEW p \in Pages, job[m][p].op \in {"adopt", "change"}
             PROVE  /\ t[job[m][p].base].gen <= v.meta.gen
                    /\ job[m][p].base # v.meta.salt
  BY DEF HandlersOf
<1>1. job[m][p].base \in Salts /\ t[job[m][p].base].gen \in Nat
  BY JobFields DEF Tables
<1>2. v.meta.gen \in Nat /\ mem[m].meta.gen \in Nat /\ t[v.meta.salt].gen = v.meta.gen
  BY VaultFields, HeaderFields DEF Fits
<1>3. t[job[m][p].base].gen <= mem[m].meta.gen
  BY DEF HandlersOf
<1> QED BY <1>1, <1>2, <1>3

(* A handler that is not late found the header it started from.            *)
LEMMA NotLate ==
  ASSUME NEW m, NEW p
  PROVE  /\ log.late \subseteq Late(m, p)
         /\ m \notin Late(m, p) => m \notin log.late /\ job[m][p].base = SaltOf(mem[m])
         /\ \A n : n # m /\ n \in Late(m, p) => n \in log.late
BY DEF Late

LEMMA EndSteps ==
  ASSUME TypeInv, NEW m \in Machines, NEW p \in Pages, End(m, p)
  PROVE  /\ \A n \in Machines \ {m} : job'[n] = job[n]
         /\ \A q \in Pages : job'[m][q] \in {job[m][q], Idle}
BY DEF End, TypeInv, TypeOK

(* A setup or a join lands: on time only where there was no vault.         *)
LEMMA OwnFirst ==
  ASSUME TypeInv, TypeInv', NEW t \in Tables, OwnInv(t),
         NEW m \in Machines, NEW p \in Pages, job[m][p].op \in {"setup", "join"},
         NEW v \in Vaults, MemIs(m, v), Persist(m, v), v.pending = None,
         Fits(t, drawn'.salt, v.meta), drawn.salt <= drawn'.salt,
         End(m, p), UNCHANGED <<server, disk, sync>>,
         log'.retired = log.retired, log'.late = Late(m, p),
         log'.kept = log.kept, log'.told = log.told
  PROVE  OwnInv(t)'
<1>1. VaultFits(t, drawn'.salt, v)
  BY DEF VaultFits, Fits
<1>2. ASSUME m \notin log'.late
      PROVE  /\ HandlersOf(t, job[m], v) /\ MovedOn(t, v, disk[m], log.retired[m])
             /\ Codes(v, disk[m], log'.kept[m], log'.told[m])
  <2>1. m \notin log.late /\ SaltOf(mem[m]) = None
    BY <1>2, NotLate, JobFields
  <2>2. mem[m] = None
    BY <2>1, OwnFields DEF SaltOf
  <2>3. Own(t, m) /\ OnTime(t, m)
    BY <2>1 DEF OwnInv, Own
  <2>4. disk[m] = None
    BY <2>2, <2>3 DEF Own, InStep, Last
  <2>5. HandlersOf(t, job[m], v)
    BY <2>2, JobFields DEF HandlersOf
  <2> QED BY <2>2, <2>3, <2>4, <2>5 DEF OnTime, MovedOn, Codes
<1>3. UNCHANGED <<srv, saved, disk, sync>>
  BY DEF server
<1> QED BY <1>1, <1>2, <1>3, NotLate, EndSteps, OwnLand

LEMMA LocalFirst ==
  ASSUME TypeInv, TypeInv', LocalInv, NEW m \in Machines, NEW p \in Pages,
         FinishSetup(m, p) \/ FinishJoin(m, p)
  PROVE  LocalInv'
<1>0. PICK t \in Tables : OwnInv(t)
  BY DEF LocalInv
<1>1. /\ log \in Log
      /\ drawn \in [salt : 0 .. MaxSalts, code : 0 .. MaxCodes, key : 0 .. MaxVaults]
  BY DEF TypeInv, TypeOK
<1>2. CASE FinishSetup(m, p)
  <2> DEFINE h == Header(drawn.key + 1, 0, drawn.salt + 1, None, FALSE)
             v == [meta |-> h, pending |-> None, holds |-> {}]
  <2>1. /\ drawn.key + 1 \in Keys /\ drawn.salt + 1 \in Salts /\ 0 \in Nat
        /\ drawn.salt < MaxSalts
    BY <1>1, <1>2 DEF FinishSetup, Keys, Salts
  <2>2. h \in Headers /\ h.key = drawn.key + 1 /\ h.gen = 0 /\ h.salt = drawn.salt + 1
    BY <2>1, NewHeader DEF Header
  <2>3. v \in Vaults /\ v.meta = h /\ v.pending = None
    BY <2>2 DEF Vaults
  <2>4. MemIs(m, v) /\ Persist(m, v) /\ End(m, p)
        /\ UNCHANGED <<server, disk, sync>> /\ job[m][p].op = "setup"
    BY <1>2 DEF FinishSetup
  <2> HIDE DEF v, h
  <2>5. /\ log'.retired = log.retired /\ log'.late = Late(m, p)
        /\ log'.kept = log.kept /\ log'.told = log.told
    BY <1>1, <1>2 DEF FinishSetup, Log
  <2>6. drawn'.salt = drawn.salt + 1
    BY <1>1, <1>2 DEF FinishSetup
  <2>7. \E u \in Tables :
          /\ OwnInv(u) /\ \A s \in Salts : s <= drawn.salt => u[s] = t[s]
          /\ u[drawn.salt + 1].key = h.key /\ u[drawn.salt + 1].gen = h.gen
    <3> DEFINE k == h.key
               g == h.gen
    <3>1. k \in Keys /\ g \in Nat
      BY <2>1, <2>2
    <3> HIDE DEF k, g
    <3>2. \E u \in Tables :
            /\ OwnInv(u) /\ \A s \in Salts : s <= drawn.salt => u[s] = t[s]
            /\ u[drawn.salt + 1].key = k /\ u[drawn.salt + 1].gen = g
      BY ONLY TypeInv, <1>0, t \in Tables, <2>1, <3>1, Extend, SMTT(60)
    <3> QED BY <3>2 DEF k, g
  <2>8. PICK u \in Tables :
          /\ OwnInv(u)
          /\ u[drawn.salt + 1].key = h.key /\ u[drawn.salt + 1].gen = h.gen
    BY <2>7
  <2>9. Fits(u, drawn'.salt, v.meta) /\ drawn.salt <= drawn'.salt
    BY <1>1, <2>2, <2>3, <2>6, <2>8 DEF Fits
  <2> QED BY <2>3, <2>4, <2>5, <2>8, <2>9, OwnFirst DEF LocalInv
<1>3. CASE FinishJoin(m, p)
  <2> DEFINE v == [meta |-> job[m][p].hdr, pending |-> None, holds |-> {}]
  <2>1. MemIs(m, v) /\ Persist(m, v) /\ End(m, p)
        /\ UNCHANGED <<server, disk, sync, drawn>> /\ job[m][p].op = "join"
    BY <1>3 DEF FinishJoin
  <2>2. v \in Vaults /\ v.meta = job[m][p].hdr /\ v.pending = None
    BY <2>1, JobFields DEF Vaults
  <2> HIDE DEF v
  <2>3. /\ log'.retired = log.retired /\ log'.late = Late(m, p)
        /\ log'.kept = log.kept /\ log'.told = log.told
    BY <1>1, <1>3 DEF FinishJoin, Log
  <2>4. Fits(t, drawn'.salt, v.meta) /\ drawn.salt <= drawn'.salt
    BY <1>0, <1>1, <2>1, <2>2 DEF OwnInv, Own, JobFits
  <2> QED BY <1>0, <2>1, <2>2, <2>3, <2>4, OwnFirst DEF LocalInv
<1> QED BY <1>2, <1>3

(* A change or an adoption lands.                                          *)
LEMMA OwnLater ==
  ASSUME TypeInv, TypeInv', NEW t \in Tables, OwnInv(t),
         NEW m \in Machines, NEW p \in Pages, job[m][p].op \in {"adopt", "change"},
         NEW v \in Vaults, MemIs(m, v), Persist(m, v), v.pending = None,
         v.holds = mem[m].holds,
         v.meta.salt = job[m][p].hdr.salt, v.meta.gen = job[m][p].hdr.gen,
         v.meta.key = job[m][p].hdr.key,
         v.meta.key = t[job[m][p].base].key \/ v.meta.key \in v.holds,
         End(m, p), UNCHANGED <<server, disk, sync, drawn>>,
         log'.retired = log.retired, log'.late = Late(m, p),
         \A n \in Machines \ {m} : log'.kept[n] = log.kept[n] /\ log'.told[n] = log.told[n],
         \/ log'.kept[m] = None /\ log'.told[m] = None
         \/ /\ log'.kept[m] = log.kept[m] /\ log'.told[m] = log.told[m]
            /\ job[m][p].op = "change" /\ v.meta.rec = job[m][p].hdr.rec
  PROVE  OwnInv(t)'
<1>0. Own(t, m) /\ drawn.salt <= drawn'.salt /\ JobFits(t, drawn.salt, job[m][p])
  BY DEF OwnInv, Own, TypeInv, TypeOK
<1>1. VaultFits(t, drawn'.salt, v) /\ Fits(t, drawn.salt, v.meta)
  BY <1>0, JobFields DEF VaultFits, Fits, JobFits
<1>2. mem[m] \in Vaults
  BY JobFields, OwnFields
<1>3. ASSUME m \notin log'.late
      PROVE  /\ HandlersOf(t, job[m], v) /\ MovedOn(t, v, disk[m], log.retired[m])
             /\ Codes(v, disk[m], log'.kept[m], log'.told[m])
  <2>1. m \notin log.late /\ job[m][p].base = mem[m].meta.salt
    BY <1>2, <1>3, NotLate DEF SaltOf
  <2>2. OnTime(t, m)
    BY <1>0, <2>1 DEF Own
  <2>3. t[mem[m].meta.salt].gen = mem[m].meta.gen /\ t[mem[m].meta.salt].key = mem[m].meta.key
        /\ mem[m].meta.gen \in Nat /\ v.meta.gen \in Nat
    BY <1>0, <1>2, VaultFields, HeaderFields DEF Own, VaultFits, Fits
  <2>4. v.meta.gen > mem[m].meta.gen
    BY <1>0, <2>1, <2>3 DEF JobFits
  <2>5. HandlersOf(t, job[m], v)
    BY <1>1, <1>2, <2>2, <2>4, HandlersLater DEF OnTime
  <2>6. disk[m] # None => disk[m].meta.gen \in Nat
          /\ t[disk[m].meta.salt].gen = disk[m].meta.gen
    BY <1>0, OwnFields DEF Own, VaultFits, Fits
  <2>7. MovedOn(t, v, disk[m], log.retired[m])
    BY <2>1, <2>2, <2>3, <2>4, <2>6 DEF OnTime, MovedOn, Succeeds
  <2>8. Codes(v, disk[m], log'.kept[m], log'.told[m])
    BY <1>2, <2>1, <2>2 DEF OnTime, Codes, HandlersOf
  <2> QED BY <2>5, <2>7, <2>8
<1>4. UNCHANGED <<srv, saved, disk, sync>>
  BY DEF server
<1> QED BY <1>0, <1>1, <1>3, <1>4, NotLate, EndSteps, OwnLand

(* The header that waits is replaced, or dropped.                          *)
LEMMA OwnPending ==
  ASSUME TypeInv, TypeInv', NEW t \in Tables, OwnInv(t),
         NEW m \in Machines, mem[m] \in Vaults, NEW v \in Vaults, MemIs(m, v),
         v.meta = mem[m].meta, v.holds = mem[m].holds,
         Fits(t, drawn.salt, v.pending),
         UNCHANGED <<srv, saved, disk, writing, log, drawn>>,
         \A n \in Machines : sync'[n].at = "put" => sync'[n] = sync[n],
         \A n \in Machines \ {m} : job'[n] = job[n],
         \A q \in Pages : job'[m][q] \in {job[m][q], Idle}
  PROVE  OwnInv(t)'
<1>1. /\ mem'[m] = v /\ \A n \in Machines \ {m} : mem'[n] = mem[n]
      /\ mem[m] # None /\ v # None
  BY DEF MemIs, TypeInv, TypeOK
<1>2. Own(t, m)
  BY DEF OwnInv
<1>3. VaultFits(t, drawn.salt, v)
  BY <1>1, <1>2 DEF Own, VaultFits
<1>4. InStep(v, writing[m], disk[m])
  BY <1>1, <1>2 DEF Own, InStep
<1>5. \A q \in Pages : JobFits(t, drawn.salt, job'[m][q])
  BY <1>2 DEF Own, JobFits, Idle
<1>6. OnTime(t, m) => OnTime(t, m)'
  <2>1. HandlersOf(t, job[m], mem[m]) => HandlersOf(t, job'[m], v)
    BY DEF HandlersOf, Idle
  <2>2. MovedOn(t, mem[m], disk[m], log.retired[m]) => MovedOn(t, v, disk[m], log.retired[m])
    BY <1>1 DEF MovedOn, Succeeds
  <2>3. Codes(mem[m], disk[m], log.kept[m], log.told[m])
          => Codes(v, disk[m], log.kept[m], log.told[m])
    BY <1>1 DEF Codes
  <2> QED BY <1>1, <2>1, <2>2, <2>3 DEF OnTime
<1>7. Own(t, m)'
  BY <1>1, <1>2, <1>3, <1>4, <1>5, <1>6 DEF Own
<1>8. (\A n \in Machines \ {m} : Untouched(n)) /\ drawn.salt <= drawn'.salt
  BY <1>1 DEF Untouched, TypeInv, TypeOK
<1> QED BY <1>7, <1>8, OwnElsewhere

LEMMA LocalLater ==
  ASSUME TypeInv, TypeInv', LocalInv, NEW m \in Machines, NEW p \in Pages,
         FinishAdopt(m, p) \/ FinishChange(m, p)
  PROVE  LocalInv'
<1>0. PICK t \in Tables : OwnInv(t)
  BY DEF LocalInv
<1>1. /\ log \in Log /\ mem[m] \in Vaults /\ job[m][p].hdr \in Headers
      /\ mem[m].meta.bio \in BOOLEAN /\ mem[m] # None
      /\ End(m, p) /\ UNCHANGED <<server, disk, sync, drawn>>
      /\ JobFits(t, drawn.salt, job[m][p]) /\ job[m][p].op \in {"adopt", "change"}
  BY <1>0, JobFields, OwnFields, VaultFields, HeaderFields
  DEF FinishAdopt, FinishChange, TypeInv, TypeOK, OwnInv, Own
<1>2. CASE FinishAdopt(m, p)
  <2> DEFINE h == job[m][p].hdr
             w == mem[m]
             g == [h EXCEPT !.bio = w.meta.bio]
             adopted == [w EXCEPT !.meta = g, !.pending = None]
             cleared == [w EXCEPT !.pending = None]
  <2>1. CASE MemIs(m, cleared) /\ UNCHANGED <<writing, log>>
    <3>1. /\ cleared \in Vaults /\ cleared.meta = w.meta /\ cleared.pending = None
          /\ cleared.holds = w.holds
      BY <1>1, VaultFields DEF Vaults
    <3>2. UNCHANGED <<srv, saved, disk, writing, sync, log, drawn>> /\ MemIs(m, cleared)
      BY <1>1, <2>1 DEF server
    <3> HIDE DEF cleared
    <3>3. Fits(t, drawn.salt, cleared.pending)
      BY <3>1 DEF Fits
    <3> QED BY <1>0, <1>1, <3>1, <3>2, <3>3, EndSteps, OwnPending DEF LocalInv
  <2>2. CASE UNCHANGED <<mem, writing, log>>
    <3>1. /\ JobFits(t, drawn'.salt, Idle) /\ Idle.op = "idle"
          /\ drawn.salt <= drawn'.salt
      BY <1>1 DEF JobFits, Idle, TypeInv, TypeOK
    <3>2. UNCHANGED <<server, local, sync, log>> /\ job' = [job EXCEPT ![m][p] = Idle]
      BY <1>1, <2>2 DEF local, End
    <3> QED BY <1>0, <3>1, <3>2, OwnBegin DEF LocalInv
  <2>3. CASE /\ OpensARecord(w, h) /\ MemIs(m, adopted) /\ Persist(m, adopted)
             /\ log' = [log EXCEPT !.late = Late(m, p),
                           !.kept[m] = None, !.told[m] = None]
    <3>1. /\ g \in Headers /\ g.key = h.key /\ g.gen = h.gen /\ g.salt = h.salt
      BY <1>1 DEF Headers
    <3> HIDE DEF g
    <3>2. /\ adopted \in Vaults /\ adopted.meta = g /\ adopted.pending = None
          /\ adopted.holds = w.holds
      BY <1>1, <3>1 DEF Vaults
    <3>3. MemIs(m, adopted) /\ Persist(m, adopted) /\ h.key \in w.holds
      BY <2>3 DEF g, OpensARecord
    <3> HIDE DEF adopted
    <3>4. /\ log'.retired = log.retired /\ log'.late = Late(m, p)
          /\ log'.kept = [log.kept EXCEPT ![m] = None]
          /\ log'.told = [log.told EXCEPT ![m] = None]
      BY <1>1, <2>3 DEF Log
    <3>5. /\ log'.kept[m] = None /\ log'.told[m] = None
          /\ \A n \in Machines \ {m} :
               log'.kept[n] = log.kept[n] /\ log'.told[n] = log.told[n]
      BY <1>1, <3>4, LogType
    <3> QED BY <1>0, <1>1, <3>1, <3>2, <3>3, <3>4, <3>5, OwnLater DEF LocalInv
  <2> QED BY <1>2, <2>1, <2>2, <2>3 DEF FinishAdopt
<1>3. CASE FinishChange(m, p)
  <2> DEFINE v == [mem[m] EXCEPT !.meta = job[m][p].hdr, !.pending = None]
  <2>1. /\ v \in Vaults /\ v.meta = job[m][p].hdr /\ v.pending = None
        /\ v.holds = mem[m].holds
    BY <1>1 DEF Vaults
  <2>2. MemIs(m, v) /\ Persist(m, v) /\ job[m][p].op = "change"
    BY <1>3 DEF FinishChange
  <2> HIDE DEF v
  <2>3. /\ log'.retired = log.retired /\ log'.late = Late(m, p)
        /\ log'.kept = log.kept /\ log'.told = log.told
    BY <1>1, <1>3 DEF FinishChange, Log
  <2>4. v.meta.key = t[job[m][p].base].key
    BY <1>1, <2>1, <2>2 DEF JobFits
  <2> QED BY <1>0, <1>1, <2>1, <2>2, <2>3, <2>4, OwnLater DEF LocalInv
<1> QED BY <1>2, <1>3

LEMMA LocalSheet ==
  ASSUME TypeInv, TypeInv', LocalInv, NEW m \in Machines, NEW p \in Pages,
         CloseSheet(m, p) \/ KeepCode(m, p)
  PROVE  LocalInv'
<1>0. PICK t \in Tables : OwnInv(t)
  BY DEF LocalInv
<1>1. /\ log \in Log /\ End(m, p) /\ drawn.salt <= drawn'.salt /\ drawn' = drawn
  BY DEF CloseSheet, KeepCode, TypeInv, TypeOK
<1>2. CASE CloseSheet(m, p)
  <2>1. JobFits(t, drawn'.salt, Idle) /\ Idle.op = "idle"
    BY DEF JobFits, Idle
  <2>2. UNCHANGED <<server, local, sync, log>> /\ job' = [job EXCEPT ![m][p] = Idle]
    BY <1>1, <1>2 DEF CloseSheet, End
  <2> QED BY <1>0, <1>1, <2>1, <2>2, OwnBegin DEF LocalInv
<1>3. CASE KeepCode(m, p)
  <2> DEFINE c == job[m][p].code
             g == [mem[m].meta EXCEPT !.rec = c]
             v == [mem[m] EXCEPT !.meta = g]
  <2>1. /\ mem[m] \in Vaults /\ mem[m].meta \in Headers /\ c \in RecCodes /\ mem[m] # None
        /\ UNCHANGED <<srv, saved, disk, sync>>
    BY <1>3, JobFields, OwnFields DEF KeepCode, server
  <2>2. MemIs(m, v) /\ Persist(m, v)
    BY <1>3 DEF KeepCode
  <2>3. /\ g \in Headers /\ g.key = mem[m].meta.key /\ g.gen = mem[m].meta.gen
        /\ g.salt = mem[m].meta.salt /\ g.rec = c
    BY <2>1 DEF Headers
  <2> HIDE DEF g
  <2>4. /\ v \in Vaults /\ v.meta = g /\ v.pending = mem[m].pending
        /\ v.holds = mem[m].holds
    BY <2>1, <2>3 DEF Vaults
  <2> HIDE DEF v
  <2>5. /\ log'.retired = log.retired /\ log'.told = log.told
        /\ log'.kept = [log.kept EXCEPT ![m] = c]
        /\ log'.late = IF Busy(m, {"change"}) = {} THEN log.late ELSE log.late \cup {m}
    BY <1>1, <1>3 DEF KeepCode, Log
  <2> HIDE DEF c
  <2>6. log'.kept[m] = c /\ c # None
        /\ \A n \in Machines \ {m} : log'.kept[n] = log.kept[n] /\ log'.told[n] = log.told[n]
    BY <1>1, <2>1, <2>5, LogType DEF RecCodes
  <2>7. Own(t, m)
    BY <1>0 DEF OwnInv
  <2>8. VaultFits(t, drawn'.salt, v)
    BY <1>1, <2>1, <2>3, <2>4, <2>7 DEF Own, VaultFits, Fits
  <2>9. ASSUME m \notin log'.late
        PROVE  /\ HandlersOf(t, job[m], v) /\ MovedOn(t, v, disk[m], log.retired[m])
               /\ Codes(v, disk[m], log'.kept[m], log'.told[m])
    <3>1. OnTime(t, m) /\ \A q \in Pages : job[m][q].op # "change"
      BY <2>5, <2>7, <2>9 DEF Own, Busy
    <3>2. HandlersOf(t, job[m], v)
      BY <2>3, <2>4, <3>1 DEF OnTime, HandlersOf
    <3>3. MovedOn(t, v, disk[m], log.retired[m])
      BY <2>1, <2>3, <2>4, <3>1 DEF OnTime, MovedOn, Succeeds
    <3>4. Codes(v, disk[m], log'.kept[m], log'.told[m])
      BY <2>1, <2>3, <2>4, <2>5, <2>6, <3>1 DEF OnTime, Codes
    <3> QED BY <3>2, <3>3, <3>4
  <2>10. OwnInv(t)'
    BY <1>0, <1>1, <2>1, <2>2, <2>4, <2>5, <2>6, <2>8, <2>9, EndSteps, OwnLand
  <2> QED BY <2>10 DEF LocalInv
<1> QED BY <1>2, <1>3

(* Records and the fingerprint.                                            *)
LEMMA LocalRefresh ==
  ASSUME TypeInv, TypeInv', LocalInv, NEW m \in Machines,
         \/ ForgetPrint(m) \/ AddRecord(m) \/ RefuseDiverged(m)
         \/ MoveRecords(m) \/ FailRecords(m)
         \/ \E p \in Pages : FinishPrint(m, p)
         \/ Publish(m) /\ srv' = srv /\ Persist(m, mem[m])
  PROVE  LocalInv'
<1>0. PICK t \in Tables : OwnInv(t)
  BY DEF LocalInv
<1>1. /\ mem[m] \in Vaults /\ mem[m] # None /\ mem[m].meta \in Headers
      /\ mem[m].meta.bio \in BOOLEAN /\ log \in Log
  <2>1. mem[m] # None
    BY JobFields DEF ForgetPrint, AddRecord, RefuseDiverged, MoveRecords, FailRecords,
         FinishPrint, Publish, TypeInv, SyncShape
  <2> QED BY <2>1, OwnFields, HeaderFields DEF TypeInv, TypeOK
<1>2. /\ srv'.meta = srv.meta /\ saved' = saved /\ disk' = disk /\ drawn' = drawn
      /\ \A n \in Machines : sync'[n].at = "put" => sync'[n] = sync[n]
  BY IdleType, MoveSteps, PublishSteps
  DEF ForgetPrint, AddRecord, RefuseDiverged, MoveRecords, FailRecords, FinishPrint,
      Publish, server, TypeInv, TypeOK
<1>3. /\ \A n \in Machines \ {m} : job'[n] = job[n]
      /\ \A q \in Pages : job'[m][q] \in {job[m][q], Idle}
  BY EndSteps DEF ForgetPrint, AddRecord, RefuseDiverged, MoveRecords, FailRecords,
                  FinishPrint, Publish
<1>4. /\ log'.retired = log.retired /\ log'.late = log.late
      /\ log'.kept = log.kept /\ log'.told = log.told
  BY <1>1 DEF ForgetPrint, AddRecord, RefuseDiverged, MoveRecords, FailRecords,
              FinishPrint, Publish, ServerNow, Log
<1>5. ASSUME NEW v \in Vaults, MemIs(m, v), Persist(m, v),
             SameSeal(v.meta, mem[m].meta), v.pending \in {mem[m].pending, None},
             mem[m].holds \subseteq v.holds
      PROVE  LocalInv'
  BY <1>0, <1>1, <1>2, <1>3, <1>4, <1>5, OwnRefresh DEF LocalInv
<1>6. ASSUME NEW b \in BOOLEAN, MemIs(m, [mem[m] EXCEPT !.meta.bio = b]),
             Persist(m, [mem[m] EXCEPT !.meta.bio = b])
      PROVE  LocalInv'
  <2> DEFINE g == [mem[m].meta EXCEPT !.bio = b]
             v == [mem[m] EXCEPT !.meta = g]
  <2>1. g \in Headers /\ SameSeal(g, mem[m].meta)
    BY <1>1 DEF Headers, SameSeal
  <2>2. MemIs(m, v) /\ Persist(m, v)
    BY <1>6
  <2> HIDE DEF g
  <2>3. v \in Vaults /\ v.meta = g /\ v.pending = mem[m].pending /\ v.holds = mem[m].holds
    BY <1>1, <2>1 DEF Vaults
  <2> HIDE DEF v
  <2> QED BY <1>5, <2>1, <2>2, <2>3
<1>7. ASSUME NEW S \in SUBSET Keys, MemIs(m, [mem[m] EXCEPT !.holds = @ \cup S]),
             Persist(m, [mem[m] EXCEPT !.holds = @ \cup S])
      PROVE  LocalInv'
  <2> DEFINE v == [mem[m] EXCEPT !.holds = @ \cup S]
  <2>1. /\ v \in Vaults /\ v.meta = mem[m].meta /\ v.pending = mem[m].pending
        /\ mem[m].holds \subseteq v.holds
    BY <1>1 DEF Vaults
  <2>2. MemIs(m, v) /\ Persist(m, v)
    BY <1>7
  <2> HIDE DEF v
  <2> QED BY <1>5, <2>1, <2>2 DEF SameSeal
<1>8. CASE ForgetPrint(m)
  BY <1>6, <1>8 DEF ForgetPrint
<1>9. CASE \E p \in Pages : FinishPrint(m, p)
  <2>1. PICK p \in Pages : FinishPrint(m, p)
    BY <1>9
  <2>2. PICK b \in BOOLEAN : b = (mem[m].meta.bio \/ job[m][p].base = mem[m].meta.salt)
    BY <1>1
  <2>3. /\ MemIs(m, [mem[m] EXCEPT !.meta.bio = b])
        /\ Persist(m, [mem[m] EXCEPT !.meta.bio = b])
    BY <2>1, <2>2 DEF FinishPrint
  <2> QED BY <1>6, <2>3
<1>10. CASE AddRecord(m)
  <2>1. {mem[m].meta.key} \in SUBSET Keys
    BY <1>1, HeaderFields
  <2> QED BY <1>7, <1>10, <2>1 DEF AddRecord
<1>11. CASE MoveRecords(m)
  <2>1. /\ mem[m].holds \in SUBSET Keys /\ srv.holds \in SUBSET Keys
        /\ srv.holds \cup mem[m].holds = mem[m].holds \cup srv.holds
    BY <1>1, VaultFields DEF TypeInv, TypeOK, Stores
  <2>2. /\ MemIs(m, [mem[m] EXCEPT !.holds = @ \cup srv.holds])
        /\ Persist(m, [mem[m] EXCEPT !.holds = @ \cup srv.holds])
    BY <1>11, <2>1 DEF MoveRecords
  <2> QED BY <1>7, <2>1, <2>2
<1>12. CASE RefuseDiverged(m) \/ FailRecords(m) \/ (Publish(m) /\ srv' = srv /\ Persist(m, mem[m]))
  <2>1. MemIs(m, mem[m]) /\ Persist(m, mem[m])
    BY <1>12 DEF RefuseDiverged, FailRecords, Publish, MemIs, TypeInv, TypeOK
  <2> QED BY <1>1, <1>5, <2>1 DEF SameSeal
<1> QED BY <1>8, <1>9, <1>10, <1>11, <1>12

(* The header on its way out is one of this machine's.                     *)
LEMMA LocalPublish ==
  ASSUME TypeInv, TypeInv', LocalInv, NEW m \in Machines, Publish(m)
  PROVE  LocalInv'
<1>0. PICK t \in Tables : OwnInv(t)
  BY DEF LocalInv
<1>1. /\ UNCHANGED <<saved, mem, disk, job, drawn>> /\ mem[m] # None
      /\ drawn.salt <= drawn'.salt /\ log \in Log
      /\ \A n \in Machines : sync'[n].at = "put" => sync'[n] = sync[n]
  BY PublishSteps DEF Publish, TypeInv, TypeOK, SyncShape
<1>2. /\ log'.retired = log.retired /\ log'.late = log.late
      /\ log'.kept = log.kept /\ log'.told = log.told
  BY <1>1 DEF Publish, ServerNow, Log
<1>3. Fits(t, drawn.salt, srv'.meta)
  BY <1>0, <1>1, PublishSteps DEF OwnInv, Own
<1>4. writing' = writing \/ Persist(m, mem[m])
  BY DEF Publish
<1>5. \A n \in Machines \ {m} : writing'[n] = writing[n]
  BY <1>4 DEF Persist, TypeInv, TypeOK
<1>6. ASSUME NEW n \in Machines PROVE Own(t, n)'
  <2>1. Own(t, n)
    BY <1>0 DEF OwnInv
  <2>2. CASE writing'[n] = writing[n]
    BY <1>1, <1>2, <2>1, <2>2, OwnStays DEF Untouched
  <2>3. CASE n = m /\ Persist(m, mem[m])
    <3>1. writing'[m] = IF mem[m] = disk[m] THEN None ELSE mem[m]
      BY <2>3 DEF Persist, TypeInv, TypeOK
    <3>2. VaultFits(t, drawn.salt, writing'[m]) /\ InStep(mem[m], writing'[m], disk[m])
      BY <1>1, <2>1, <2>3, <3>1 DEF Own, InStep, Last, VaultFits
    <3> QED BY <1>1, <1>2, <2>1, <2>3, <3>2 DEF Own, OnTime
  <2> QED BY <1>4, <1>5, <2>2, <2>3
<1> QED BY <1>0, <1>1, <1>3, <1>6 DEF OwnInv, LocalInv

LEMMA LocalRead ==
  ASSUME TypeInv, TypeInv', LocalInv, NEW m \in Machines, ReadHeader(m)
  PROVE  LocalInv'
<1>0. PICK t \in Tables : OwnInv(t)
  BY DEF LocalInv
<1>1. /\ UNCHANGED <<srv, saved, disk, writing, job, log, drawn>>
      /\ drawn.salt <= drawn'.salt
      /\ mem[m] \in Vaults /\ mem[m] # None /\ mem[m].meta \in Headers
  BY OwnFields DEF ReadHeader, server, TypeInv, TypeOK
<1>2. CASE /\ srv.meta # None
           /\ MemIs(m, [mem[m] EXCEPT !.pending = Portable(srv.meta)])
           /\ sync' = [sync EXCEPT ![m] = HeaderDone]
  <2> DEFINE h == Portable(srv.meta)
             v == [mem[m] EXCEPT !.pending = h]
  <2>1. /\ h \in Headers /\ h.key = srv.meta.key /\ h.gen = srv.meta.gen
        /\ h.salt = srv.meta.salt
    BY <1>2, ServerFields DEF Portable, Headers
  <2>2. MemIs(m, v)
    BY <1>2
  <2> HIDE DEF h
  <2>3. /\ v \in Vaults /\ v.meta = mem[m].meta /\ v.pending = h
        /\ v.holds = mem[m].holds
    BY <1>1, <2>1 DEF Vaults
  <2> HIDE DEF v
  <2>4. Fits(t, drawn.salt, v.pending)
    BY <1>0, <1>2, <2>1, <2>3 DEF OwnInv, Fits
  <2>5. \A n \in Machines : sync'[n].at = "put" => sync'[n] = sync[n]
    BY <1>2, IdleType DEF TypeInv, TypeOK
  <2> QED BY <1>0, <1>1, <2>2, <2>3, <2>4, <2>5, OwnPending DEF LocalInv
<1>3. CASE /\ mem' = mem
           /\ \/ sync' = [sync EXCEPT ![m] = HeaderDone]
              \/ sync' = [sync EXCEPT ![m] =
                   [at |-> "put", hdr |-> Portable(mem[m].meta), seq |-> srv.seq]]
  <2>1. \A n \in Machines \ {m} : sync'[n] = sync[n]
    BY <1>3 DEF TypeInv, TypeOK
  <2>2. \A n \in Machines \ {m} : Untouched(n)
    BY <1>1, <1>3, <2>1 DEF Untouched
  <2>3. Own(t, m)
    BY <1>0 DEF OwnInv
  <2>4. sync'[m].at = "put" => Fits(t, drawn.salt, sync'[m].hdr)
    <3>1. CASE sync' = [sync EXCEPT ![m] = HeaderDone]
      BY <3>1, IdleType DEF TypeInv, TypeOK
    <3>2. CASE sync' = [sync EXCEPT ![m] =
                 [at |-> "put", hdr |-> Portable(mem[m].meta), seq |-> srv.seq]]
      <4> DEFINE h == Portable(mem[m].meta)
      <4>1. /\ h.key = mem[m].meta.key /\ h.gen = mem[m].meta.gen
            /\ h.salt = mem[m].meta.salt
        BY <1>1 DEF Portable, Headers
      <4> HIDE DEF h
      <4>2. Fits(t, drawn.salt, h)
        BY <1>1, <2>3, <4>1 DEF Own, VaultFits, Fits
      <4>3. sync'[m].hdr = h
        BY <3>2 DEF TypeInv, TypeOK, h
      <4> QED BY <4>2, <4>3
    <3> QED BY <1>3, <3>1, <3>2
  <2>5. Own(t, m)'
    BY <1>1, <1>3, <2>3, <2>4 DEF Own, OnTime
  <2> QED BY <1>0, <1>1, <2>2, <2>5, OwnElsewhere DEF LocalInv
<1> QED BY <1>2, <1>3 DEF ReadHeader

(* A write lands: the disk moves on to what memory holds.                  *)
LEMMA FlushSteps ==
  ASSUME TypeInv, NEW t \in Tables, OwnInv(t), NEW m \in Machines, Flush(m)
  PROVE  /\ disk'[m] = writing[m] /\ writing'[m] = None /\ mem[m] # None
         /\ writing[m] # None
         /\ mem[m].meta = writing[m].meta /\ mem[m].holds = writing[m].holds
         /\ \A n \in Machines \ {m} : Untouched(n)
         /\ log'.retired[m] = IF disk[m] = None THEN log.retired[m]
              ELSE log.retired[m] \cup ({disk[m].meta.salt} \ {writing[m].meta.salt})
         /\ log'.told[m] = IF log.kept[m] = None THEN log.told[m] ELSE log.kept[m]
         /\ log'.kept[m] = None /\ log'.late = log.late
<1>1. log \in Log /\ drawn' = drawn /\ mem' = mem /\ sync' = sync /\ drawn.salt <= drawn'.salt
  BY DEF Flush, TypeInv, TypeOK
<1>2. /\ writing[m] # None /\ disk' = [disk EXCEPT ![m] = writing[m]]
      /\ writing' = [writing EXCEPT ![m] = None]
  BY DEF Flush
<1>3. InStep(mem[m], writing[m], disk[m])
  BY DEF OwnInv, Own
<1>4. mem[m] # None /\ mem[m].meta = writing[m].meta /\ mem[m].holds = writing[m].holds
  BY <1>2, <1>3 DEF InStep, Last
<1>5. /\ log'.late = log.late
      /\ log'.retired = [log.retired EXCEPT ![m] =
           IF disk[m] = None THEN @
           ELSE @ \cup ({disk[m].meta.salt} \ {writing[m].meta.salt})]
      /\ log'.told = [log.told EXCEPT ![m] =
           IF log.kept[m] = None THEN @ ELSE log.kept[m]]
      /\ log'.kept = [log.kept EXCEPT ![m] = None]
  BY <1>1 DEF Flush, Log
<1>6. disk'[m] = writing[m] /\ writing'[m] = None
      /\ \A n \in Machines \ {m} : disk'[n] = disk[n] /\ writing'[n] = writing[n]
  BY <1>2 DEF TypeInv, TypeOK
<1>7. \A n \in Machines \ {m} :
        /\ log'.retired[n] = log.retired[n] /\ log'.kept[n] = log.kept[n]
        /\ log'.told[n] = log.told[n]
  BY <1>1, <1>5, LogType
<1>8. /\ log'.retired[m] = IF disk[m] = None THEN log.retired[m]
           ELSE log.retired[m] \cup ({disk[m].meta.salt} \ {writing[m].meta.salt})
      /\ log'.told[m] = IF log.kept[m] = None THEN log.told[m] ELSE log.kept[m]
      /\ log'.kept[m] = None
  BY <1>1, <1>5, LogType
<1> QED BY <1>1, <1>2, <1>4, <1>5, <1>6, <1>7, <1>8 DEF Untouched

LEMMA LocalFlush ==
  ASSUME TypeInv, TypeInv', LocalInv, NEW m \in Machines, Flush(m)
  PROVE  LocalInv'
<1>0. PICK t \in Tables : OwnInv(t)
  BY DEF LocalInv
<1>1. /\ UNCHANGED <<srv, saved, mem, sync, job, drawn>> /\ drawn.salt <= drawn'.salt
      /\ Own(t, m) /\ drawn.salt \in Nat
  BY <1>0 DEF Flush, server, OwnInv, TypeInv, TypeOK
<1>2. /\ disk'[m] = writing[m] /\ writing'[m] = None /\ mem[m] # None
      /\ writing[m] # None
      /\ mem[m].meta = writing[m].meta /\ mem[m].holds = writing[m].holds
      /\ log'.retired[m] = IF disk[m] = None THEN log.retired[m]
           ELSE log.retired[m] \cup ({disk[m].meta.salt} \ {writing[m].meta.salt})
      /\ log'.told[m] = IF log.kept[m] = None THEN log.told[m] ELSE log.kept[m]
      /\ log'.kept[m] = None /\ log'.late = log.late
  BY <1>0, FlushSteps
<1>3. /\ mem[m].meta.gen \in Nat /\ t[mem[m].meta.salt].gen = mem[m].meta.gen
      /\ disk[m] # None =>
           /\ disk[m].meta.gen \in Nat /\ t[disk[m].meta.salt].gen = disk[m].meta.gen
           /\ disk[m].meta.salt <= drawn.salt /\ disk[m].meta.salt \in Salts
  BY <1>1, <1>2, OwnFields DEF Own, VaultFits, Fits
<1>4. \A s \in log'.retired[m] : s <= drawn.salt
  BY <1>1, <1>2, <1>3 DEF Own
<1>5. VaultFits(t, drawn.salt, disk'[m]) /\ VaultFits(t, drawn.salt, writing'[m])
  BY <1>1, <1>2 DEF Own, VaultFits
<1>6. InStep(mem[m], writing'[m], disk'[m])
  BY <1>1, <1>2 DEF InStep, Last
<1>7. ASSUME m \notin log.late
      PROVE  OnTime(t, m)'
  <2>1. OnTime(t, m)
    BY <1>1, <1>7 DEF Own
  <2>2. disk[m] # None =>
          mem[m].meta.salt = disk[m].meta.salt \/ mem[m].meta.gen > disk[m].meta.gen
    BY <2>1 DEF OnTime, MovedOn, Succeeds
  <2>3. ASSUME NEW s \in log'.retired[m] PROVE t[s].gen < mem[m].meta.gen
    <3>1. \A r \in log.retired[m] : r \in Salts /\ t[r].gen \in Nat
      BY OwnFields DEF Tables
    <3>2. CASE s \in log.retired[m]
      BY <1>3, <2>1, <2>2, <3>1, <3>2 DEF OnTime, MovedOn
    <3>3. CASE disk[m] # None /\ s = disk[m].meta.salt /\ s # writing[m].meta.salt
      BY <1>2, <1>3, <2>2, <3>3
    <3> QED BY <1>2, <2>3, <3>2, <3>3
  <2>4. MovedOn(t, mem[m], disk'[m], log'.retired[m])
    BY <1>2, <2>3 DEF MovedOn, Succeeds
  <2>5. Codes(mem[m], disk'[m], log'.kept[m], log'.told[m])
    BY <1>2, <2>1 DEF OnTime, Codes
  <2> QED BY <1>1, <2>1, <2>4, <2>5 DEF OnTime
<1>8. Own(t, m)'
  BY <1>1, <1>2, <1>4, <1>5, <1>6, <1>7 DEF Own
<1>9. \A n \in Machines \ {m} : Untouched(n) /\ job'[n] = job[n]
  BY <1>0, <1>1, FlushSteps
<1> QED BY <1>0, <1>1, <1>8, <1>9, OwnElsewhere DEF LocalInv

(* The browser dies, and the page starts from the disk.                    *)
LEMMA LocalCrash ==
  ASSUME TypeInv, TypeInv', LocalInv, NEW m \in Machines, Crash(m)
  PROVE  LocalInv'
<1>0. PICK t \in Tables : OwnInv(t)
  BY DEF LocalInv
<1>1. /\ UNCHANGED <<srv, saved, disk, drawn>> /\ drawn.salt <= drawn'.salt
      /\ Own(t, m) /\ log \in Log
  BY <1>0 DEF Crash, server, OwnInv, TypeInv, TypeOK
<1>2. /\ mem'[m] = disk[m] /\ writing'[m] = None /\ sync'[m].at # "put"
      /\ \A p \in Pages : job'[m][p] = Idle
      /\ \A n \in Machines \ {m} : /\ mem'[n] = mem[n] /\ writing'[n] = writing[n]
                                   /\ sync'[n] = sync[n] /\ job'[n] = job[n]
  BY IdleType DEF Crash, TypeInv, TypeOK
<1>3. /\ log'.retired = log.retired /\ log'.late = log.late /\ log'.told = log.told
      /\ log'.kept = [log.kept EXCEPT ![m] = None]
  BY <1>1 DEF Crash, Log
<1>4. log'.kept[m] = None /\ \A n \in Machines \ {m} : log'.kept[n] = log.kept[n]
  BY <1>1, <1>3, LogType
<1>5. /\ VaultFits(t, drawn.salt, None) /\ \A p \in Pages : JobFits(t, drawn.salt, job'[m][p])
  BY <1>2 DEF VaultFits, JobFits, Idle
<1>6. OnTime(t, m) => OnTime(t, m)'
  <2>1. HandlersOf(t, job'[m], mem'[m])
    BY <1>2 DEF HandlersOf, Idle
  <2>2. MovedOn(t, mem[m], disk[m], log.retired[m]) => MovedOn(t, disk[m], disk[m], log.retired[m])
    BY DEF MovedOn, Succeeds
  <2>3. Codes(mem[m], disk[m], log.kept[m], log.told[m]) => Codes(disk[m], disk[m], None, log.told[m])
    BY DEF Codes
  <2> QED BY <1>1, <1>2, <1>3, <1>4, <2>1, <2>2, <2>3 DEF OnTime
<1>7. InStep(disk[m], None, disk[m])
  BY DEF InStep, Last
<1>8. Own(t, m)'
  BY <1>1, <1>2, <1>3, <1>5, <1>6, <1>7 DEF Own
<1>9. \A n \in Machines \ {m} : Untouched(n) /\ job'[n] = job[n]
  BY <1>1, <1>2, <1>3, <1>4 DEF Untouched
<1> QED BY <1>0, <1>1, <1>8, <1>9, OwnElsewhere DEF LocalInv

LEMMA LocalElse ==
  ASSUME TypeInv, TypeInv', LocalInv,
         \/ Backup \/ Restore \/ UNCHANGED vars
         \/ \E m, a \in Machines : EnrolWithCodeOf(m, a)
  PROVE  LocalInv'
<1>0. PICK t \in Tables : OwnInv(t)
  BY DEF LocalInv
<1>1. UNCHANGED <<mem, disk, writing, job, sync, drawn>> /\ drawn.salt <= drawn'.salt
  <2>1. UNCHANGED <<mem, disk, writing, job, sync, drawn>>
    BY DEF Backup, Restore, EnrolWithCodeOf, vars, local
  <2> QED BY <2>1 DEF TypeInv, TypeOK
<1>2. /\ log'.retired = log.retired /\ log'.late = log.late
      /\ log'.kept = log.kept /\ log'.told = log.told
  BY DEF Backup, Restore, EnrolWithCodeOf, vars, TypeInv, TypeOK, Log
<1>3. Fits(t, drawn.salt, srv'.meta) /\ StoreFits(t, drawn.salt, saved')
  BY <1>0 DEF Backup, Restore, EnrolWithCodeOf, vars, server, OwnInv, StoreFits
<1>4. \A n \in Machines : Own(t, n)'
  BY <1>0, <1>1, <1>2, OwnStays DEF OwnInv, Untouched
<1> QED BY <1>0, <1>1, <1>3, <1>4 DEF OwnInv, LocalInv

LEMMA LocalNext == TypeInv /\ LocalInv /\ [Next]_vars => LocalInv'
<1> SUFFICES ASSUME TypeInv, LocalInv, [Next]_vars PROVE LocalInv'
  OBVIOUS
<1>1. TypeInv'
  BY NextType
<1>2. ASSUME NEW m \in Machines, NEW p \in Pages, Page(m, p) PROVE LocalInv'
  BY <1>1, <1>2, LocalStarts, LocalFirst, LocalLater, LocalSheet, LocalRefresh DEF Page
<1>3. ASSUME NEW m \in Machines, Machine(m) PROVE LocalInv'
  BY <1>1, <1>2, <1>3, LocalElse, LocalRefresh, LocalFlush, LocalCrash, LocalRead,
     LocalPublish DEF Machine
<1> QED BY <1>1, <1>3, LocalElse DEF Next

(* What the invariant says of a machine on which nothing landed late.      *)
LEMMA OnTimeHere ==
  ASSUME TypeInv, NEW t \in Tables, OwnInv(t), NEW m \in Machines, m \notin log.late
  PROVE  /\ OnTime(t, m) /\ InStep(mem[m], writing[m], disk[m])
         /\ \A v \in {mem[m], disk[m]} :
              v # None => t[v.meta.salt].gen = v.meta.gen /\ v.meta.gen \in Nat
         /\ \A s \in log.retired[m] : t[s].gen \in Nat
<1>1. Own(t, m)
  BY DEF OwnInv
<1>2. \A s \in log.retired[m] : t[s].gen \in Nat
  BY OwnFields DEF Tables
<1> QED BY <1>1, <1>2, OwnFields DEF Own, VaultFits, Fits

(* A password a machine has moved on from stays out, whatever the server   *)
(* serves or is restored to, and whichever pages race.                     *)
THEOREM OldPasswordsStayOut == Spec => []OldPasswordStaysOut
<1>1. Init => TypeInv /\ LocalInv
  BY InitType, LocalInit
<1>2. TypeInv /\ LocalInv /\ [Next]_vars => (TypeInv /\ LocalInv)'
  BY NextType, LocalNext
<1>3. TypeInv /\ LocalInv => OldPasswordStaysOut
  <2> SUFFICES ASSUME TypeInv, LocalInv, NEW m \in Machines, m \notin log.late,
                      NEW v \in {mem[m], disk[m]}, v # None,
                      v.meta.salt \in log.retired[m]
               PROVE  FALSE
    BY DEF OldPasswordStaysOut
  <2>1. PICK t \in Tables : OwnInv(t)
    BY DEF LocalInv
  <2>2. disk[m] # None /\ t[v.meta.salt].gen < disk[m].meta.gen
    BY <2>1, OnTimeHere DEF OnTime, MovedOn
  <2>3. /\ t[v.meta.salt].gen = v.meta.gen /\ v.meta.gen \in Nat
        /\ t[disk[m].meta.salt].gen = disk[m].meta.gen /\ disk[m].meta.gen \in Nat
    BY <2>1, <2>2, OnTimeHere
  <2>4. CASE v = disk[m]
    BY <2>2, <2>3, <2>4
  <2>5. CASE v = mem[m]
    <3>1. v.meta.salt = disk[m].meta.salt \/ v.meta.gen > disk[m].meta.gen
      BY <2>1, <2>2, <2>5, OnTimeHere DEF OnTime, MovedOn, Succeeds
    <3> QED BY <2>2, <2>3, <3>1
  <2> QED BY <2>4, <2>5
<1> QED BY <1>1, <1>2, <1>3, PTL DEF Spec

(* A recovery code somebody was told to keep is the vault's, in memory and *)
(* in storage.                                                             *)
THEOREM ToldCodesOpen == Spec => []ToldCodeOpens
<1>1. Init => TypeInv /\ LocalInv
  BY InitType, LocalInit
<1>2. TypeInv /\ LocalInv /\ [Next]_vars => (TypeInv /\ LocalInv)'
  BY NextType, LocalNext
<1>3. TypeInv /\ LocalInv => ToldCodeOpens
  BY OnTimeHere DEF LocalInv, ToldCodeOpens, OnTime, Codes
<1> QED BY <1>1, <1>2, <1>3, PTL DEF Spec

(* A machine's vault is replaced by no other.                              *)
LEMMA VaultStep ==
  ASSUME TypeInv, LocalInv, [Next]_vars, NEW m \in Machines, m \notin log'.late,
         disk[m] # None
  PROVE  /\ disk'[m] # None
         /\ \/ disk'[m].meta.key = disk[m].meta.key
            \/ disk'[m].meta.key \in disk'[m].holds
<1>1. PICK t \in Tables : OwnInv(t)
  BY DEF LocalInv
<1>2. \/ UNCHANGED disk
      \/ \E n \in Machines : Flush(n)
  <2>1. ASSUME NEW n \in Machines, NEW p \in Pages, Page(n, p) PROVE UNCHANGED disk
    <3>1. CASE \/ StartSetup(n, p) \/ StartJoin(n, p) \/ StartAdopt(n, p)
               \/ StartChange(n, p) \/ StartSheet(n, p) \/ StartPrint(n, p) \/ CloseSheet(n, p)
      BY <3>1 DEF StartSetup, StartJoin, StartAdopt, StartChange, StartSheet, StartPrint,
                  CloseSheet, local
    <3>2. CASE \/ FinishSetup(n, p) \/ FinishJoin(n, p) \/ FinishAdopt(n, p)
               \/ FinishChange(n, p) \/ KeepCode(n, p) \/ FinishPrint(n, p)
      BY <3>2 DEF FinishSetup, FinishJoin, FinishAdopt, FinishChange, KeepCode, FinishPrint
    <3> QED BY <2>1, <3>1, <3>2 DEF Page
  <2>2. ASSUME NEW n \in Machines, Machine(n) PROVE UNCHANGED disk \/ Flush(n)
    <3>1. ASSUME \/ ForgetPrint(n) \/ AddRecord(n) \/ Crash(n) \/ ReadHeader(n)
                 \/ RefuseDiverged(n) \/ Publish(n) \/ MoveRecords(n) \/ FailRecords(n)
                 \/ \E a \in Machines : EnrolWithCodeOf(n, a)
          PROVE  UNCHANGED disk
      BY <3>1 DEF ForgetPrint, AddRecord, Crash, ReadHeader, RefuseDiverged, Publish,
                  MoveRecords, FailRecords, EnrolWithCodeOf, local
    <3> QED BY <2>1, <2>2, <3>1 DEF Machine
  <2> QED BY <2>2 DEF Next, vars, local, Backup, Restore
<1>3. ASSUME NEW n \in Machines, Flush(n), n # m PROVE disk'[m] = disk[m]
  BY <1>1, <1>3, FlushSteps DEF Untouched
<1>4. CASE Flush(m)
  <2>1. /\ disk'[m] = writing[m] /\ writing[m] # None /\ log'.late = log.late
        /\ mem[m].meta = writing[m].meta /\ mem[m].holds = writing[m].holds
    BY <1>1, <1>4, FlushSteps
  <2>2. Succeeds(mem[m], disk[m])
    BY <1>1, <2>1, OnTimeHere DEF OnTime, MovedOn
  <2> QED BY <2>1, <2>2 DEF Succeeds
<1> QED BY <1>2, <1>3, <1>4

(* Storage holds a vault for good: what replaces it opens its records, or  *)
(* knows them to be another vault's, unless a handler landed late.         *)
THEOREM VaultIsKept == Spec => VaultStays
<1>1. Init => TypeInv /\ LocalInv
  BY InitType, LocalInit
<1>2. TypeInv /\ LocalInv /\ [Next]_vars => (TypeInv /\ LocalInv)'
  BY NextType, LocalNext
<1>3. TypeInv /\ LocalInv /\ [Next]_vars =>
        [\A m \in Machines \ log'.late :
           disk[m] # None =>
             /\ disk'[m] # None
             /\ \/ disk'[m].meta.key = disk[m].meta.key
                \/ disk'[m].meta.key \in disk'[m].holds]_vars
  BY VaultStep
<1> QED BY <1>1, <1>2, <1>3, PTL DEF Spec, VaultStays

=============================================================================
