------------------------------- MODULE Header -------------------------------
(***************************************************************************)
(* The vault header: how a vault is set up, joined, opened and given a new *)
(* master password, and how its header travels through the sync server     *)
(* (core/vault.js, core/sync.js, core/crypto.js, ext/background.js,        *)
(* ui/manager.js).                                                         *)
(*                                                                         *)
(* A handler that awaits is two steps, what it read before the await kept  *)
(* in `job'; one page runs one of them at a time, several pages may be     *)
(* open.  A sync reads the server's header and acts on it in one step, and *)
(* a publication it sends lands in a later one.  Writes to storage.local   *)
(* land in the order they are made: `writing' is the last one under way.   *)
(*                                                                         *)
(* Every password is new, so the salt of a wrapping stands for the         *)
(* password too.  Whoever runs a handler brings a secret that opens the    *)
(* vault: whether it is locked is left open, and opening it by the         *)
(* wrapping it has changes nothing here.  Records matter only by the vault *)
(* key they are sealed under; how they travel is module Sync.              *)
(***************************************************************************)
EXTENDS Naturals, FiniteSets

CONSTANTS
  Machines, Pages, None,
  MaxSalts,    \* bound: password wrappings made
  MaxCodes,    \* bound: recovery codes made
  MaxVaults,   \* bound: vaults created
  MaxSeq,      \* bound: the server's sequence
  MaxJobs      \* bound: handlers run, crashes and backups

ASSUME BoundsAssumption ==
  /\ {MaxSalts, MaxVaults} \subseteq Nat \ {0}
  /\ {MaxCodes, MaxSeq, MaxJobs} \subseteq Nat

VARIABLES
  srv,      \* the server: its header, its sequence, the keys of its records
  saved,    \* a copy of store.json somebody kept
  mem,      \* per machine: the vault in the background page
  disk,     \* per machine: the vault in storage.local
  writing,  \* per machine: the write on its way to storage.local
  job,      \* per machine and page: the handler that awaits
  sync,     \* per machine: where its sync is
  seen,     \* per machine: syncState.highestSeq
  floor,    \* per machine: settings.enrolFloor
  drawn,    \* how many salts, codes and vault keys have been drawn
  jobs,     \* how many handlers, crashes and backups there were
  log       \* ghost: see Log

server   == <<srv, saved>>
local    == <<mem, disk, writing>>
vars == <<srv, saved, mem, disk, writing, job, sync, seen, floor, drawn,
          jobs, log>>

Salts    == 1 .. MaxSalts
RecCodes == 1 .. MaxCodes
Keys     == 1 .. MaxVaults
Proofs   == [key : Keys, gen : Nat, salt : Salts, rec : RecCodes \cup {None}]
Headers  == [key : Keys, gen : Nat, salt : Salts, rec : RecCodes \cup {None},
             bio : BOOLEAN, proof : Proofs]
Vaults   == [meta : Headers, pending : Headers \cup {None}, holds : SUBSET Keys]
Stores   == [meta : Headers \cup {None}, seq : Nat, holds : SUBSET Keys]
Jobs     == [op : {"idle", "setup", "join", "adopt", "change", "sheet", "print"},
             hdr : Headers \cup {None}, base : Salts \cup {None},
             code : RecCodes \cup {None}]
Syncs    == [at : {"idle", "put", "records"}, hdr : Headers \cup {None}, seq : Nat]

ASSUME NoneAssumption == None \notin Nat /\ None \notin Headers /\ None \notin Vaults

(* retired: salts a machine's disk has moved on from;  late: machines on   *)
(* which a handler landed on another header than it started from, a setup  *)
(* or a join on one at all;  kept: the recovery code a person              *)
(* acknowledged;  told: the one they were told is the vault's, once it is  *)
(* in storage;  printed: machines on which a fingerprint was enrolled;     *)
(* vouched: the generation the server held when the machine that minted    *)
(* the code had seen its floor, and seenGen that of seen;  past: whether   *)
(* the server was restored, and written to since.                          *)
Log == [retired : [Machines -> SUBSET Salts], late : SUBSET Machines,
        kept : [Machines -> RecCodes \cup {None}],
        told : [Machines -> RecCodes \cup {None}],
        printed : SUBSET Machines, vouched : [Machines -> Nat],
        seenGen : [Machines -> Nat],
        past : {"whole", "restored", "rewritten"}]

Idle == [op |-> "idle", hdr |-> None, base |-> None, code |-> None]
Resting == [at |-> "idle", hdr |-> None, seq |-> 0]
HeaderDone == [Resting EXCEPT !.at = "records"]
Busy(m, ops) == {p \in Pages : job[m][p].op \in ops}
GenOf(h) == IF h = None THEN 0 ELSE h.gen
Max2(a, b) == IF a > b THEN a ELSE b

-----------------------------------------------------------------------------
(* Headers.                                                                *)

(* sealHeaderProof() and verifyHeaderProof(): the proof covers everything  *)
(* but itself and the fingerprint wrapping.                                *)
Seal(h)   == [key |-> h.key, gen |-> h.gen, salt |-> h.salt, rec |-> h.rec]
Proved(h) == h.proof = Seal(h)

AsItIs(h) == h             \* mutant: the header leaves with every wrapping
(* portableMeta, adoptMeta().                                              *)
Portable(h) == [h EXCEPT !.bio = FALSE]

SealsFirst(h) == [h EXCEPT !.proof = [Seal(h) EXCEPT !.gen = h.gen - 1]]
                           \* mutant: sealed before the generation is bumped
NoProof(h) == [h EXCEPT !.proof = None]      \* mutant: left unsealed
Proven(h) == [h EXCEPT !.proof = Seal(h)]

Header(k, g, s, rec, bio) ==
  [key |-> k, gen |-> g, salt |-> s, rec |-> rec, bio |-> bio,
   proof |-> [key |-> k, gen |-> g, salt |-> s, rec |-> rec]]
(* mutant: only the wrapping at hand is carried over                       *)
DropsTheCode(h, s) == Proven([h EXCEPT !.gen = @ + 1, !.salt = s, !.rec = None])
(* #rewrapPassword(): the same key under a new salt, one generation up, the *)
(* other wrappings as they are.                                            *)
Rewrapped(h, s) == Proven([h EXCEPT !.gen = @ + 1, !.salt = s])

AnyGen(h, mine) == TRUE    \* mutant: no generation outranks another
(* The generation test of stashHeader() and #adoptPendingHeader().         *)
Outranks(h, mine) == h.gen > mine.gen

-----------------------------------------------------------------------------
(* A page's handlers.  Begin and End bracket the await.                    *)
Counted        == jobs < MaxJobs /\ jobs' = jobs + 1
Begin(m, p, j) ==
  /\ job[m][p] = Idle /\ Counted
  /\ job' = [job EXCEPT ![m][p] = j]
End(m, p)      == job' = [job EXCEPT ![m][p] = Idle] /\ UNCHANGED jobs
MemIs(m, v)    == mem' = [mem EXCEPT ![m] = v]
(* persistVault(): what memory holds is on its way to storage.             *)
Persist(m, v)  ==
  writing' = [writing EXCEPT ![m] = IF v = disk[m] THEN None ELSE v]
SaltOf(v)      == IF v = None THEN None ELSE v.meta.salt
Late(m, p)     == log.late \cup (IF job[m][p].base = SaltOf(mem[m]) THEN {} ELSE {m})

MemoryOnly(m) == mem[m] = None          \* mutant: memory is asked alone
(* vaultOnDisk(): asked of memory, then of storage.                        *)
NoVaultYet(m) == mem[m] = None /\ disk[m] = None

(* handleSetup(): the test, then Vault.create(), then the vault replaces   *)
(* whatever memory holds.                                                  *)
StartSetup(m, p) ==
  /\ NoVaultYet(m)
  /\ Begin(m, p, [Idle EXCEPT !.op = "setup"])
  /\ UNCHANGED <<server, local, sync, seen, floor, drawn, log>>
FinishSetup(m, p) ==
  /\ job[m][p].op = "setup"
  /\ drawn.key < MaxVaults /\ drawn.salt < MaxSalts
  /\ LET v == [meta |-> Header(drawn.key + 1, 0, drawn.salt + 1, None, FALSE),
               pending |-> None, holds |-> {}]
     IN  MemIs(m, v) /\ Persist(m, v)
  /\ drawn' = [drawn EXCEPT !.key = @ + 1, !.salt = @ + 1]
  /\ log' = [log EXCEPT !.late = Late(m, p)]
  /\ End(m, p)
  /\ UNCHANGED <<server, disk, sync, seen, floor>>

(* Redeeming a code minted by machine a: the code carries what a had seen  *)
(* of the server (handleMintCode(), handleSettingsSet()).                  *)
EnrolWithCodeOf(m, a) ==
  /\ NoVaultYet(m) /\ Busy(m, {"setup", "join"}) = {} /\ mem[a] # None
  /\ Counted
  /\ floor' = [floor EXCEPT ![m] = seen[a]]
  /\ seen'  = [seen EXCEPT ![m] = Max2(@, seen[a])]
  /\ log'   = [log EXCEPT !.vouched[m] = log.seenGen[a],
                          !.seenGen[m] = Max2(@, log.seenGen[a])]
  /\ UNCHANGED <<server, local, job, sync, drawn>>

NoFloor(m) == TRUE         \* mutant: the floor is not looked at
AboveFloor(m) == srv.seq >= floor[m]
(* handleJoin() and joinVault(): the header is fetched and checked, then   *)
(* opened with its password, then it is this machine's vault.              *)
StartJoin(m, p) ==
  /\ NoVaultYet(m)
  /\ AboveFloor(m) /\ srv.meta # None
  /\ Begin(m, p, [Idle EXCEPT !.op = "join", !.hdr = Portable(srv.meta)])
  /\ UNCHANGED <<server, local, sync, seen, floor, drawn, log>>
FinishJoin(m, p) ==
  /\ job[m][p].op = "join"
  /\ LET v == [meta |-> job[m][p].hdr, pending |-> None, holds |-> {}]
     IN  MemIs(m, v) /\ Persist(m, v)
  /\ seen' = [seen EXCEPT ![m] = floor[m]]
  /\ log'  = [log EXCEPT !.seenGen[m] = log.vouched[m], !.late = Late(m, p)]
  /\ End(m, p)
  /\ UNCHANGED <<server, disk, sync, floor, drawn>>

(* unlock() with the password of the pending header, which the local       *)
(* wrapping refuses: #adoptPendingHeader() checks the generation, awaits   *)
(* the derivation, and goes on from what it had read.                      *)
StartAdopt(m, p) ==
  /\ mem[m] # None /\ mem[m].pending # None
  /\ Outranks(mem[m].pending, mem[m].meta)
  /\ Begin(m, p, [Idle EXCEPT !.op = "adopt", !.hdr = mem[m].pending,
                              !.base = mem[m].meta.salt])
  /\ UNCHANGED <<server, local, sync, seen, floor, drawn, log>>

AnyKey(v, h) == v.holds # {}     \* mutant: unreadable records are no refusal
(* Some record this vault holds opens under the header's key.              *)
OpensARecord(v, h) == h.key \in v.holds

FinishAdopt(m, p) ==
  LET h == job[m][p].hdr
      v == mem[m]
      adopted == [v EXCEPT !.meta = [h EXCEPT !.bio = v.meta.bio],
                           !.pending = None]
  IN  /\ job[m][p].op = "adopt"
      /\ End(m, p)
      /\ \/ /\ ~Proved(h)
            /\ MemIs(m, [v EXCEPT !.pending = None])
            /\ UNCHANGED <<writing, log>>
         \/ /\ Proved(h) /\ ~OpensARecord(v, h)
            /\ UNCHANGED <<mem, writing, log>>
         \/ /\ Proved(h) /\ OpensARecord(v, h)
            /\ MemIs(m, adopted) /\ Persist(m, adopted)
            /\ log' = [log EXCEPT !.late = Late(m, p),
                          !.kept[m] = None, !.told[m] = None]
      /\ UNCHANGED <<server, disk, sync, seen, floor, drawn>>

(* changeMasterPassword(), by the password or the recovery code: the next  *)
(* header is made from the current one, sealed, and swapped in.            *)
StartChange(m, p) ==
  /\ mem[m] # None /\ drawn.salt < MaxSalts
  /\ Begin(m, p, [Idle EXCEPT !.op = "change", !.base = mem[m].meta.salt,
                    !.hdr = Rewrapped(mem[m].meta, drawn.salt + 1)])
  /\ drawn' = [drawn EXCEPT !.salt = @ + 1]
  /\ UNCHANGED <<server, local, sync, seen, floor, log>>
FinishChange(m, p) ==
  LET v == [mem[m] EXCEPT !.meta = job[m][p].hdr, !.pending = None]
  IN  /\ job[m][p].op = "change"
      /\ MemIs(m, v) /\ Persist(m, v)
      /\ log' = [log EXCEPT !.late = Late(m, p)]
      /\ End(m, p)
      /\ UNCHANGED <<server, disk, sync, seen, floor, drawn>>

(* The recovery sheet: a code is minted and shown; the vault takes it when *)
(* it is acknowledged, whatever header it has by then.                     *)
StartSheet(m, p) ==
  /\ mem[m] # None /\ drawn.code < MaxCodes
  /\ Begin(m, p, [Idle EXCEPT !.op = "sheet", !.code = drawn.code + 1])
  /\ drawn' = [drawn EXCEPT !.code = @ + 1]
  /\ UNCHANGED <<server, local, sync, seen, floor, log>>
CloseSheet(m, p) ==
  /\ job[m][p].op = "sheet"
  /\ End(m, p)
  /\ UNCHANGED <<server, local, sync, seen, floor, drawn, log>>
(* What is under way would overwrite it: see `late'.                       *)
KeepCode(m, p) ==
  LET v == [mem[m] EXCEPT !.meta.rec = job[m][p].code]
  IN  /\ job[m][p].op = "sheet"
      /\ MemIs(m, v) /\ Persist(m, v)
      /\ log' = [log EXCEPT
           !.kept[m] = job[m][p].code,
           !.late    = IF Busy(m, {"change"}) = {} THEN @ ELSE @ \cup {m}]
      /\ End(m, p)
      /\ UNCHANGED <<server, disk, sync, seen, floor, drawn>>

(* handleBioEnrol(): the object that gets the wrapping is the one there    *)
(* was before the await; if it was replaced the wrapping is lost.          *)
StartPrint(m, p) ==
  /\ mem[m] # None /\ ~mem[m].meta.bio
  /\ Begin(m, p, [Idle EXCEPT !.op = "print", !.base = mem[m].meta.salt])
  /\ UNCHANGED <<server, local, sync, seen, floor, drawn, log>>
FinishPrint(m, p) ==
  LET v == [mem[m] EXCEPT !.meta.bio = @ \/ job[m][p].base = mem[m].meta.salt]
  IN  /\ job[m][p].op = "print"
      /\ MemIs(m, v) /\ Persist(m, v)
      /\ log' = [log EXCEPT !.printed = @ \cup {m}]
      /\ End(m, p)
      /\ UNCHANGED <<server, disk, sync, seen, floor, drawn>>
(* handleBioForget(), and handleBioUnlock() when the secret has drifted.   *)
ForgetPrint(m) ==
  LET v == [mem[m] EXCEPT !.meta.bio = FALSE]
  IN  /\ mem[m] # None /\ mem[m].meta.bio
      /\ Counted
      /\ MemIs(m, v) /\ Persist(m, v)
      /\ UNCHANGED <<server, disk, job, sync, seen, floor, drawn, log>>

(* A record is added to the open vault.                                    *)
AddRecord(m) ==
  LET v == [mem[m] EXCEPT !.holds = @ \cup {mem[m].meta.key}]
  IN  /\ mem[m] # None /\ v # mem[m]
      /\ Counted
      /\ MemIs(m, v) /\ Persist(m, v)
      /\ UNCHANGED <<server, disk, job, sync, seen, floor, drawn, log>>

(* The write lands; a salt the disk moves on from is retired.              *)
Flush(m) ==
  /\ writing[m] # None
  /\ disk'    = [disk EXCEPT ![m] = writing[m]]
  /\ writing' = [writing EXCEPT ![m] = None]
  /\ log' = [log EXCEPT
       !.retired[m] = IF disk[m] = None THEN @
                      ELSE @ \cup ({disk[m].meta.salt} \ {writing[m].meta.salt}),
       !.told[m] = IF log.kept[m] = None THEN @ ELSE log.kept[m],
       !.kept[m] = None]
  /\ UNCHANGED <<server, mem, job, sync, seen, floor, drawn, jobs>>

(* The browser dies: boot() reads what storage holds.                      *)
Crash(m) ==
  /\ Counted
  /\ mem' = [mem EXCEPT ![m] = disk[m]]
  /\ writing' = [writing EXCEPT ![m] = None]
  /\ job' = [job EXCEPT ![m] = [p \in Pages |-> Idle]]
  /\ sync' = [sync EXCEPT ![m] = Resting]
  /\ log' = [log EXCEPT !.kept[m] = None]
  /\ UNCHANGED <<server, disk, seen, floor, drawn>>

-----------------------------------------------------------------------------
(* The server, and a sync.                                                 *)

ServerNow(meta, holds) ==
  /\ srv' = [meta |-> meta, seq |-> srv.seq + 1, holds |-> holds]
  /\ log' = [log EXCEPT !.past = IF @ = "whole" THEN @ ELSE "rewritten"]

(* syncHeader(), at the reply to getMeta().  A newer header is parked; an  *)
(* equal one must be the same, from generation 1 on; ours is published if  *)
(* it is newer or there is none.                                           *)
Diverged(m) ==
  mem[m].meta.gen > 0 /\ srv.meta.salt # mem[m].meta.salt
ReadHeader(m) ==
  /\ mem[m] # None /\ sync[m] = Resting
  /\ \/ /\ srv.meta # None /\ Outranks(srv.meta, mem[m].meta)
        /\ MemIs(m, [mem[m] EXCEPT !.pending = Portable(srv.meta)])
        /\ sync' = [sync EXCEPT ![m] = HeaderDone]
        /\ UNCHANGED writing
     \/ /\ srv.meta # None /\ srv.meta.gen = mem[m].meta.gen
        /\ ~Diverged(m)
        /\ sync' = [sync EXCEPT ![m] = HeaderDone]
        /\ UNCHANGED <<mem, writing>>
     \/ /\ srv.meta = None \/ GenOf(srv.meta) < mem[m].meta.gen
        /\ sync' = [sync EXCEPT ![m] =
             [at |-> "put", hdr |-> Portable(mem[m].meta), seq |-> srv.seq]]
        /\ UNCHANGED <<mem, writing>>
  /\ UNCHANGED <<server, disk, job, seen, floor, drawn, log, jobs>>
(* A sync that finds two headers of one generation fails: that is a read   *)
(* and a write of the vault as it is.                                      *)
RefuseDiverged(m) ==
  /\ mem[m] # None /\ sync[m] = Resting /\ srv.meta # None
  /\ srv.meta.gen = mem[m].meta.gen /\ Diverged(m)
  /\ Persist(m, mem[m])
  /\ UNCHANGED <<server, mem, disk, job, sync, seen, floor, drawn, log, jobs>>

NoIfMatch(put) == TRUE     \* mutant: the compare-and-swap is switched off
IfMatch(put) == put.seq = srv.seq
(* PUT /v1/meta lands.  The reply may be lost, or it is a 409: the sync    *)
(* fails, and persists.                                                    *)
Publish(m) ==
  /\ sync[m].at = "put"
  /\ \/ /\ IfMatch(sync[m]) /\ srv.seq < MaxSeq
        /\ ServerNow(sync[m].hdr, srv.holds)
        /\ \/ /\ sync' = [sync EXCEPT ![m] = HeaderDone]
              /\ UNCHANGED writing
           \/ sync' = [sync EXCEPT ![m] = Resting] /\ Persist(m, mem[m])
     \/ /\ ~IfMatch(sync[m])
        /\ sync' = [sync EXCEPT ![m] = Resting] /\ Persist(m, mem[m])
        /\ UNCHANGED <<srv, log>>
  /\ UNCHANGED <<saved, mem, disk, job, seen, floor, drawn, jobs>>

(* The records of the vault and of the server become the same, or the sync *)
(* fails: an open vault refuses records under another key, a rollback is   *)
(* refused.  Either way the vault is persisted.                            *)
MoveRecords(m) ==
  /\ sync[m].at = "records"
  /\ srv.seq >= seen[m]
  /\ LET both == srv.holds \cup mem[m].holds
         v    == [mem[m] EXCEPT !.holds = both]
     IN  /\ MemIs(m, v) /\ Persist(m, v)
         /\ IF both = srv.holds
            THEN srv' = srv /\ log' = [log EXCEPT !.seenGen[m] = GenOf(srv.meta)]
            ELSE /\ srv.seq < MaxSeq
                 /\ srv' = [srv EXCEPT !.seq = @ + 1, !.holds = both]
                 /\ log' = [log EXCEPT
                      !.seenGen[m] = GenOf(srv.meta),
                      !.past = IF @ = "whole" THEN @ ELSE "rewritten"]
         /\ seen' = [seen EXCEPT ![m] = srv'.seq]
  /\ sync' = [sync EXCEPT ![m] = Resting]
  /\ UNCHANGED <<saved, disk, job, floor, drawn, jobs>>
FailRecords(m) ==
  /\ sync[m].at = "records"
  /\ Persist(m, mem[m])
  /\ sync' = [sync EXCEPT ![m] = Resting]
  /\ UNCHANGED <<server, mem, disk, job, seen, floor, drawn, log, jobs>>

(* A copy of the store is kept, and put back later.                        *)
Backup ==
  /\ Counted
  /\ saved' = srv
  /\ UNCHANGED <<srv, local, job, sync, seen, floor, drawn, log>>
Restore ==
  /\ saved # None /\ saved # srv
  /\ srv' = saved
  /\ log' = [log EXCEPT !.past = IF @ = "rewritten" THEN @ ELSE "restored"]
  /\ UNCHANGED <<saved, local, job, sync, seen, floor, drawn, jobs>>

-----------------------------------------------------------------------------
(* Nothing exists yet; or one machine, or every one, has a vault with a    *)
(* record in it, and the server its header and record.                     *)
Init ==
  /\ writing = [m \in Machines |-> None]
  /\ job = [m \in Machines |-> [p \in Pages |-> Idle]]
  /\ sync = [m \in Machines |-> Resting]
  /\ floor = [m \in Machines |-> 0]
  /\ jobs = 0
  /\ LET h == Header(1, 0, 1, None, FALSE)
         v == [meta |-> h, pending |-> None, holds |-> {1}]
     IN  \/ /\ mem = [m \in Machines |-> None]
            /\ srv = [meta |-> None, seq |-> 0, holds |-> {}]
            /\ drawn = [salt |-> 0, code |-> 0, key |-> 0]
         \/ /\ \E having \in SUBSET Machines :
                 /\ having = Machines \/ Cardinality(having) = 1
                 /\ mem = [m \in Machines |-> IF m \in having THEN v ELSE None]
            /\ srv = [meta |-> h, seq |-> 1, holds |-> {1}]
            /\ drawn = [salt |-> 1, code |-> 0, key |-> 1]
  /\ disk = mem /\ saved \in {None, srv}
  /\ seen = [m \in Machines |-> IF mem[m] = None THEN 0 ELSE srv.seq]
  /\ log = [retired |-> [m \in Machines |-> {}], late |-> {},
            kept |-> [m \in Machines |-> None],
            told |-> [m \in Machines |-> None], printed |-> {},
            vouched |-> [m \in Machines |-> 0],
            seenGen |-> [m \in Machines |-> 0], past |-> "whole"]

Page(m, p) ==
  \/ StartSetup(m, p) \/ FinishSetup(m, p)
  \/ StartJoin(m, p) \/ FinishJoin(m, p)
  \/ StartAdopt(m, p) \/ FinishAdopt(m, p)
  \/ StartChange(m, p) \/ FinishChange(m, p)
  \/ StartSheet(m, p) \/ CloseSheet(m, p) \/ KeepCode(m, p)
  \/ StartPrint(m, p) \/ FinishPrint(m, p)

Machine(m) ==
  \/ \E p \in Pages : Page(m, p)
  \/ \E a \in Machines : EnrolWithCodeOf(m, a)
  \/ ForgetPrint(m) \/ AddRecord(m)
  \/ Flush(m) \/ Crash(m)
  \/ ReadHeader(m) \/ RefuseDiverged(m) \/ Publish(m)
  \/ MoveRecords(m) \/ FailRecords(m)

Next == Backup \/ Restore \/ \E m \in Machines : Machine(m)
Spec == Init /\ [][Next]_vars

-----------------------------------------------------------------------------
(* Every variable holds a value of its kind (core/vault.js's toJSON(), the *)
(* server's store).                                                        *)
TypeOK ==
  /\ srv \in Stores /\ saved \in Stores \cup {None}
  /\ mem \in [Machines -> Vaults \cup {None}]
  /\ disk \in [Machines -> Vaults \cup {None}]
  /\ writing \in [Machines -> Vaults \cup {None}]
  /\ job \in [Machines -> [Pages -> Jobs]]
  /\ sync \in [Machines -> Syncs]
  /\ jobs \in 0 .. MaxJobs
  /\ seen \in [Machines -> Nat] /\ floor \in [Machines -> Nat]
  /\ drawn \in [salt : 0 .. MaxSalts, code : 0 .. MaxCodes, key : 0 .. MaxVaults]
  /\ log \in Log

(* A password a machine has moved on from never opens it again, whatever   *)
(* the server serves, is restored to or still has parked (stashHeader(),   *)
(* #adoptPendingHeader(), vault.js 331-394), unless a change or an         *)
(* adoption landed on another header than it started from.                 *)
OldPasswordStaysOut ==
  \A m \in Machines \ log.late :
    \A v \in {mem[m], disk[m]} : v = None \/ v.meta.salt \notin log.retired[m]

(* A published header replaces one of a lower generation, however machines *)
(* race between reading and publishing, unless the server was restored     *)
(* meanwhile (syncHeader() and putMeta(), sync.js 469-474, 609-661).       *)
PublishedOutranks ==
  [][srv'.meta # srv.meta /\ srv.meta # None /\ log'.past = "whole"
       => GenOf(srv'.meta) > srv.meta.gen]_vars

(* The proof of a published header is about that header: only a recovery   *)
(* code made since may keep another machine from adopting it               *)
(* (#rewrapPassword(), verifyHeaderProof()).                               *)
PublishedAdoptable ==
  LET h == srv.meta
  IN  h # None => h.proof = [Seal(h) EXCEPT !.rec = h.proof.rec]

(* The vault a machine has is never replaced by another: not by a setup or *)
(* a join, unless it landed late, and not by a header from the server, as *)
(* long as the vault holds no record of another vault (handleSetup(),      *)
(* handleJoin(), #adoptPendingHeader()).                                   *)
VaultStays ==
  [][\A m \in Machines \ log'.late :
       disk[m] # None =>
         /\ disk'[m] # None
         /\ \/ disk'[m].meta.key = disk[m].meta.key
            \/ disk'[m].meta.key \in disk'[m].holds]_vars

(* A recovery code a person was told to keep stays in the vault until they *)
(* are told of another or a header from another machine brings its own     *)
(* (adoptRecoveryWrap(), #rewrapPassword()), unless something landed late. *)
ToldCodeOpens ==
  \A m \in Machines \ log.late :
    log.told[m] # None /\ log.kept[m] = None =>
      /\ mem[m].meta.rec = log.told[m]
      /\ disk[m].meta.rec = log.told[m]

(* A fingerprint wrapping never leaves the machine it was made on: not to  *)
(* the server, not into a header that waits or is joined from              *)
(* (portableMeta, adoptMeta(), vault.js 270-300).                          *)
FingerprintStaysHome ==
  /\ srv.meta = None \/ ~srv.meta.bio
  /\ \A m \in Machines :
       /\ sync[m].at = "put" => ~sync[m].hdr.bio
       /\ mem[m] # None =>
            /\ mem[m].pending = None \/ ~mem[m].pending.bio
            /\ mem[m].meta.bio => m \in log.printed

(* A header a machine joins from is no older than the one the machine that *)
(* minted its code had seen, unless the server was restored and written to *)
(* again (joinVault()'s floor, sync.js 496-510).                           *)
JoinKeepsUp ==
  log.past = "rewritten" \/
    \A m \in Machines : \A p \in Busy(m, {"join"}) :
      job[m][p].hdr.gen >= log.vouched[m]
=============================================================================
