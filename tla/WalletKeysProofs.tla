-------------------------- MODULE WalletKeysProofs --------------------------
(***************************************************************************)
(* The key pool for every number of users, keys, first runs and crashes.   *)
(***************************************************************************)
EXTENDS WalletKeys, WellFoundedInduction, TLAPS

-----------------------------------------------------------------------------
(* The inductive invariant. *)

\* The records have their fields.
Shape ==
  /\ disk = [mkey |-> disk.mkey, ckey |-> disk.ckey, hdchain |-> disk.hdchain, pool |-> disk.pool,
             defaultkey |-> disk.defaultkey, seedhash |-> disk.seedhash, dzs |-> disk.dzs]
  /\ disk.hdchain \in [master : Nat, counter : Nat]
  /\ mem = [up |-> mem.up, vMasterKey |-> mem.vMasterKey, checked |-> mem.checked, keys |-> mem.keys,
            setKeyPool |-> mem.setKeyPool]
  /\ job = [op |-> job.op, pc |-> job.pc, next |-> job.next, target |-> job.target, index |-> job.index,
            key |-> job.key, pass |-> job.pass, relock |-> job.relock]
  /\ res = [c \in Client |-> [index |-> res[c].index, key |-> res[c].key]]

\* Pool indexes are positive and bounded, so that there is a next one.
Indexes(S) == S \subseteq Nat \ {0} /\ \E n \in Nat : \A i \in S : i <= n
Numbered ==
  /\ Indexes(DOMAIN disk.pool) /\ Indexes(mem.setKeyPool)
  /\ \A c \in InHand : res[c].index \in Nat \ {0}

\* Which operation is where: nothing happens without a process, and the first run
\* has the pool for itself.
Order ==
  /\ ~mem.up => job = Idle /\ mem.setKeyPool = {}
  /\ ~mem.up \/ job.op = "setup" => InHand = {}
  /\ job.pc \in {"mkey", "hdkey", "hdchain", "erase", "default"} => job.op = "setup"
  /\ job.pc # "none" => mem.up
  /\ job.next \in {"none", "loop", "rekey"}

\* Memory and database hold the same keys, among them everything that the pool, a
\* client or an operation has.
Stored ==
  /\ mem.up => DOMAIN mem.keys = DOMAIN disk.ckey
  /\ \A i \in DOMAIN disk.pool : disk.pool[i] \in DOMAIN disk.ckey
  /\ used \subseteq DOMAIN disk.ckey
  /\ \A c \in InHand : res[c].key \in DOMAIN disk.ckey
  /\ job.pc \in {"pool", "keep"} => job.key \in DOMAIN disk.ckey

\* The HD chain has made no key above its counter, and no key has been made with a
\* master key that does not exist.
Fresh ==
  /\ DOMAIN disk.mkey \subseteq 1..MaxMaster
  /\ \A m, n \in Nat : <<m, n>> \in DOMAIN disk.ckey => m \in DOMAIN disk.mkey
  /\ \A n \in Nat : n > disk.hdchain.counter => <<disk.hdchain.master, n>> \notin DOMAIN disk.ckey
  /\ job.pc \in {"hdkey", "hdchain"} => mem.vMasterKey \in DOMAIN disk.mkey
  /\ job.pc \in {"hdkey", "hdchain"} => \A n \in Nat \ {0} : <<mem.vMasterKey, n>> \notin DOMAIN disk.ckey
  /\ job.pc = "add" => /\ job.key = <<disk.hdchain.master, disk.hdchain.counter>>
                       /\ job.key \notin DOMAIN disk.ckey
                       /\ disk.hdchain.master \in DOMAIN disk.mkey

\* A key has one record in the pool: the one its holder will erase.
Once ==
  /\ \A i, j \in DOMAIN disk.pool : disk.pool[i] = disk.pool[j] => i = j
  /\ \A i \in DOMAIN disk.pool : disk.pool[i] \notin used
  /\ \A c \in InHand : \A i \in DOMAIN disk.pool : disk.pool[i] = res[c].key => i = res[c].index
  /\ job.pc = "keep" => \A i \in DOMAIN disk.pool : disk.pool[i] = job.key => i = job.index
  /\ job.pc = "pool" => /\ job.key \notin used
                        /\ \A i \in DOMAIN disk.pool : disk.pool[i] # job.key
                        /\ \A c \in InHand : res[c].key # job.key

\* Unless a record was written over, the holder of a key has its record too, and
\* it alone.
Held ==
  ~clobbered =>
    /\ \A c \in InHand : /\ res[c].index \in DOMAIN disk.pool \ mem.setKeyPool
                         /\ disk.pool[res[c].index] = res[c].key
    /\ \A c, d \in InHand : res[c].index = res[d].index => c = d
    /\ job.pc = "keep" => /\ job.index \in DOMAIN disk.pool \ mem.setKeyPool
                          /\ disk.pool[job.index] = job.key
                          /\ \A c \in InHand : res[c].index # job.index
    /\ job.pc # "erase" => mem.setKeyPool \subseteq DOMAIN disk.pool

IInv == Shape /\ Numbered /\ Order /\ Stored /\ Fresh /\ Once /\ Held

-----------------------------------------------------------------------------
(* The operators. *)

\* What ReserveKeyFromKeyPool and DeriveNewChildKey look for exists: a set of
\* numbers that is not empty has a least one.
LEMMA MinIn ==
  ASSUME NEW S, S \subseteq Nat, S # {}
  PROVE  Min(S) \in S /\ \A y \in S : Min(S) <= y
<1> DEFINE R == OpToRel(<, Nat)
<1>1. IsWellFoundedOn(R, Nat)
  BY NatLessThanWellFounded
<1>2. \A x, y \in Nat : x < y => <<x, y>> \in R
  BY DEF OpToRel
<1> HIDE DEF R
<1>3. PICK x \in S : \A y \in S : ~ (<<y, x>> \in R)
  BY <1>1, WFMin
<1>4. \A y \in S : x <= y
  <2> TAKE y \in S
  <2>1. x \in Nat /\ y \in Nat
    OBVIOUS
  <2>2. ~ (y < x)
    BY <2>1, <1>2, <1>3
  <2> QED
    BY <2>1, <2>2
<1> QED
  BY <1>4 DEF Min

\* So has a bounded one a largest one, and WritePool a next index.
LEMMA MaxIn ==
  ASSUME NEW S, S \subseteq Nat, S # {}, NEW n \in Nat, \A x \in S : x <= n
  PROVE  Max(S) \in S /\ \A y \in S : y <= Max(S)
<1> DEFINE T == {n - x : x \in S}
<1>1. T \subseteq Nat /\ T # {}
  <2>1. \A x \in S : x \in Nat /\ x <= n /\ n - x \in Nat
    OBVIOUS
  <2>2. T # {}
    OBVIOUS
  <2> QED
    BY <2>1, <2>2
<1>2. Min(T) \in T /\ \A y \in T : Min(T) <= y
  BY <1>1, MinIn
<1>3. PICK x \in S : Min(T) = n - x
  BY <1>2
<1>4. \A y \in S : x >= y
  <2> TAKE y \in S
  <2>1. n - x <= n - y
    BY <1>2, <1>3
  <2> QED
    BY <2>1
<1> QED
  BY <1>4 DEF Max

\* The index after the last one of a set.
LEMMA NextIndex ==
  ASSUME NEW S, Indexes(S)
  PROVE  /\ Max({0} \cup S) + 1 \in Nat \ {0}
         /\ Max({0} \cup S) + 1 \notin S
         /\ Indexes(S \cup {Max({0} \cup S) + 1})
<1> DEFINE U == {0} \cup S
           m == Max(U)
<1>1. PICK n \in Nat : \A i \in S : i <= n
  BY DEF Indexes
<1>2. U \subseteq Nat /\ U # {} /\ \A x \in U : x <= n
  BY <1>1 DEF Indexes
<1>3. m \in U /\ \A y \in U : y <= m
  BY <1>2, MaxIn
<1> HIDE DEF m
<1>4. m \in Nat /\ m + 1 \in Nat \ {0} /\ \A y \in S : y <= m
  BY <1>2, <1>3
<1>5. m + 1 \notin S
  BY <1>4
<1>6. Indexes(S \cup {m + 1})
  BY <1>4 DEF Indexes
<1> QED
  BY <1>4, <1>5, <1>6 DEF m

LEMMA IndexesSubset ==
  ASSUME NEW S, Indexes(S), NEW T, T \subseteq S
  PROVE  Indexes(T)
BY DEF Indexes

LEMMA IndexesAdd ==
  ASSUME NEW S, Indexes(S), NEW i \in Nat \ {0}
  PROVE  Indexes(S \cup {i})
<1>1. PICK n \in Nat : \A j \in S : j <= n
  BY DEF Indexes
<1>2. \A j \in S \cup {i} : j \in Nat /\ j <= n + i
  BY <1>1 DEF Indexes
<1> QED
  BY <1>1, <1>2 DEF Indexes

-----------------------------------------------------------------------------
(* Steps that leave keys and pool alone. *)

LEMMA QuietStep ==
  ASSUME IInv, Shape',
         disk'.pool = disk.pool, disk'.ckey = disk.ckey, disk'.hdchain = disk.hdchain,
         DOMAIN disk'.mkey = DOMAIN disk.mkey,
         mem'.up = mem.up, mem'.keys = mem.keys, mem'.setKeyPool = mem.setKeyPool,
         res' = res, used' = used, clobbered' = clobbered,
         mem.up, job.pc # "erase",
         job'.pc \in {"none", "loop", "take", "seed", "rekey"},
         job'.next \in {"none", "loop", "rekey"},
         job'.op = "setup" => job.op = "setup"
  PROVE  IInv'
<1>1. InHand' = InHand
  BY DEF InHand
<1>2. Numbered'
  BY <1>1 DEF IInv, Numbered
<1>3. Order'
  BY <1>1 DEF IInv, Order
<1>4. Stored'
  BY <1>1 DEF IInv, Stored
<1>5. Fresh'
  BY DEF IInv, Fresh
<1>6. Once'
  BY <1>1 DEF IInv, Once
<1>7. Held'
  BY <1>1 DEF IInv, Held
<1> QED
  BY <1>2, <1>3, <1>4, <1>5, <1>6, <1>7 DEF IInv

\* The fields of the idle operation.
LEMMA IdleIs ==
  /\ Idle.op = "none" /\ Idle.pc = "none" /\ Idle.next = "none"
  /\ Down.up = FALSE /\ Down.setKeyPool = {}
BY DEF Idle, Down

LEMMA SetDefaultKeyStep == IInv /\ SetDefaultKey => IInv'
<1> SUFFICES ASSUME IInv, SetDefaultKey PROVE IInv'
  OBVIOUS
<1>1. Shape'
  BY DEF IInv, Shape, SetDefaultKey, Idle
<1>2. mem.up
  BY DEF IInv, Order, SetDefaultKey
<1>3. /\ disk'.pool = disk.pool /\ disk'.ckey = disk.ckey /\ disk'.hdchain = disk.hdchain
      /\ disk'.mkey = disk.mkey
  BY DEF IInv, Shape, SetDefaultKey
<1> QED
  BY <1>1, <1>2, <1>3, IdleIs, QuietStep DEF SetDefaultKey

LEMMA BeginStep ==
  ASSUME NEW op, op # "setup", NEW target, IInv, Begin(op, target)
  PROVE  IInv'
<1>1. Shape'
  BY DEF IInv, Shape, Begin, Idle
<1>2. job'.pc \in {"loop", "take"} /\ job'.next = "none" /\ job'.op = op
  BY DEF Begin, Idle
<1>3. mem.up /\ job.pc # "erase"
  BY IdleIs DEF Begin
<1> QED
  BY <1>1, <1>2, <1>3, QuietStep DEF Begin

LEMMA RefilledStep == IInv /\ Refilled => IInv'
<1> SUFFICES ASSUME IInv, Refilled PROVE IInv'
  OBVIOUS
<1>1. Shape'
  BY DEF IInv, Shape, Refilled, Idle
<1>2. job'.pc \in {"none", "take"} /\ job'.next \in {"none", "loop", "rekey"} /\ (job'.op = "setup" => job.op = "setup")
  BY DEF IInv, Shape, Order, Refilled, Idle
<1>3. mem.up
  BY DEF IInv, Order, Refilled
<1> QED
  BY <1>1, <1>2, <1>3, QuietStep DEF Refilled

LEMMA WriteSeedStep == IInv /\ WriteSeed => IInv'
<1> SUFFICES ASSUME IInv, WriteSeed PROVE IInv'
  OBVIOUS
<1>1. Shape'
  BY DEF IInv, Shape, WriteSeed, Idle
<1>2. /\ job'.pc \in {"none", "loop", "rekey"} /\ job'.next \in {"none", "loop", "rekey"}
      /\ job'.op = "setup" => job.op = "setup"
  BY DEF IInv, Shape, Order, WriteSeed, Idle
<1>3. mem.up
  BY DEF IInv, Order, WriteSeed
<1>4. /\ disk'.pool = disk.pool /\ disk'.ckey = disk.ckey /\ disk'.hdchain = disk.hdchain
      /\ disk'.mkey = disk.mkey
  BY DEF IInv, Shape, WriteSeed
<1> QED
  BY <1>1, <1>2, <1>3, <1>4, QuietStep DEF WriteSeed

LEMMA WriteMasterKeyStep == IInv /\ WriteMasterKey => IInv'
<1> SUFFICES ASSUME IInv, WriteMasterKey PROVE IInv'
  OBVIOUS
<1>1. /\ disk'.pool = disk.pool /\ disk'.ckey = disk.ckey /\ disk'.hdchain = disk.hdchain
      /\ DOMAIN disk'.mkey = DOMAIN disk.mkey
  BY DEF IInv, Shape, WriteMasterKey
<1>2. Shape'
  BY DEF IInv, Shape, WriteMasterKey, Idle
<1>3. mem.up
  BY DEF IInv, Order, WriteMasterKey
<1>4. mem'.up = mem.up /\ mem'.keys = mem.keys /\ mem'.setKeyPool = mem.setKeyPool
  BY DEF IInv, Shape, WriteMasterKey
<1> QED
  BY <1>1, <1>2, <1>3, <1>4, IdleIs, QuietStep DEF WriteMasterKey

\* What Unlock leaves behind when it passes.
LEMMA OpenedIs ==
  ASSUME NEW m, NEW keys, NEW pool, NEW then, Shape, Opened(m, keys, pool, then),
         then = [op |-> then.op, pc |-> then.pc, next |-> then.next, target |-> then.target, index |-> then.index,
                 key |-> then.key, pass |-> then.pass, relock |-> then.relock],
         then.op \in {"none", "unlock", "change"}, then.pc \in {"none", "loop", "rekey"}, then.next = "none",
         res' = res
  PROVE  /\ Shape'
         /\ disk'.pool = disk.pool /\ disk'.ckey = disk.ckey /\ disk'.hdchain = disk.hdchain /\ disk'.mkey = disk.mkey
         /\ mem'.up /\ mem'.keys = keys /\ mem'.setKeyPool = pool
         /\ job'.pc \in {"none", "loop", "seed", "rekey"} /\ job'.next \in {"none", "loop", "rekey"}
         /\ job'.op # "setup"
<1>1. mem' = [up |-> TRUE, vMasterKey |-> m, checked |-> TRUE, keys |-> keys, setKeyPool |-> pool]
  BY DEF Opened
<1>2. CASE disk.seedhash = 0
  <2>1. /\ disk' = [disk EXCEPT !.seedhash = disk.hdchain.master]
        /\ job' = [then EXCEPT !.op = "unlock", !.pc = "seed", !.next = then.pc]
    BY <1>2 DEF Opened
  <2> QED
    BY <1>1, <2>1 DEF Shape
<1>3. CASE disk.seedhash # 0
  <2>1. disk' = disk /\ (job' = Idle \/ job' = then)
    BY <1>3 DEF Opened
  <2> QED
    BY <1>1, <2>1 DEF Shape, Idle
<1> QED
  BY <1>2, <1>3

LEMMA walletpassphraseStep ==
  ASSUME NEW p, IInv, walletpassphrase(p)
  PROVE  IInv'
<1>1. PICK m : Opened(m, mem.keys, mem.setKeyPool,
                     [Idle EXCEPT !.op = "unlock", !.pc = "loop", !.target = TargetSize])
  BY DEF walletpassphrase
<1>2. PICK then : then = [Idle EXCEPT !.op = "unlock", !.pc = "loop", !.target = TargetSize]
  OBVIOUS
<1>3. /\ then = [op |-> then.op, pc |-> then.pc, next |-> then.next, target |-> then.target, index |-> then.index,
                 key |-> then.key, pass |-> then.pass, relock |-> then.relock]
      /\ then.op = "unlock" /\ then.pc = "loop" /\ then.next = "none"
  BY <1>2 DEF Idle
<1>4. Opened(m, mem.keys, mem.setKeyPool, then)
  BY <1>1, <1>2
<1>5. Shape /\ res' = res /\ used' = used /\ clobbered' = clobbered /\ mem.up = TRUE /\ job.pc # "erase"
  BY IdleIs DEF walletpassphrase, IInv, Opened
<1> QED
  BY <1>3, <1>4, <1>5, OpenedIs, QuietStep

LEMMA ChangeWalletPassphraseStep ==
  ASSUME NEW old, NEW new, IInv, ChangeWalletPassphrase(old, new)
  PROVE  IInv'
<1>1. Shape /\ mem.up /\ job = Idle /\ res' = res /\ used' = used /\ clobbered' = clobbered
  BY DEF ChangeWalletPassphrase, IInv
<1>2. CASE mem' = [mem EXCEPT !.vMasterKey = 0] /\ disk' = disk /\ job' = job
  <2>1. Shape' /\ mem'.up = mem.up /\ mem'.keys = mem.keys /\ mem'.setKeyPool = mem.setKeyPool
    BY <1>1, <1>2 DEF Shape
  <2> QED
    BY <1>1, <1>2, <2>1, IdleIs, QuietStep
<1>3. ASSUME NEW m,
             Opened(m, mem.keys, mem.setKeyPool,
                    [Idle EXCEPT !.op = "change", !.pc = "rekey", !.index = m, !.pass = new, !.relock = Locked])
      PROVE  IInv'
  <2>1. PICK then : then = [Idle EXCEPT !.op = "change", !.pc = "rekey", !.index = m, !.pass = new, !.relock = Locked]
    OBVIOUS
  <2>2. /\ then = [op |-> then.op, pc |-> then.pc, next |-> then.next, target |-> then.target, index |-> then.index,
                   key |-> then.key, pass |-> then.pass, relock |-> then.relock]
        /\ then.op = "change" /\ then.pc = "rekey" /\ then.next = "none"
    BY <2>1 DEF Idle
  <2>3. Opened(m, mem.keys, mem.setKeyPool, then)
    BY <1>3, <2>1
  <2>4. mem.up = TRUE /\ mem'.up = TRUE
    BY <1>1, <2>3 DEF Opened
  <2>5. job.pc # "erase"
    BY <1>1, IdleIs
  <2>6. /\ Shape'
        /\ disk'.pool = disk.pool /\ disk'.ckey = disk.ckey /\ disk'.hdchain = disk.hdchain /\ disk'.mkey = disk.mkey
        /\ mem'.keys = mem.keys /\ mem'.setKeyPool = mem.setKeyPool
        /\ job'.pc \in {"none", "loop", "seed", "rekey"} /\ job'.next \in {"none", "loop", "rekey"}
        /\ job'.op # "setup"
    BY <1>1, <2>2, <2>3, OpenedIs
  <2> QED
    BY <1>1, <2>4, <2>5, <2>6, QuietStep
<1> QED
  BY <1>2, <1>3 DEF ChangeWalletPassphrase

LEMMA LockStep == IInv /\ Lock => IInv'
<1> SUFFICES ASSUME IInv, Lock PROVE IInv'
  OBVIOUS
<1>1. /\ mem'.up = mem.up /\ mem'.keys = mem.keys /\ mem'.setKeyPool = mem.setKeyPool
      /\ disk' = disk /\ job' = job /\ res' = res /\ used' = used /\ clobbered' = clobbered
      /\ InHand' = InHand
  BY DEF IInv, Shape, Lock, InHand
<1>2. Shape'
  BY DEF IInv, Shape, Lock
<1>3. Numbered'
  BY <1>1 DEF IInv, Numbered
<1>4. Order'
  BY <1>1 DEF IInv, Order
<1>5. Stored'
  BY <1>1 DEF IInv, Stored
<1>6. Fresh'
  BY <1>1 DEF IInv, Fresh, Order, Lock
<1>7. Once'
  BY <1>1 DEF IInv, Once
<1>8. Held'
  BY <1>1 DEF IInv, Held
<1> QED
  BY <1>2, <1>3, <1>4, <1>5, <1>6, <1>7, <1>8 DEF IInv

-----------------------------------------------------------------------------
(* Processes. *)

\* A start finds the database as the last process left it, and nobody has a key.
LEMMA StartIs ==
  ASSUME IInv, ~mem.up, Shape',
         disk'.pool = disk.pool, disk'.ckey = disk.ckey, disk'.hdchain = disk.hdchain, disk'.mkey = disk.mkey,
         mem'.up, mem'.keys = disk.ckey, mem'.setKeyPool = DOMAIN disk.pool,
         job'.pc \in {"none", "mkey", "loop", "seed", "rekey"}, job'.next \in {"none", "loop", "rekey"},
         job'.pc = "mkey" => job'.op = "setup",
         res' = res, used' = used, clobbered' = clobbered
  PROVE  IInv'
<1>1. InHand = {} /\ InHand' = {}
  BY DEF IInv, Order, InHand
<1>2. Numbered'
  BY <1>1 DEF IInv, Numbered
<1>3. Order'
  BY <1>1 DEF IInv, Order
<1>4. Stored'
  BY <1>1 DEF IInv, Stored
<1>5. Fresh'
  BY DEF IInv, Fresh
<1>6. Once'
  BY <1>1 DEF IInv, Once
<1>7. Held'
  BY <1>1 DEF IInv, Held
<1> QED
  BY <1>2, <1>3, <1>4, <1>5, <1>6, <1>7 DEF IInv

LEMMA StartNewStep == IInv /\ StartNew => IInv'
<1> SUFFICES ASSUME IInv, StartNew PROVE IInv'
  OBVIOUS
<1>1. job'.op = "setup" /\ job'.pc = "mkey" /\ job'.next = "none"
  BY DEF StartNew, Idle
<1>2. mem'.up /\ mem'.keys = disk.ckey /\ mem'.setKeyPool = DOMAIN disk.pool
  BY DEF StartNew, Down
<1>3. Shape'
  BY DEF IInv, Shape, StartNew, Idle, Down
<1> QED
  BY <1>1, <1>2, <1>3, StartIs DEF StartNew

LEMMA StartOldStep == IInv /\ StartOld => IInv'
<1> SUFFICES ASSUME IInv, StartOld PROVE IInv'
  OBVIOUS
<1>1. PICK m : Opened(m, disk.ckey, DOMAIN disk.pool, Idle)
  BY DEF StartOld
<1>2. PICK then : then = Idle
  OBVIOUS
<1>3. /\ then = [op |-> then.op, pc |-> then.pc, next |-> then.next, target |-> then.target, index |-> then.index,
                 key |-> then.key, pass |-> then.pass, relock |-> then.relock]
      /\ then.op = "none" /\ then.pc = "none" /\ then.next = "none"
  BY <1>2 DEF Idle
<1>4. Opened(m, disk.ckey, DOMAIN disk.pool, then)
  BY <1>1, <1>2
<1>5. Shape /\ ~mem.up /\ res' = res /\ used' = used /\ clobbered' = clobbered
  BY DEF StartOld, IInv
<1>6. /\ Shape'
      /\ disk'.pool = disk.pool /\ disk'.ckey = disk.ckey /\ disk'.hdchain = disk.hdchain /\ disk'.mkey = disk.mkey
      /\ mem'.up /\ mem'.keys = disk.ckey /\ mem'.setKeyPool = DOMAIN disk.pool
      /\ job'.pc \in {"none", "loop", "seed", "rekey"} /\ job'.next \in {"none", "loop", "rekey"}
  BY <1>3, <1>4, <1>5, OpenedIs
<1> QED
  BY <1>5, <1>6, StartIs

\* The end of a process leaves the database and the keys that were kept.
LEMMA EndStep ==
  ASSUME IInv, mem' = Down, job' = Idle, res' = [c \in Client |-> NoRes], clobbered' = FALSE,
         disk' = disk, used' = used
  PROVE  IInv'
<1>1. InHand' = {}
  BY DEF InHand
<1>2. Shape'
  BY DEF IInv, Shape, Down, Idle, NoRes
<1>3. Numbered'
  BY <1>1, IdleIs DEF IInv, Numbered, Indexes
<1>4. Order'
  BY <1>1, IdleIs DEF Order
<1>5. Stored'
  BY <1>1, IdleIs DEF IInv, Stored
<1>6. Fresh'
  BY IdleIs DEF IInv, Fresh
<1>7. Once'
  BY <1>1, IdleIs DEF IInv, Once
<1>8. Held'
  BY <1>1, IdleIs DEF Held
<1> QED
  BY <1>2, <1>3, <1>4, <1>5, <1>6, <1>7, <1>8 DEF IInv

-----------------------------------------------------------------------------
(* The first run. *)

LEMMA SetupMasterKeyStep == IInv /\ SetupMasterKey => IInv'
<1> SUFFICES ASSUME IInv, SetupMasterKey PROVE IInv'
  OBVIOUS
<1> DEFINE m == Max({0} \cup DOMAIN disk.mkey) + 1
<1>1. /\ m \in 1..MaxMaster /\ job.pc = "mkey"
      /\ disk' = [disk EXCEPT !.mkey = Put(@, m, Builtin)]
      /\ mem' = [mem EXCEPT !.vMasterKey = m]
      /\ job' = [job EXCEPT !.pc = "hdkey"]
      /\ res' = res /\ used' = used /\ clobbered' = clobbered
  BY DEF SetupMasterKey, Master
<1>2. m \notin DOMAIN disk.mkey
  <2>1. DOMAIN disk.mkey \subseteq Nat \ {0} /\ \A i \in DOMAIN disk.mkey : i <= MaxMaster
    BY DEF IInv, Fresh
  <2>2. Indexes(DOMAIN disk.mkey)
    BY <2>1, WalletAssumption DEF Indexes
  <2> QED
    BY <2>2, NextIndex
<1> HIDE DEF m
<1>3. /\ disk'.mkey = Put(disk.mkey, m, Builtin) /\ disk'.ckey = disk.ckey /\ disk'.hdchain = disk.hdchain
      /\ disk'.pool = disk.pool
      /\ mem'.up = mem.up /\ mem'.keys = mem.keys /\ mem'.setKeyPool = mem.setKeyPool /\ mem'.vMasterKey = m
      /\ job'.pc = "hdkey" /\ job'.op = job.op /\ job'.next = job.next
  BY <1>1 DEF IInv, Shape
<1>4. Shape'
  BY <1>1 DEF IInv, Shape
<1>5. DOMAIN disk'.mkey = DOMAIN disk.mkey \cup {m}
  BY <1>3 DEF Put
<1>6. InHand' = InHand
  BY <1>1 DEF InHand
<1>7. Numbered'
  BY <1>1, <1>3, <1>6 DEF IInv, Numbered
<1>8. Order'
  BY <1>1, <1>3, <1>6 DEF IInv, Order
<1>9. Stored'
  BY <1>1, <1>3, <1>6 DEF IInv, Stored
<1>10. Fresh'
  BY <1>1, <1>2, <1>3, <1>5, WalletAssumption DEF IInv, Fresh
<1>11. Once'
  BY <1>1, <1>3, <1>6 DEF IInv, Once
<1>12. Held'
  BY <1>1, <1>3, <1>6 DEF IInv, Held
<1> QED
  BY <1>4, <1>7, <1>8, <1>9, <1>10, <1>11, <1>12 DEF IInv

LEMMA GenerateNewHDMasterKeyStep == IInv /\ GenerateNewHDMasterKey => IInv'
<1> SUFFICES ASSUME IInv, GenerateNewHDMasterKey PROVE IInv'
  OBVIOUS
<1> DEFINE k == <<mem.vMasterKey, 0>>
<1>1. /\ disk' = [disk EXCEPT !.ckey = Put(@, k, mem.vMasterKey)]
      /\ mem' = [mem EXCEPT !.keys = Put(@, k, mem.vMasterKey)]
      /\ job' = [job EXCEPT !.pc = "hdchain"]
      /\ job.pc = "hdkey" /\ res' = res /\ used' = used /\ clobbered' = clobbered
  BY DEF GenerateNewHDMasterKey
<1>2. /\ disk'.mkey = disk.mkey /\ disk'.hdchain = disk.hdchain /\ disk'.pool = disk.pool
      /\ disk'.ckey = Put(disk.ckey, k, mem.vMasterKey)
      /\ mem'.up = mem.up /\ mem'.setKeyPool = mem.setKeyPool /\ mem'.vMasterKey = mem.vMasterKey
      /\ mem'.keys = Put(mem.keys, k, mem.vMasterKey)
      /\ job'.pc = "hdchain" /\ job'.op = job.op /\ job'.next = job.next
  BY <1>1 DEF IInv, Shape
<1>3. Shape'
  BY <1>1 DEF IInv, Shape
<1>4. DOMAIN disk'.ckey = DOMAIN disk.ckey \cup {k} /\ DOMAIN mem'.keys = DOMAIN mem.keys \cup {k}
  BY <1>2 DEF Put
<1>5. InHand' = InHand
  BY <1>1 DEF InHand
<1>6. Numbered'
  BY <1>1, <1>2, <1>5 DEF IInv, Numbered
<1>7. Order'
  BY <1>1, <1>2, <1>5 DEF IInv, Order
<1>8. Stored'
  BY <1>1, <1>2, <1>4, <1>5 DEF IInv, Stored
<1>9. Fresh'
  BY <1>1, <1>2, <1>4 DEF IInv, Fresh, Shape
<1>10. Once'
  BY <1>1, <1>2, <1>5 DEF IInv, Once
<1>11. Held'
  BY <1>1, <1>2, <1>5 DEF IInv, Held
<1> QED
  BY <1>3, <1>6, <1>7, <1>8, <1>9, <1>10, <1>11 DEF IInv

LEMMA SetHDMasterKeyStep == IInv /\ SetHDMasterKey => IInv'
<1> SUFFICES ASSUME IInv, SetHDMasterKey PROVE IInv'
  OBVIOUS
<1>1. /\ job.pc = "hdchain" /\ mem' = mem /\ res' = res /\ used' = used /\ clobbered' = clobbered
      /\ job'.pc = "erase" /\ job'.op = job.op /\ job'.next = job.next
      /\ disk'.mkey = disk.mkey /\ disk'.ckey = disk.ckey /\ disk'.pool = disk.pool
      /\ disk'.hdchain = [master |-> mem.vMasterKey, counter |-> 0]
  BY DEF SetHDMasterKey, IInv, Shape
<1>2. mem.vMasterKey \in Nat
  BY <1>1 DEF IInv, Fresh
<1>3. Shape'
  BY <1>1, <1>2 DEF SetHDMasterKey, IInv, Shape
<1>4. InHand' = InHand
  BY <1>1 DEF InHand
<1>5. Numbered'
  BY <1>1, <1>4 DEF IInv, Numbered
<1>6. Order'
  BY <1>1, <1>4 DEF IInv, Order
<1>7. Stored'
  BY <1>1, <1>4 DEF IInv, Stored
<1>8. Fresh'
  BY <1>1 DEF IInv, Fresh
<1>9. Once'
  BY <1>1, <1>4 DEF IInv, Once
<1>10. Held'
  BY <1>1, <1>4 DEF IInv, Held
<1> QED
  BY <1>3, <1>5, <1>6, <1>7, <1>8, <1>9, <1>10 DEF IInv

\* Erasing a record of the pool that nobody relies on.
LEMMA PoolShrinks ==
  ASSUME IInv, NEW i, disk'.pool = Drop(disk.pool, i)
  PROVE  /\ DOMAIN disk'.pool = DOMAIN disk.pool \ {i}
         /\ \A j \in DOMAIN disk.pool \ {i} : disk'.pool[j] = disk.pool[j]
         /\ Indexes(DOMAIN disk'.pool)
<1>1. DOMAIN disk'.pool = DOMAIN disk.pool \ {i}
  BY DEF Drop
<1>2. \A j \in DOMAIN disk.pool \ {i} : disk'.pool[j] = disk.pool[j]
  BY DEF Drop
<1>3. Indexes(DOMAIN disk'.pool)
  BY <1>1, IndexesSubset DEF IInv, Numbered
<1> QED
  BY <1>1, <1>2, <1>3

LEMMA NewKeyPoolStep == IInv /\ NewKeyPool => IInv'
<1> SUFFICES ASSUME IInv, NewKeyPool PROVE IInv'
  OBVIOUS
<1> DEFINE left == mem.setKeyPool \cap DOMAIN disk.pool
<1>1. job.pc = "erase" /\ res' = res /\ used' = used /\ clobbered' = clobbered
  BY DEF NewKeyPool
<1>2. InHand = {} /\ InHand' = {} /\ mem.up
  BY <1>1 DEF IInv, Order, InHand
<1>3. CASE left # {}
  <2>1. disk' = [disk EXCEPT !.pool = Drop(@, Min(left))] /\ mem' = mem /\ job' = job
    BY <1>3 DEF NewKeyPool
  <2>2. /\ disk'.mkey = disk.mkey /\ disk'.ckey = disk.ckey /\ disk'.hdchain = disk.hdchain
        /\ disk'.pool = Drop(disk.pool, Min(left)) /\ Shape'
    BY <1>1, <2>1 DEF IInv, Shape
  <2>3. /\ DOMAIN disk'.pool = DOMAIN disk.pool \ {Min(left)}
        /\ \A j \in DOMAIN disk.pool \ {Min(left)} : disk'.pool[j] = disk.pool[j]
        /\ Indexes(DOMAIN disk'.pool)
    BY <2>2, PoolShrinks
  <2> HIDE DEF left
  <2>4. Numbered'
    BY <1>2, <2>1, <2>3 DEF IInv, Numbered
  <2>5. Order'
    BY <1>1, <1>2, <2>1 DEF IInv, Order
  <2>6. Stored'
    BY <1>1, <1>2, <2>1, <2>2, <2>3 DEF IInv, Stored
  <2>7. Fresh'
    BY <1>1, <2>1, <2>2 DEF IInv, Fresh
  <2>8. Once'
    BY <1>1, <1>2, <2>1, <2>2, <2>3 DEF IInv, Once
  <2>9. Held'
    BY <1>1, <1>2, <2>1 DEF IInv, Held
  <2> QED
    BY <2>2, <2>4, <2>5, <2>6, <2>7, <2>8, <2>9 DEF IInv
<1>4. CASE left = {}
  <2>1. /\ disk' = disk /\ mem' = [mem EXCEPT !.setKeyPool = {}]
        /\ job' = [job EXCEPT !.pc = "loop", !.target = TargetSize]
    BY <1>4 DEF NewKeyPool
  <2>2. /\ mem'.up = mem.up /\ mem'.keys = mem.keys /\ mem'.setKeyPool = {}
        /\ job'.pc = "loop" /\ job'.next = job.next /\ job'.op = job.op /\ Shape'
    BY <1>1, <2>1 DEF IInv, Shape
  <2>3. Numbered'
    BY <1>2, <2>1, <2>2 DEF IInv, Numbered, Indexes
  <2>4. Order'
    BY <1>1, <1>2, <2>2 DEF IInv, Order
  <2>5. Stored'
    BY <1>1, <1>2, <2>1, <2>2 DEF IInv, Stored
  <2>6. Fresh'
    BY <2>1, <2>2 DEF IInv, Fresh
  <2>7. Once'
    BY <1>1, <1>2, <2>1, <2>2 DEF IInv, Once
  <2>8. Held'
    BY <1>1, <1>2, <2>2 DEF IInv, Held
  <2> QED
    BY <2>2, <2>3, <2>4, <2>5, <2>6, <2>7, <2>8 DEF IInv
<1> QED
  BY <1>3, <1>4

-----------------------------------------------------------------------------
(* Filling the pool. *)

LEMMA DeriveStep == IInv /\ Derive => IInv'
<1> SUFFICES ASSUME IInv, Derive PROVE IInv'
  OBVIOUS
<1> DEFINE m == disk.hdchain.master
           ctr == disk.hdchain.counter
           S == {i \in ctr + 1 .. MaxKeys + 1 : <<m, i>> \notin DOMAIN mem.keys}
<1>1. /\ job.pc = "loop" /\ ctr < MaxKeys /\ m \in Nat /\ ctr \in Nat /\ mem.up
      /\ mem' = mem /\ res' = res /\ used' = used /\ clobbered' = clobbered /\ InHand' = InHand
  BY DEF Derive, IInv, Shape, Order, InHand
<1>2. DOMAIN mem.keys = DOMAIN disk.ckey
  BY <1>1 DEF IInv, Stored
<1>3. CASE ~Decrypts(<<m, 0>>)
  <2>1. job' = Idle /\ disk' = disk
    BY <1>3 DEF Derive
  <2>2. Shape'
    BY <1>1, <2>1 DEF IInv, Shape, Idle
  <2> QED
    BY <1>1, <2>1, <2>2, IdleIs, QuietStep
<1>4. CASE Decrypts(<<m, 0>>)
  <2>1. ctr + 1 \in S /\ S \subseteq Nat
    BY <1>1, <1>2, WalletAssumption DEF IInv, Fresh
  <2>2. PICK n : n = Min(S)
    OBVIOUS
  <2>3. n \in Nat /\ n >= ctr + 1 /\ <<m, n>> \notin DOMAIN disk.ckey
    <3>1. n \in S
      BY <2>1, <2>2, MinIn
    <3> QED
      BY <3>1, <2>1, <1>1, <1>2
  <2>4. disk' = [disk EXCEPT !.hdchain.counter = n] /\ job' = [job EXCEPT !.pc = "add", !.key = <<m, n>>]
    BY <1>4, <2>2 DEF Derive
  <2>5. m \in DOMAIN disk.mkey
    BY <1>1, <1>2, <1>4 DEF Decrypts, IInv, Fresh
  <2>6. /\ disk'.mkey = disk.mkey /\ disk'.ckey = disk.ckey /\ disk'.pool = disk.pool
        /\ disk'.hdchain.master = m /\ disk'.hdchain.counter = n
        /\ job'.pc = "add" /\ job'.key = <<m, n>> /\ job'.op = job.op /\ job'.next = job.next
    BY <2>4 DEF IInv, Shape
  <2>7. Shape'
    BY <1>1, <2>3, <2>4 DEF IInv, Shape
  <2>8. Numbered'
    BY <1>1, <2>6 DEF IInv, Numbered
  <2>9. Order'
    BY <1>1, <2>6 DEF IInv, Order
  <2>10. Stored'
    BY <1>1, <2>6 DEF IInv, Stored
  <2>11. Fresh'
    <3>1. \A k \in Nat : k > n => <<m, k>> \notin DOMAIN disk.ckey
      BY <1>1, <2>3 DEF IInv, Fresh
    <3> QED
      BY <1>1, <2>3, <2>5, <2>6, <3>1 DEF IInv, Fresh
  <2>12. Once'
    BY <1>1, <2>6 DEF IInv, Once
  <2>13. Held'
    BY <1>1, <2>6 DEF IInv, Held
  <2> QED
    BY <2>7, <2>8, <2>9, <2>10, <2>11, <2>12, <2>13 DEF IInv
<1> QED
  BY <1>3, <1>4

LEMMA AddKeyStep == IInv /\ AddKey => IInv'
<1> SUFFICES ASSUME IInv, AddKey PROVE IInv'
  OBVIOUS
<1>1. job.pc = "add" /\ mem.up /\ res' = res /\ used' = used /\ clobbered' = clobbered /\ InHand' = InHand
  BY DEF AddKey, IInv, Order, InHand
<1>2. CASE Locked
  <2>1. job' = Idle /\ disk' = disk /\ mem' = mem
    BY <1>2 DEF AddKey
  <2>2. Shape'
    BY <1>1, <2>1 DEF IInv, Shape, Idle
  <2> QED
    BY <1>1, <2>1, <2>2, IdleIs, QuietStep
<1>3. CASE ~Locked
  <2>1. /\ disk' = [disk EXCEPT !.ckey = Put(@, job.key, mem.vMasterKey)]
        /\ mem' = [mem EXCEPT !.keys = Put(@, job.key, mem.vMasterKey)]
        /\ job' = [job EXCEPT !.pc = "pool"]
    BY <1>3 DEF AddKey
  <2>2. /\ disk'.mkey = disk.mkey /\ disk'.hdchain = disk.hdchain /\ disk'.pool = disk.pool
        /\ disk'.ckey = Put(disk.ckey, job.key, mem.vMasterKey)
        /\ mem'.up = mem.up /\ mem'.setKeyPool = mem.setKeyPool
        /\ mem'.keys = Put(mem.keys, job.key, mem.vMasterKey)
        /\ job'.pc = "pool" /\ job'.key = job.key /\ job'.op = job.op /\ job'.next = job.next
    BY <2>1 DEF IInv, Shape
  <2>3. Shape'
    BY <1>1, <2>1 DEF IInv, Shape
  <2>4. /\ DOMAIN disk'.ckey = DOMAIN disk.ckey \cup {job.key}
        /\ DOMAIN mem'.keys = DOMAIN mem.keys \cup {job.key}
    BY <2>2 DEF Put
  <2>5. /\ job.key = <<disk.hdchain.master, disk.hdchain.counter>> /\ job.key \notin DOMAIN disk.ckey
        /\ disk.hdchain.master \in DOMAIN disk.mkey
    BY <1>1 DEF IInv, Fresh
  <2>6. Numbered'
    BY <1>1, <2>2 DEF IInv, Numbered
  <2>7. Order'
    BY <1>1, <2>2 DEF IInv, Order
  <2>8. Stored'
    BY <1>1, <2>2, <2>4 DEF IInv, Stored
  <2>9. Fresh'
    BY <2>2, <2>4, <2>5 DEF IInv, Shape, Fresh
  <2>10. Once'
    BY <1>1, <2>2, <2>5 DEF IInv, Stored, Once
  <2>11. Held'
    BY <1>1, <2>2 DEF IInv, Held
  <2> QED
    BY <2>3, <2>6, <2>7, <2>8, <2>9, <2>10, <2>11 DEF IInv
<1> QED
  BY <1>2, <1>3

LEMMA WritePoolStep == IInv /\ WritePool => IInv'
<1> SUFFICES ASSUME IInv, WritePool PROVE IInv'
  OBVIOUS
<1>1. PICK i : i = Max({0} \cup mem.setKeyPool) + 1
  OBVIOUS
<1>2. i \in Nat \ {0} /\ i \notin mem.setKeyPool /\ Indexes(mem.setKeyPool \cup {i})
  BY <1>1, NextIndex DEF IInv, Numbered
<1>3. /\ job.pc = "pool" /\ res' = res /\ used' = used /\ InHand' = InHand
      /\ disk' = [disk EXCEPT !.pool = Put(@, i, job.key)]
      /\ mem' = [mem EXCEPT !.setKeyPool = @ \cup {i}]
      /\ job' = [job EXCEPT !.pc = "loop", !.key = NoKey]
      /\ clobbered' = (clobbered \/ \E c \in Client : res[c].index = i)
  BY <1>1 DEF WritePool, InHand
<1>4. /\ disk'.mkey = disk.mkey /\ disk'.ckey = disk.ckey /\ disk'.hdchain = disk.hdchain
      /\ disk'.pool = Put(disk.pool, i, job.key)
      /\ mem'.up = mem.up /\ mem'.keys = mem.keys /\ mem'.setKeyPool = mem.setKeyPool \cup {i}
      /\ job'.pc = "loop" /\ job'.op = job.op /\ job'.next = job.next
  BY <1>3 DEF IInv, Shape
<1>5. Shape'
  BY <1>3 DEF IInv, Shape
<1>6. /\ DOMAIN disk'.pool = DOMAIN disk.pool \cup {i} /\ disk'.pool[i] = job.key
      /\ \A j \in DOMAIN disk.pool : j # i => disk'.pool[j] = disk.pool[j]
  BY <1>4 DEF Put
<1>7. Indexes(DOMAIN disk.pool \cup {i})
  BY <1>2, IndexesAdd DEF IInv, Numbered
<1>8. Numbered'
  BY <1>2, <1>3, <1>4, <1>6, <1>7 DEF IInv, Numbered
<1>9. Order'
  BY <1>3, <1>4 DEF IInv, Order
<1>10. Stored'
  BY <1>3, <1>4, <1>6 DEF IInv, Stored
<1>11. Fresh'
  BY <1>4 DEF IInv, Fresh
<1>12. Once'
  BY <1>3, <1>4, <1>6 DEF IInv, Once
<1>13. Held'
  <2> SUFFICES ASSUME ~clobbered' PROVE Held'
    BY DEF Held
  <2>1. ~clobbered /\ \A c \in Client : res[c].index # i
    BY <1>3
  <2>2. \A c \in InHand : res[c].index # i
    BY <2>1 DEF InHand
  <2> QED
    BY <1>3, <1>4, <1>6, <2>1, <2>2 DEF IInv, Held
<1> QED
  BY <1>5, <1>8, <1>9, <1>10, <1>11, <1>12, <1>13 DEF IInv

-----------------------------------------------------------------------------
(* Taking keys out of it. *)

LEMMA TakeStep == IInv /\ Take => IInv'
<1> SUFFICES ASSUME IInv, Take PROVE IInv'
  OBVIOUS
<1>1. job.pc = "take" /\ disk' = disk /\ used' = used /\ clobbered' = clobbered /\ mem.up
  BY DEF Take, IInv, Order
<1>2. PICK i : i = Min(mem.setKeyPool)
  OBVIOUS
<1>3. CASE job' = Idle /\ mem' = mem /\ res' = res
  <2>1. Shape'
    BY <1>1, <1>3 DEF IInv, Shape, Idle
  <2> QED
    BY <1>1, <1>3, <2>1, IdleIs, QuietStep
<1>4. CASE /\ mem.setKeyPool # {} /\ mem' = [mem EXCEPT !.setKeyPool = @ \ {i}]
           /\ \/ /\ job.op \in Client /\ Readable(i) /\ job' = Idle
                 /\ res' = [res EXCEPT ![job.op] = [index |-> i, key |-> disk.pool[i]]]
              \/ /\ Readable(i) /\ job' = [job EXCEPT !.pc = "keep", !.index = i, !.key = disk.pool[i]]
                 /\ res' = res
              \/ job' = Idle /\ res' = res
  <2>1. i \in mem.setKeyPool /\ i \in Nat \ {0}
    BY <1>2, <1>4, MinIn DEF IInv, Numbered, Indexes
  <2>2. mem'.up = mem.up /\ mem'.keys = mem.keys /\ mem'.setKeyPool = mem.setKeyPool \ {i}
    BY <1>4 DEF IInv, Shape
  <2>3. Indexes(mem'.setKeyPool)
    BY <2>2, IndexesSubset DEF IInv, Numbered
  <2>4. Readable(i) => i \in DOMAIN disk.pool /\ disk.pool[i] \in DOMAIN disk.ckey
    BY <1>1 DEF Readable, IInv, Stored
  <2>5. CASE /\ job.op \in Client /\ Readable(i) /\ job' = Idle
             /\ res' = [res EXCEPT ![job.op] = [index |-> i, key |-> disk.pool[i]]]
    <3>1. PICK c \in Client : c = job.op
      BY <2>5
    <3>2. /\ res'[c].index = i /\ res'[c].key = disk.pool[i]
          /\ \A d \in Client : d # c => res'[d] = res[d]
      BY <2>5, <3>1 DEF IInv, Shape
    <3>3. Shape'
      BY <1>1, <1>4, <2>5, <3>1 DEF IInv, Shape, Idle
    <3>4. InHand' = InHand \cup {c}
      BY <2>1, <3>2 DEF InHand, NoRes
    <3>5. \A d \in InHand' : d # c => d \in InHand /\ res'[d] = res[d]
      BY <3>2, <3>4 DEF InHand
    <3>6. Numbered'
      BY <1>1, <2>1, <2>3, <3>2, <3>4, <3>5 DEF IInv, Numbered
    <3>7. Order'
      BY <1>1, <2>2, <2>5, IdleIs DEF Order
    <3>8. Stored'
      BY <1>1, <2>2, <2>4, <2>5, <3>2, <3>4, <3>5, IdleIs DEF IInv, Stored
    <3>9. Fresh'
      BY <1>1, <2>5, IdleIs DEF IInv, Fresh
    <3>10. Once'
      BY <1>1, <2>4, <2>5, <3>2, <3>4, <3>5, IdleIs DEF IInv, Once
    <3>11. Held'
      BY <1>1, <2>1, <2>2, <2>4, <2>5, <3>2, <3>4, <3>5, IdleIs DEF IInv, Held
    <3> QED
      BY <3>3, <3>6, <3>7, <3>8, <3>9, <3>10, <3>11 DEF IInv
  <2>6. CASE /\ Readable(i) /\ job' = [job EXCEPT !.pc = "keep", !.index = i, !.key = disk.pool[i]]
             /\ res' = res
    <3>1. Shape' /\ InHand' = InHand
      BY <1>1, <1>4, <2>6 DEF IInv, Shape, InHand
    <3>2. job'.pc = "keep" /\ job'.index = i /\ job'.key = disk.pool[i] /\ job'.op = job.op /\ job'.next = job.next
      BY <2>6 DEF IInv, Shape
    <3>3. Numbered'
      BY <1>1, <2>3, <2>6, <3>1 DEF IInv, Numbered
    <3>4. Order'
      BY <1>1, <2>2, <3>1, <3>2 DEF IInv, Order
    <3>5. Stored'
      BY <1>1, <2>2, <2>4, <2>6, <3>1, <3>2 DEF IInv, Stored
    <3>6. Fresh'
      BY <1>1, <3>2 DEF IInv, Fresh
    <3>7. Once'
      BY <1>1, <2>4, <2>6, <3>1, <3>2 DEF IInv, Once
    <3>8. Held'
      BY <1>1, <2>1, <2>2, <2>4, <2>6, <3>1, <3>2 DEF IInv, Held
    <3> QED
      BY <3>1, <3>3, <3>4, <3>5, <3>6, <3>7, <3>8 DEF IInv
  <2>7. CASE job' = Idle /\ res' = res
    <3>1. Shape' /\ InHand' = InHand
      BY <1>1, <1>4, <2>7 DEF IInv, Shape, InHand, Idle
    <3>2. Numbered'
      BY <1>1, <2>3, <2>7, <3>1 DEF IInv, Numbered
    <3>3. Order'
      BY <1>1, <2>2, <2>7, <3>1, IdleIs DEF IInv, Order
    <3>4. Stored'
      BY <1>1, <2>2, <2>7, <3>1, IdleIs DEF IInv, Stored
    <3>5. Fresh'
      BY <1>1, <2>7, IdleIs DEF IInv, Fresh
    <3>6. Once'
      BY <1>1, <2>7, <3>1, IdleIs DEF IInv, Once
    <3>7. Held'
      BY <1>1, <2>2, <2>7, <3>1, IdleIs DEF IInv, Held
    <3> QED
      BY <3>1, <3>2, <3>3, <3>4, <3>5, <3>6, <3>7 DEF IInv
  <2> QED
    BY <1>4, <2>5, <2>6, <2>7
<1>5. CASE mem.setKeyPool = {}
  BY <1>3, <1>5 DEF Take
<1>6. CASE mem.setKeyPool # {} /\ job.op \in Client
  BY <1>2, <1>3, <1>4, <1>6 DEF Take
<1>7. CASE mem.setKeyPool # {} /\ job.op \notin Client
  BY <1>2, <1>3, <1>4, <1>7 DEF Take
<1> QED
  BY <1>5, <1>6, <1>7

LEMMA KeepTakenStep == IInv /\ KeepTaken => IInv'
<1> SUFFICES ASSUME IInv, KeepTaken PROVE IInv'
  OBVIOUS
<1>1. /\ job.pc = "keep" /\ mem' = mem /\ res' = res /\ clobbered' = clobbered /\ InHand' = InHand /\ mem.up
      /\ used' = used \cup {job.key} /\ disk' = [disk EXCEPT !.pool = Drop(@, job.index)]
  BY DEF KeepTaken, Keep, InHand, IInv, Order
<1>2. /\ job' = Idle \/ (job.op = "setup" /\ job' = [job EXCEPT !.pc = "default"])
  BY DEF KeepTaken
<1>3. /\ disk'.mkey = disk.mkey /\ disk'.ckey = disk.ckey /\ disk'.hdchain = disk.hdchain
      /\ disk'.pool = Drop(disk.pool, job.index)
  BY <1>1 DEF IInv, Shape
<1>4. /\ DOMAIN disk'.pool = DOMAIN disk.pool \ {job.index}
      /\ \A j \in DOMAIN disk.pool \ {job.index} : disk'.pool[j] = disk.pool[j]
      /\ Indexes(DOMAIN disk'.pool)
  BY <1>3, PoolShrinks
<1>5. /\ job'.pc \in {"none", "default"} /\ job'.next \in {"none", "loop", "rekey"}
      /\ job'.op = "setup" => job.op = "setup"
      /\ job'.pc = "default" => job'.op = "setup"
  BY <1>2 DEF IInv, Shape, Order, Idle
<1>6. Shape'
  BY <1>1, <1>2 DEF IInv, Shape, Idle
<1>7. Numbered'
  BY <1>1, <1>4 DEF IInv, Numbered
<1>8. Order'
  BY <1>1, <1>5 DEF IInv, Order
<1>9. Stored'
  BY <1>1, <1>3, <1>4, <1>5 DEF IInv, Stored
<1>10. Fresh'
  BY <1>1, <1>3, <1>5 DEF IInv, Fresh
<1>11. Once'
  BY <1>1, <1>4, <1>5 DEF IInv, Once
<1>12. Held'
  BY <1>1, <1>4, <1>5 DEF IInv, Held
<1> QED
  BY <1>6, <1>7, <1>8, <1>9, <1>10, <1>11, <1>12 DEF IInv

LEMMA KeepKeyStep ==
  ASSUME NEW c \in Client, IInv, KeepKey(c)
  PROVE  IInv'
<1>1. /\ c \in InHand /\ mem' = mem /\ job' = job /\ clobbered' = clobbered
      /\ used' = used \cup {res[c].key} /\ disk' = [disk EXCEPT !.pool = Drop(@, res[c].index)]
      /\ res' = [res EXCEPT ![c] = NoRes]
  BY DEF KeepKey, Keep, InHand
<1>2. mem.up /\ job.op # "setup"
  BY <1>1 DEF IInv, Order
<1>3. InHand' = InHand \ {c} /\ \A d \in InHand' : res'[d] = res[d]
  BY <1>1 DEF InHand, IInv, Shape
<1>4. /\ disk'.mkey = disk.mkey /\ disk'.ckey = disk.ckey /\ disk'.hdchain = disk.hdchain
      /\ disk'.pool = Drop(disk.pool, res[c].index)
  BY <1>1 DEF IInv, Shape
<1>5. /\ DOMAIN disk'.pool = DOMAIN disk.pool \ {res[c].index}
      /\ \A j \in DOMAIN disk.pool \ {res[c].index} : disk'.pool[j] = disk.pool[j]
      /\ Indexes(DOMAIN disk'.pool)
  BY <1>4, PoolShrinks
<1>6. Shape'
  BY <1>1 DEF IInv, Shape, NoRes
<1>7. Numbered'
  BY <1>1, <1>3, <1>5 DEF IInv, Numbered
<1>8. Order'
  BY <1>1, <1>2, <1>3 DEF IInv, Order
<1>9. Stored'
  BY <1>1, <1>3, <1>4, <1>5 DEF IInv, Stored
<1>10. Fresh'
  BY <1>1, <1>4 DEF IInv, Fresh
<1>11. Once'
  BY <1>1, <1>3, <1>5 DEF IInv, Once
<1>12. Held'
  BY <1>1, <1>2, <1>3, <1>5 DEF IInv, Held, Order
<1> QED
  BY <1>6, <1>7, <1>8, <1>9, <1>10, <1>11, <1>12 DEF IInv

LEMMA ReturnKeyStep ==
  ASSUME NEW c \in Client, IInv, ReturnKey(c)
  PROVE  IInv'
<1>1. /\ c \in InHand /\ job = Idle /\ job' = job /\ disk' = disk /\ used' = used /\ clobbered' = clobbered
      /\ mem' = [mem EXCEPT !.setKeyPool = @ \cup {res[c].index}]
      /\ res' = [res EXCEPT ![c] = NoRes]
  BY DEF ReturnKey, InHand
<1>2. mem.up
  BY <1>1 DEF IInv, Order
<1>3. InHand' = InHand \ {c} /\ \A d \in InHand' : res'[d] = res[d]
  BY <1>1 DEF InHand, IInv, Shape
<1>4. mem'.up = mem.up /\ mem'.keys = mem.keys /\ mem'.setKeyPool = mem.setKeyPool \cup {res[c].index}
  BY <1>1 DEF IInv, Shape
<1>5. Indexes(mem'.setKeyPool)
  BY <1>1, <1>4, IndexesAdd DEF IInv, Numbered
<1>6. Shape'
  BY <1>1 DEF IInv, Shape, NoRes
<1>7. Numbered'
  BY <1>1, <1>3, <1>5 DEF IInv, Numbered
<1>8. Order'
  BY <1>1, <1>2, <1>3, <1>4, IdleIs DEF IInv, Order
<1>9. Stored'
  BY <1>1, <1>3, <1>4 DEF IInv, Stored
<1>10. Fresh'
  BY <1>1, IdleIs DEF IInv, Fresh
<1>11. Once'
  BY <1>1, <1>3 DEF IInv, Once
<1>12. Held'
  BY <1>1, <1>3, <1>4, IdleIs DEF IInv, Held
<1> QED
  BY <1>6, <1>7, <1>8, <1>9, <1>10, <1>11, <1>12 DEF IInv

-----------------------------------------------------------------------------
(* The pool. *)

LEMMA InitIInv == Init => IInv
<1> SUFFICES ASSUME Init PROVE IInv
  OBVIOUS
<1>1. InHand = {}
  BY DEF Init, InHand
<1>2. Shape
  BY DEF Init, Shape, Down, Idle, NoRes
<1>3. /\ DOMAIN disk.pool = {} /\ DOMAIN disk.ckey = {} /\ DOMAIN disk.mkey = {} /\ used = {}
      /\ mem.setKeyPool = {} /\ job = Idle /\ job.pc = "none" /\ job.next = "none" /\ job.op = "none"
      /\ ~mem.up
  BY IdleIs DEF Init
<1>4. Numbered
  BY <1>1, <1>3 DEF Numbered, Indexes
<1>5. Order
  BY <1>1, <1>3 DEF Order
<1>6. Stored
  BY <1>1, <1>3 DEF Stored
<1>7. Fresh
  BY <1>3 DEF Fresh
<1>8. Once
  BY <1>1, <1>3 DEF Once
<1>9. Held
  BY <1>1, <1>3 DEF Held
<1> QED
  BY <1>2, <1>4, <1>5, <1>6, <1>7, <1>8, <1>9 DEF IInv

LEMMA NextIInv == IInv /\ [Next]_vars => IInv'
<1> SUFFICES ASSUME IInv, [Next]_vars PROVE IInv'
  OBVIOUS
<1>1. CASE StartNew
  BY <1>1, StartNewStep
<1>2. CASE StartOld
  BY <1>2, StartOldStep
<1>3. CASE Crash
  BY <1>3, EndStep DEF Crash
<1>4. CASE SetupMasterKey
  BY <1>4, SetupMasterKeyStep
<1>5. CASE GenerateNewHDMasterKey
  BY <1>5, GenerateNewHDMasterKeyStep
<1>6. CASE SetHDMasterKey
  BY <1>6, SetHDMasterKeyStep
<1>7. CASE NewKeyPool
  BY <1>7, NewKeyPoolStep
<1>8. CASE SetDefaultKey
  BY <1>8, SetDefaultKeyStep
<1>9. CASE GetKeyFromPool
  BY <1>9, BeginStep DEF GetKeyFromPool
<1>10. CASE keypoolrefill
  BY <1>10, BeginStep DEF keypoolrefill
<1>11. CASE Derive
  BY <1>11, DeriveStep
<1>12. CASE AddKey
  BY <1>12, AddKeyStep
<1>13. CASE WritePool
  BY <1>13, WritePoolStep
<1>14. CASE Refilled
  BY <1>14, RefilledStep
<1>15. CASE Take
  BY <1>15, TakeStep
<1>16. CASE KeepTaken
  BY <1>16, KeepTakenStep
<1>17. CASE WriteSeed
  BY <1>17, WriteSeedStep
<1>18. ASSUME NEW c \in Client, GetReservedKey(c) PROVE IInv'
  BY <1>18, BeginStep, WalletAssumption DEF GetReservedKey
<1>19. ASSUME NEW c \in Client, KeepKey(c) PROVE IInv'
  BY <1>19, KeepKeyStep
<1>20. ASSUME NEW c \in Client, ReturnKey(c) PROVE IInv'
  BY <1>20, ReturnKeyStep
<1>21. CASE Lock
  BY <1>21, LockStep
<1>22. ASSUME NEW p \in Passphrase, walletpassphrase(p) PROVE IInv'
  BY <1>22, walletpassphraseStep
<1>23. ASSUME NEW p \in Passphrase, UnlockAborts(p) PROVE IInv'
  BY <1>23, EndStep DEF UnlockAborts
<1>24. ASSUME NEW old \in Passphrase, NEW new \in Passphrase, ChangeWalletPassphrase(old, new) PROVE IInv'
  BY <1>24, ChangeWalletPassphraseStep
<1>25. CASE WriteMasterKey
  BY <1>25, WriteMasterKeyStep
<1>26. CASE UNCHANGED vars
  <2>1. disk' = disk /\ mem' = mem /\ job' = job /\ res' = res /\ used' = used /\ clobbered' = clobbered
    BY <1>26 DEF vars
  <2>2. InHand' = InHand
    BY <2>1 DEF InHand
  <2>3. Shape' /\ Numbered' /\ Order'
    BY <2>1, <2>2 DEF IInv, Shape, Numbered, Order
  <2>4. Stored' /\ Fresh'
    BY <2>1, <2>2 DEF IInv, Stored, Fresh
  <2>5. Once' /\ Held'
    BY <2>1, <2>2 DEF IInv, Once, Held
  <2> QED
    BY <2>3, <2>4, <2>5 DEF IInv
<1> QED
  BY <1>1, <1>2, <1>3, <1>4, <1>5, <1>6, <1>7, <1>8, <1>9, <1>10, <1>11, <1>12, <1>13, <1>14, <1>15, <1>16,
     <1>17, <1>18, <1>19, <1>20, <1>21, <1>22, <1>23, <1>24, <1>25, <1>26 DEF Next

LEMMA IInvAlways == Spec => []IInv
<1>1. Init => IInv
  BY InitIInv
<1>2. IInv /\ [Next]_vars => IInv'
  BY NextIInv
<1> QED
  BY <1>1, <1>2, PTL DEF Spec

\* No key of the pool is handed out twice (ReserveKeyFromKeyPool), for any number
\* of owners, keys, crashes and first runs, unless TopUpKeyPool wrote over the
\* record of a key in hand.
THEOREM KeyHandedOnceAlways == Spec => []KeyHandedOnce
<1>1. IInv => KeyHandedOnce
  BY DEF IInv, Once, Held, KeyHandedOnce
<1> QED
  BY <1>1, IInvAlways, PTL

\* ReserveKeyFromKeyPool finds the record and the key behind every index of
\* setKeyPool.
THEOREM PoolReadableAlways == Spec => []PoolReadable
<1>1. IInv => PoolReadable
  <2> SUFFICES ASSUME IInv, ~clobbered, job.op # "setup", NEW i \in mem.setKeyPool PROVE Readable(i)
    BY DEF PoolReadable
  <2>1. mem.up
    BY DEF IInv, Order
  <2>2. job.pc # "erase"
    BY DEF IInv, Order
  <2> QED
    BY <2>1, <2>2 DEF IInv, Stored, Held, Readable
<1> QED
  BY <1>1, IInvAlways, PTL

\* A key that KeepKey gave away is in no pool of a later process.
THEOREM UsedIsGoneAlways == Spec => []UsedIsGone
<1>1. IInv => UsedIsGone
  BY DEF IInv, Once, UsedIsGone
<1> QED
  BY <1>1, IInvAlways, PTL

\* The key behind an address that was given away is in the database.
THEOREM GivenKeysStoredAlways == Spec => []GivenKeysStored
<1>1. IInv => GivenKeysStored
  BY DEF IInv, Stored, GivenKeysStored
<1> QED
  BY <1>1, IInvAlways, PTL

-----------------------------------------------------------------------------
(* Opening the wallet. *)

\* What keeps a wallet openable: vMasterKey decrypts a key, so a new key is
\* encrypted as the others are; SetupCrypter runs in wallets without a default key
\* only; and the seed for zerocoins is the one of an HD chain.
Openable ==
  /\ mem.up => mem.keys = disk.ckey
  /\ ~mem.up => mem.vMasterKey = 0
  /\ mem.vMasterKey # 0 /\ job.pc # "hdkey" => \E k \in DOMAIN disk.ckey : disk.ckey[k] = mem.vMasterKey
  /\ job.pc \in {"hdkey", "hdchain"} => mem.vMasterKey # 0
  /\ job.op = "setup" => ~disk.defaultkey
  /\ disk.defaultkey \/ (mem.up /\ job.pc \notin {"mkey", "hdkey", "hdchain"}) => disk.hdchain.master # 0
  /\ disk.dzs # {} \/ job.pc = "seed" => disk.seedhash # 0
  /\ job.pass \in Passphrase

\* Steps that write nothing which decides whether the wallet opens.
LEMMA SameOpen ==
  ASSUME Openable, mem.up,
         disk'.ckey = disk.ckey, disk'.hdchain.master = disk.hdchain.master, disk'.defaultkey = disk.defaultkey,
         disk'.seedhash = disk.seedhash, disk'.dzs = disk.dzs,
         mem'.up = mem.up, mem'.keys = mem.keys, mem'.vMasterKey \in {mem.vMasterKey, 0},
         job.pc \notin {"mkey", "hdkey", "hdchain"}, job'.pc \notin {"mkey", "hdkey", "hdchain"},
         job'.pc = "seed" => job.pc = "seed", job'.op = "setup" => job.op = "setup", job'.pass \in Passphrase
  PROVE  Openable'
BY DEF Openable

\* Unlock succeeds with a master key that decrypts one of the keys.
LEMMA OpeningHits ==
  ASSUME NEW p, NEW keys, NEW first, NEW checked, Opening(p, keys, first, checked).how = "pass"
  PROVE  keys[first] = Opening(p, keys, first, checked).master
BY DEF Opening, Tried

LEMMA ChangingHits ==
  ASSUME NEW p, NEW first, Changing(p, first).how = "pass"
  PROVE  mem.keys[first] = Changing(p, first).master
BY DEF Changing, Tried

LEMMA OpenedOpen ==
  ASSUME IInv, Openable, NEW m, NEW pool, NEW then, Opened(m, disk.ckey, pool, then),
         NEW first \in DOMAIN disk.ckey, disk.ckey[first] = m, disk.hdchain.master # 0,
         then = [op |-> then.op, pc |-> then.pc, next |-> then.next, target |-> then.target, index |-> then.index,
                 key |-> then.key, pass |-> then.pass, relock |-> then.relock],
         then.op \in {"none", "unlock", "change"}, then.pc \in {"none", "loop", "rekey"}, then.pass \in Passphrase
  PROVE  Openable'
<1>1. mem' = [up |-> TRUE, vMasterKey |-> m, checked |-> TRUE, keys |-> disk.ckey, setKeyPool |-> pool]
  BY DEF Opened
<1>2. mem'.up /\ mem'.vMasterKey = m /\ mem'.keys = disk.ckey
  BY <1>1
<1>3. CASE disk.seedhash = 0
  <2>1. /\ disk' = [disk EXCEPT !.seedhash = disk.hdchain.master]
        /\ job' = [then EXCEPT !.op = "unlock", !.pc = "seed", !.next = then.pc]
    BY <1>3 DEF Opened
  <2>2. /\ disk'.ckey = disk.ckey /\ disk'.hdchain = disk.hdchain /\ disk'.defaultkey = disk.defaultkey
        /\ disk'.dzs = disk.dzs /\ disk'.seedhash = disk.hdchain.master
    BY <2>1 DEF IInv, Shape
  <2>3. job'.op = "unlock" /\ job'.pc = "seed" /\ job'.pass = then.pass
    BY <2>1
  <2> QED
    BY <1>2, <2>2, <2>3 DEF Openable
<1>4. CASE disk.seedhash # 0
  <2>1. disk' = disk /\ (job' = Idle \/ job' = then)
    BY <1>4 DEF Opened
  <2>2. job'.op \in {"none", "unlock", "change"} /\ job'.pc \in {"none", "loop", "rekey"} /\ job'.pass \in Passphrase
    BY <2>1, WalletAssumption DEF Idle
  <2> QED
    BY <1>2, <1>4, <2>1, <2>2 DEF Openable
<1> QED
  BY <1>3, <1>4

LEMMA StartOpen == IInv /\ Openable /\ (StartNew \/ StartOld) => Openable'
<1> SUFFICES ASSUME IInv, Openable, StartNew \/ StartOld PROVE Openable'
  OBVIOUS
<1>1. CASE StartNew
  <2>1. disk' = disk /\ ~disk.defaultkey /\ ~mem.up
    BY <1>1 DEF StartNew
  <2>2. job'.op = "setup" /\ job'.pc = "mkey" /\ job'.pass \in Passphrase
    BY <1>1, WalletAssumption DEF StartNew, Idle
  <2>3. mem'.up /\ mem'.keys = disk.ckey /\ mem'.vMasterKey = 0
    BY <1>1 DEF StartNew, Down
  <2> QED
    BY <2>1, <2>2, <2>3 DEF Openable
<1>2. CASE StartOld
  <2>1. PICK first \in DOMAIN disk.ckey :
          /\ Opening(Builtin, disk.ckey, first, FALSE).how = "pass"
          /\ Opened(Opening(Builtin, disk.ckey, first, FALSE).master, disk.ckey, DOMAIN disk.pool, Idle)
    BY <1>2 DEF StartOld
  <2>2. PICK m : m = Opening(Builtin, disk.ckey, first, FALSE).master
    OBVIOUS
  <2>3. disk.ckey[first] = m
    BY <2>1, <2>2 DEF Opening, Tried
  <2>4. PICK then : then = Idle
    OBVIOUS
  <2>5. /\ then = [op |-> then.op, pc |-> then.pc, next |-> then.next, target |-> then.target, index |-> then.index,
                   key |-> then.key, pass |-> then.pass, relock |-> then.relock]
        /\ then.op = "none" /\ then.pc = "none" /\ then.pass \in Passphrase
    BY <2>4, WalletAssumption DEF Idle
  <2>6. Opened(m, disk.ckey, DOMAIN disk.pool, then) /\ disk.hdchain.master # 0
    BY <1>2, <2>1, <2>2, <2>4 DEF StartOld, Openable
  <2> QED
    BY <2>3, <2>5, <2>6, OpenedOpen
<1> QED
  BY <1>1, <1>2

LEMMA UnlockOpen ==
  ASSUME NEW p \in Passphrase, NEW new \in Passphrase, IInv, Openable,
         walletpassphrase(p) \/ ChangeWalletPassphrase(p, new)
  PROVE  Openable'
<1>1. mem.up /\ job = Idle /\ job.pc = "none" /\ job.op = "none" /\ job.pass \in Passphrase
  BY IdleIs DEF walletpassphrase, ChangeWalletPassphrase, Openable
<1>2. mem.keys = disk.ckey /\ disk.hdchain.master # 0
  BY <1>1 DEF Openable
<1>3. CASE walletpassphrase(p)
  <2>1. PICK first \in DOMAIN disk.ckey :
          /\ Opening(p, disk.ckey, first, mem.checked).how = "pass"
          /\ Opened(Opening(p, disk.ckey, first, mem.checked).master, disk.ckey, mem.setKeyPool,
                    [Idle EXCEPT !.op = "unlock", !.pc = "loop", !.target = TargetSize])
    BY <1>2, <1>3 DEF walletpassphrase
  <2>2. PICK m : m = Opening(p, disk.ckey, first, mem.checked).master
    OBVIOUS
  <2>3. disk.ckey[first] = m
    BY <2>1, <2>2, OpeningHits
  <2>4. PICK then : then = [Idle EXCEPT !.op = "unlock", !.pc = "loop", !.target = TargetSize]
    OBVIOUS
  <2>5. /\ then = [op |-> then.op, pc |-> then.pc, next |-> then.next, target |-> then.target, index |-> then.index,
                   key |-> then.key, pass |-> then.pass, relock |-> then.relock]
        /\ then.op = "unlock" /\ then.pc = "loop" /\ then.pass \in Passphrase
    BY <2>4, WalletAssumption DEF Idle
  <2>6. Opened(m, disk.ckey, mem.setKeyPool, then)
    BY <2>1, <2>2, <2>4
  <2> QED
    BY <1>2, <2>3, <2>5, <2>6, OpenedOpen
<1>4. CASE mem' = [mem EXCEPT !.vMasterKey = 0] /\ disk' = disk /\ job' = job
  <2>1. mem'.up = mem.up /\ mem'.keys = mem.keys /\ mem'.vMasterKey = 0
    BY <1>4 DEF IInv, Shape
  <2> QED
    BY <1>1, <1>4, <2>1, SameOpen
<1>5. ASSUME NEW first \in DOMAIN disk.ckey, Changing(p, first).how = "pass",
             Opened(Changing(p, first).master, disk.ckey, mem.setKeyPool,
                    [Idle EXCEPT !.op = "change", !.pc = "rekey", !.index = Changing(p, first).master,
                                 !.pass = new, !.relock = Locked])
      PROVE  Openable'
  <2>1. PICK m : m = Changing(p, first).master
    OBVIOUS
  <2>2. disk.ckey[first] = m
    BY <1>2, <1>5, <2>1, ChangingHits
  <2>3. PICK then : then = [Idle EXCEPT !.op = "change", !.pc = "rekey", !.index = m, !.pass = new, !.relock = Locked]
    OBVIOUS
  <2>4. /\ then = [op |-> then.op, pc |-> then.pc, next |-> then.next, target |-> then.target, index |-> then.index,
                   key |-> then.key, pass |-> then.pass, relock |-> then.relock]
        /\ then.op = "change" /\ then.pc = "rekey" /\ then.pass \in Passphrase
    BY <2>3 DEF Idle
  <2>5. Opened(m, disk.ckey, mem.setKeyPool, then)
    BY <1>5, <2>1, <2>3
  <2> QED
    BY <1>2, <2>2, <2>4, <2>5, OpenedOpen
<1>6. CASE ChangeWalletPassphrase(p, new)
  BY <1>2, <1>4, <1>5, <1>6 DEF ChangeWalletPassphrase
<1> QED
  BY <1>3, <1>6

\* The first run: the new master key decrypts the HD master key it is used for.
LEMMA SetupOpen ==
  IInv /\ Openable /\ (SetupMasterKey \/ GenerateNewHDMasterKey \/ SetHDMasterKey \/ SetDefaultKey) => Openable'
<1> SUFFICES ASSUME IInv, Openable, SetupMasterKey \/ GenerateNewHDMasterKey \/ SetHDMasterKey \/ SetDefaultKey
             PROVE  Openable'
  OBVIOUS
<1>1. job.op = "setup" /\ mem.up /\ ~disk.defaultkey
  BY DEF SetupMasterKey, GenerateNewHDMasterKey, SetHDMasterKey, SetDefaultKey, IInv, Order, Openable
<1>2. CASE SetupMasterKey
  <2>1. PICK m \in 1..MaxMaster : /\ disk' = [disk EXCEPT !.mkey = Put(@, m, Builtin)]
                                  /\ mem' = [mem EXCEPT !.vMasterKey = m]
    BY <1>2 DEF SetupMasterKey, Master
  <2>2. job' = [job EXCEPT !.pc = "hdkey"] /\ job.pc = "mkey"
    BY <1>2 DEF SetupMasterKey
  <2>3. /\ disk'.ckey = disk.ckey /\ disk'.hdchain = disk.hdchain /\ disk'.defaultkey = disk.defaultkey
        /\ disk'.seedhash = disk.seedhash /\ disk'.dzs = disk.dzs
    BY <2>1 DEF IInv, Shape
  <2>4. mem'.up = mem.up /\ mem'.keys = mem.keys /\ mem'.vMasterKey = m /\ m # 0
    BY <2>1 DEF IInv, Shape
  <2>5. job'.pc = "hdkey" /\ job'.op = "setup" /\ job'.pass = job.pass
    BY <1>1, <2>2 DEF IInv, Shape
  <2> QED
    BY <1>1, <2>3, <2>4, <2>5 DEF Openable
<1>3. CASE GenerateNewHDMasterKey
  <2> DEFINE k == <<mem.vMasterKey, 0>>
  <2>1. /\ disk' = [disk EXCEPT !.ckey = Put(@, k, mem.vMasterKey)]
        /\ mem' = [mem EXCEPT !.keys = Put(@, k, mem.vMasterKey)]
        /\ job' = [job EXCEPT !.pc = "hdchain"] /\ job.pc = "hdkey"
    BY <1>3 DEF GenerateNewHDMasterKey
  <2>2. /\ disk'.ckey = Put(disk.ckey, k, mem.vMasterKey) /\ disk'.hdchain = disk.hdchain
        /\ disk'.defaultkey = disk.defaultkey /\ disk'.seedhash = disk.seedhash /\ disk'.dzs = disk.dzs
    BY <2>1 DEF IInv, Shape
  <2>3. /\ mem'.up = mem.up /\ mem'.keys = Put(mem.keys, k, mem.vMasterKey) /\ mem'.vMasterKey = mem.vMasterKey
        /\ job'.pc = "hdchain" /\ job'.op = "setup" /\ job'.pass = job.pass
    BY <1>1, <2>1 DEF IInv, Shape
  <2>4. mem'.keys = disk'.ckey
    BY <1>1, <2>2, <2>3 DEF Openable
  <2>5. k \in DOMAIN disk'.ckey /\ disk'.ckey[k] = mem.vMasterKey
    BY <2>2 DEF Put
  <2>6. mem.vMasterKey # 0
    BY <2>1 DEF Openable
  <2> QED
    BY <1>1, <2>2, <2>3, <2>4, <2>5, <2>6 DEF Openable
<1>4. CASE SetHDMasterKey
  <2>1. /\ disk' = [disk EXCEPT !.hdchain = [master |-> mem.vMasterKey, counter |-> 0]]
        /\ job' = [job EXCEPT !.pc = "erase"] /\ mem' = mem /\ job.pc = "hdchain"
    BY <1>4 DEF SetHDMasterKey
  <2>2. /\ disk'.ckey = disk.ckey /\ disk'.hdchain.master = mem.vMasterKey
        /\ disk'.defaultkey = disk.defaultkey /\ disk'.seedhash = disk.seedhash /\ disk'.dzs = disk.dzs
    BY <2>1 DEF IInv, Shape
  <2>3. job'.pc = "erase" /\ job'.op = "setup" /\ job'.pass = job.pass
    BY <1>1, <2>1 DEF IInv, Shape
  <2> QED
    BY <1>1, <2>1, <2>2, <2>3 DEF Openable
<1>5. CASE SetDefaultKey
  <2>1. disk' = [disk EXCEPT !.defaultkey = TRUE] /\ job' = Idle /\ mem' = mem /\ job.pc = "default"
    BY <1>5 DEF SetDefaultKey
  <2>2. /\ disk'.ckey = disk.ckey /\ disk'.hdchain = disk.hdchain
        /\ disk'.seedhash = disk.seedhash /\ disk'.dzs = disk.dzs
    BY <2>1 DEF IInv, Shape
  <2>3. job'.pc = "none" /\ job'.op = "none" /\ job'.pass \in Passphrase
    BY <2>1, WalletAssumption DEF Idle
  <2> QED
    BY <1>1, <2>1, <2>2, <2>3 DEF Openable
<1> QED
  BY <1>2, <1>3, <1>4, <1>5

\* A key is encrypted with the master key that is there when it is added.
LEMMA AddKeyOpen == IInv /\ Openable /\ AddKey => Openable'
<1> SUFFICES ASSUME IInv, Openable, AddKey PROVE Openable'
  OBVIOUS
<1>1. job.pc = "add" /\ mem.up
  BY DEF AddKey, IInv, Order
<1>2. CASE Locked
  <2>1. disk' = disk /\ mem' = mem /\ job' = Idle
    BY <1>2 DEF AddKey
  <2>2. job'.pc = "none" /\ job'.op = "none" /\ job'.pass \in Passphrase
    BY <2>1, WalletAssumption DEF Idle
  <2> QED
    BY <1>1, <2>1, <2>2, SameOpen
<1>3. CASE ~Locked
  <2>1. /\ disk' = [disk EXCEPT !.ckey = Put(@, job.key, mem.vMasterKey)]
        /\ mem' = [mem EXCEPT !.keys = Put(@, job.key, mem.vMasterKey)]
        /\ job' = [job EXCEPT !.pc = "pool"]
    BY <1>3 DEF AddKey
  <2>2. /\ disk'.ckey = Put(disk.ckey, job.key, mem.vMasterKey) /\ disk'.hdchain = disk.hdchain
        /\ disk'.defaultkey = disk.defaultkey /\ disk'.seedhash = disk.seedhash /\ disk'.dzs = disk.dzs
    BY <2>1 DEF IInv, Shape
  <2>3. /\ mem'.up = mem.up /\ mem'.keys = Put(mem.keys, job.key, mem.vMasterKey) /\ mem'.vMasterKey = mem.vMasterKey
        /\ job'.pc = "pool" /\ job'.op = job.op /\ job'.pass = job.pass
    BY <2>1 DEF IInv, Shape
  <2>4. mem'.keys = disk'.ckey
    BY <1>1, <2>2, <2>3 DEF Openable
  <2>5. job.key \in DOMAIN disk'.ckey /\ disk'.ckey[job.key] = mem.vMasterKey
    BY <2>2 DEF Put
  <2> QED
    BY <1>1, <2>2, <2>3, <2>4, <2>5 DEF Openable
<1> QED
  BY <1>2, <1>3

\* The other operations of the pool, and Lock.
LEMMA PoolOpen ==
  ASSUME IInv, Openable,
         \/ NewKeyPool \/ GetKeyFromPool \/ keypoolrefill \/ Derive \/ WritePool \/ Refilled \/ Take \/ KeepTaken
         \/ (\E c \in Client : GetReservedKey(c) \/ KeepKey(c) \/ ReturnKey(c)) \/ Lock \/ WriteMasterKey
  PROVE  Openable'
<1>1. mem.up
  BY DEF NewKeyPool, GetKeyFromPool, keypoolrefill, Begin, Derive, WritePool, Refilled, Take, KeepTaken,
         GetReservedKey, KeepKey, ReturnKey, Lock, WriteMasterKey, IInv, Order, InHand
<1>2. job.pc \notin {"mkey", "hdkey", "hdchain"}
  BY IdleIs DEF NewKeyPool, GetKeyFromPool, keypoolrefill, Begin, Derive, WritePool, Refilled, Take, KeepTaken,
         GetReservedKey, KeepKey, ReturnKey, Lock, WriteMasterKey, IInv, Order, InHand
<1>3. /\ disk'.ckey = disk.ckey /\ disk'.hdchain.master = disk.hdchain.master /\ disk'.defaultkey = disk.defaultkey
      /\ disk'.seedhash = disk.seedhash /\ disk'.dzs = disk.dzs
  <2>1. CASE Derive
    BY <2>1 DEF Derive, IInv, Shape
  <2>2. CASE WriteMasterKey
    BY <2>2 DEF WriteMasterKey, IInv, Shape
  <2>3. CASE disk' = disk \/ \E pool : disk' = [disk EXCEPT !.pool = pool]
    BY <2>3 DEF IInv, Shape
  <2>4. NewKeyPool \/ WritePool \/ KeepTaken \/ (\E c \in Client : KeepKey(c))
          => disk' = disk \/ \E pool : disk' = [disk EXCEPT !.pool = pool]
    BY DEF NewKeyPool, WritePool, KeepTaken, KeepKey, Keep
  <2>5. GetKeyFromPool \/ keypoolrefill \/ Refilled \/ Take \/ Lock \/ (\E c \in Client : GetReservedKey(c) \/ ReturnKey(c))
          => disk' = disk
    BY DEF GetKeyFromPool, keypoolrefill, Begin, Refilled, Take, GetReservedKey, ReturnKey, Lock
  <2>6. Derive \/ WriteMasterKey \/ disk' = disk \/ \E pool : disk' = [disk EXCEPT !.pool = pool]
    BY <2>4, <2>5, Zenon
  <2> QED
    BY <2>1, <2>2, <2>3, <2>6, Zenon
<1>4. mem'.up = mem.up /\ mem'.keys = mem.keys /\ mem'.vMasterKey \in {mem.vMasterKey, 0}
  BY DEF NewKeyPool, GetKeyFromPool, keypoolrefill, Begin, Derive, WritePool, Refilled, Take, KeepTaken,
         GetReservedKey, KeepKey, ReturnKey, Lock, WriteMasterKey, IInv, Shape
<1>5. /\ job'.pc \notin {"mkey", "hdkey", "hdchain"}
      /\ job'.pc = "seed" => job.pc = "seed"
      /\ job'.op = "setup" => job.op = "setup"
      /\ job'.pass \in Passphrase
  <2>1. CASE job' = job \/ job' = Idle
    BY <1>2, <2>1, WalletAssumption DEF Idle, Openable
  <2>2. CASE NewKeyPool
    BY <2>2, <2>1 DEF NewKeyPool, IInv, Shape, Openable
  <2>3. CASE Derive
    BY <2>3, <2>1 DEF Derive, IInv, Shape, Openable
  <2>4. CASE WritePool
    BY <2>4 DEF WritePool, IInv, Shape, Openable
  <2>5. CASE Refilled
    BY <2>5, <2>1 DEF Refilled, IInv, Shape, Openable
  <2>6. CASE Take
    BY <2>6, <2>1 DEF Take, IInv, Shape, Openable
  <2>7. CASE KeepTaken
    BY <2>7, <2>1 DEF KeepTaken, IInv, Shape, Openable
  <2>8. ASSUME NEW op, op # "setup", NEW target, Begin(op, target)
        PROVE  job'.pc \in {"take", "loop"} /\ job'.op # "setup" /\ job'.pass \in Passphrase
    BY <2>8, WalletAssumption DEF Begin, Idle
  <2>9. CASE GetKeyFromPool
    BY <2>8, <2>9 DEF GetKeyFromPool
  <2>10. CASE keypoolrefill
    BY <2>8, <2>10 DEF keypoolrefill
  <2>11. CASE \E c \in Client : GetReservedKey(c)
    BY <2>8, <2>11, WalletAssumption DEF GetReservedKey
  <2>12. (\E c \in Client : KeepKey(c) \/ ReturnKey(c)) \/ Lock \/ WriteMasterKey => job' = job \/ job' = Idle
    BY DEF KeepKey, ReturnKey, Lock, WriteMasterKey
  <2> QED
    BY <2>1, <2>2, <2>3, <2>4, <2>5, <2>6, <2>7, <2>9, <2>10, <2>11, <2>12
<1> QED
  BY <1>1, <1>2, <1>3, <1>4, <1>5, SameOpen

LEMMA WriteSeedOpen == IInv /\ Openable /\ WriteSeed => Openable'
<1> SUFFICES ASSUME IInv, Openable, WriteSeed PROVE Openable'
  OBVIOUS
<1>1. /\ job.pc = "seed" /\ mem' = mem /\ mem.up /\ disk' = [disk EXCEPT !.dzs = @ \cup {disk.seedhash}]
      /\ job.next \in {"none", "loop", "rekey"}
  BY DEF WriteSeed, IInv, Order
<1>2. /\ disk'.ckey = disk.ckey /\ disk'.hdchain = disk.hdchain /\ disk'.defaultkey = disk.defaultkey
      /\ disk'.seedhash = disk.seedhash
  BY <1>1 DEF IInv, Shape
<1>3. /\ job'.pc \in {"none", "loop", "rekey"} /\ job'.pass \in Passphrase
      /\ job'.op = "setup" => job.op = "setup"
  BY <1>1, WalletAssumption DEF WriteSeed, Idle, IInv, Shape, Openable
<1> QED
  BY <1>1, <1>2, <1>3 DEF Openable

LEMMA EndOpen ==
  ASSUME Openable, mem' = Down, job' = Idle, disk' = disk
  PROVE  Openable'
<1>1. ~mem'.up /\ mem'.vMasterKey = 0
  BY DEF Down
<1>2. job'.pc = "none" /\ job'.op = "none" /\ job'.pass \in Passphrase
  BY WalletAssumption DEF Idle
<1> QED
  BY <1>1, <1>2 DEF Openable

LEMMA NextOpenable == IInv /\ Openable /\ [Next]_vars => Openable'
<1> SUFFICES ASSUME IInv, Openable, [Next]_vars PROVE Openable'
  OBVIOUS
<1>1. CASE StartNew \/ StartOld
  BY <1>1, StartOpen
<1>2. CASE Crash \/ \E p \in Passphrase : UnlockAborts(p)
  BY <1>2, EndOpen DEF Crash, UnlockAborts
<1>3. CASE SetupMasterKey \/ GenerateNewHDMasterKey \/ SetHDMasterKey \/ SetDefaultKey
  BY <1>3, SetupOpen
<1>4. CASE \/ NewKeyPool \/ GetKeyFromPool \/ keypoolrefill \/ Derive \/ WritePool \/ Refilled \/ Take \/ KeepTaken
           \/ (\E c \in Client : GetReservedKey(c) \/ KeepKey(c) \/ ReturnKey(c)) \/ Lock \/ WriteMasterKey
  BY <1>4, PoolOpen
<1>5. CASE AddKey
  BY <1>5, AddKeyOpen
<1>6. CASE WriteSeed
  BY <1>6, WriteSeedOpen
<1>7. ASSUME NEW p \in Passphrase, walletpassphrase(p) PROVE Openable'
  BY <1>7, UnlockOpen
<1>8. ASSUME NEW old \in Passphrase, NEW new \in Passphrase, ChangeWalletPassphrase(old, new) PROVE Openable'
  BY <1>8, UnlockOpen
<1>9. CASE UNCHANGED vars
  BY <1>9 DEF vars, Openable
<1> QED
  BY <1>1, <1>2, <1>3, <1>4, <1>5, <1>6, <1>7, <1>8, <1>9 DEF Next

LEMMA OpenableAlways == Spec => [](IInv /\ Openable)
<1>1. Init => Openable
  BY WalletAssumption DEF Init, Openable, Down, Idle
<1>2. IInv /\ Openable /\ [Next]_vars => Openable'
  BY NextOpenable
<1> QED
  BY <1>1, <1>2, IInvAlways, PTL DEF Spec

\* Whether a passphrase opens a wallet depends on these records only.
LEMMA OpensSame ==
  ASSUME NEW p, Opens(disk, p),
         disk'.mkey = disk.mkey, disk'.ckey = disk.ckey, disk'.hdchain.master = disk.hdchain.master,
         disk'.seedhash = disk.seedhash, disk'.dzs = disk.dzs
  PROVE  Opens(disk', p)
BY DEF Opens

LEMMA StaysOpenableStep ==
  ASSUME IInv, Openable, [Next]_vars, disk.defaultkey, disk.dzs # {}, NEW p \in Passphrase, Opens(disk, p)
  PROVE  \E q \in Passphrase : Opens(disk', q)
<1>1. job.op # "setup" /\ disk.seedhash # 0 /\ job.pc \notin {"mkey", "hdkey", "hdchain", "erase", "default"}
  BY DEF IInv, Order, Openable
<1>2. PICK m \in DOMAIN disk.mkey :
        /\ disk.mkey[m] = p /\ Range(disk.ckey) = {m} /\ <<m, 0>> \in DOMAIN disk.ckey
        /\ disk.hdchain.master = m /\ disk.seedhash = m /\ m \in disk.dzs
  BY <1>1 DEF Opens
<1>3. CASE disk' = disk \/ \E pool : disk' = [disk EXCEPT !.pool = pool]
  <2>1. /\ disk'.mkey = disk.mkey /\ disk'.ckey = disk.ckey /\ disk'.hdchain.master = disk.hdchain.master
        /\ disk'.seedhash = disk.seedhash /\ disk'.dzs = disk.dzs
    BY <1>3 DEF IInv, Shape
  <2> QED
    BY <2>1, OpensSame
<1>4. CASE Derive
  <2>1. /\ disk'.mkey = disk.mkey /\ disk'.ckey = disk.ckey /\ disk'.hdchain.master = disk.hdchain.master
        /\ disk'.seedhash = disk.seedhash /\ disk'.dzs = disk.dzs
    BY <1>4 DEF Derive, IInv, Shape
  <2> QED
    BY <2>1, OpensSame
<1>5. CASE WriteSeed
  <2>1. disk' = [disk EXCEPT !.dzs = @ \cup {disk.seedhash}]
    BY <1>5 DEF WriteSeed
  <2>2. /\ disk'.mkey = disk.mkey /\ disk'.ckey = disk.ckey /\ disk'.hdchain = disk.hdchain
        /\ disk'.seedhash = disk.seedhash /\ disk'.dzs = disk.dzs \cup {disk.seedhash}
    BY <2>1 DEF IInv, Shape
  <2>3. Opens(disk', p)
    BY <1>2, <2>2 DEF Opens
  <2> QED
    BY <2>3
<1>6. CASE WriteMasterKey
  <2>1. disk' = [disk EXCEPT !.mkey[job.index] = job.pass] /\ job.pass \in Passphrase
    BY <1>6 DEF WriteMasterKey, Openable
  <2>2. /\ disk'.mkey = [disk.mkey EXCEPT ![job.index] = job.pass]
        /\ disk'.ckey = disk.ckey /\ disk'.hdchain = disk.hdchain
        /\ disk'.seedhash = disk.seedhash /\ disk'.dzs = disk.dzs
    BY <2>1 DEF IInv, Shape
  <2>3. /\ m \in DOMAIN disk'.mkey
        /\ disk'.mkey[m] = IF m = job.index THEN job.pass ELSE p
    BY <1>2, <2>2
  <2>4. Opens(disk', IF m = job.index THEN job.pass ELSE p)
    BY <1>2, <2>2, <2>3 DEF Opens
  <2> QED
    BY <2>1, <2>4
<1>7. CASE AddKey
  <2>1. CASE Locked
    BY <1>3, <1>7, <2>1 DEF AddKey
  <2>2. CASE ~Locked
    <3>1. disk' = [disk EXCEPT !.ckey = Put(@, job.key, mem.vMasterKey)] /\ job.pc = "add" /\ mem.vMasterKey # 0
      BY <1>7, <2>2 DEF AddKey, Locked
    <3>2. /\ disk'.ckey = Put(disk.ckey, job.key, mem.vMasterKey) /\ disk'.mkey = disk.mkey
          /\ disk'.hdchain = disk.hdchain /\ disk'.seedhash = disk.seedhash /\ disk'.dzs = disk.dzs
      BY <3>1 DEF IInv, Shape
    <3>3. \A k \in DOMAIN disk.ckey : disk.ckey[k] = m
      BY <1>2 DEF Range
    <3>4. mem.vMasterKey = m
      BY <3>1, <3>3 DEF Openable
    <3>5. /\ DOMAIN disk'.ckey = DOMAIN disk.ckey \cup {job.key}
          /\ \A k \in DOMAIN disk'.ckey : disk'.ckey[k] = m
      BY <3>2, <3>3, <3>4 DEF Put
    <3>6. Range(disk'.ckey) = {m}
      BY <1>2, <3>5 DEF Range
    <3>7. Opens(disk', p)
      BY <1>2, <3>2, <3>5, <3>6 DEF Opens
    <3> QED
      BY <3>7
  <2> QED
    BY <2>1, <2>2
<1>8. CASE NewKeyPool \/ WritePool \/ KeepTaken \/ \E c \in Client : KeepKey(c)
  BY <1>3, <1>8 DEF NewKeyPool, WritePool, KeepTaken, KeepKey, Keep
<1>9. CASE StartOld \/ (\E q \in Passphrase : walletpassphrase(q))
           \/ (\E old, new \in Passphrase : ChangeWalletPassphrase(old, new))
  <2>1. disk' = disk
    BY <1>1, <1>9 DEF StartOld, walletpassphrase, ChangeWalletPassphrase, Opened
  <2> QED
    BY <1>3, <2>1
<1>10. CASE StartNew \/ Crash \/ GetKeyFromPool \/ keypoolrefill \/ Refilled \/ Take
            \/ (\E c \in Client : GetReservedKey(c) \/ ReturnKey(c)) \/ Lock
            \/ (\E q \in Passphrase : UnlockAborts(q)) \/ UNCHANGED vars
  <2>1. disk' = disk
    BY <1>10 DEF StartNew, Crash, GetKeyFromPool, keypoolrefill, Begin, Refilled, Take, GetReservedKey, ReturnKey,
                 Lock, UnlockAborts, vars
  <2> QED
    BY <1>3, <2>1
<1>11. ~SetupMasterKey /\ ~GenerateNewHDMasterKey /\ ~SetHDMasterKey /\ ~SetDefaultKey
  BY <1>1 DEF SetupMasterKey, GenerateNewHDMasterKey, SetHDMasterKey, SetDefaultKey
<1> QED
  BY <1>4, <1>5, <1>6, <1>7, <1>8, <1>9, <1>10, <1>11 DEF Next

\* A wallet that was set up and opened once opens after every later step: whatever
\* Lock, ChangeWalletPassphrase and a crash meet half done.
THEOREM StaysOpenableAlways == Spec => StaysOpenable
<1>1. IInv /\ Openable /\ [Next]_vars =>
        [disk.defaultkey /\ disk.dzs # {} /\ (\E p \in Passphrase : Opens(disk, p))
           => \E p \in Passphrase : Opens(disk', p)]_vars
  BY StaysOpenableStep
<1> QED
  BY <1>1, OpenableAlways, PTL DEF Spec, StaysOpenable
=============================================================================
