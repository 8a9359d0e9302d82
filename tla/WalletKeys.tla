----------------------------- MODULE WalletKeys -----------------------------
(***************************************************************************)
(* The keys of the wallet: the encrypted key store, the HD chain and the   *)
(* key pool (wallet.cpp, crypter.cpp, walletdb.cpp, reservekey.h), with    *)
(* the first run of SetupCrypter and the later starts (init.cpp). Every    *)
(* record is written to the wallet database in a transaction of its own,   *)
(* so a crash may fall between any two of them, and every record written   *)
(* is one step here. An operation holds cs_wallet from its first step to   *)
(* its last; KeepKey and Lock do not take it and fall in between.          *)
(***************************************************************************)
EXTENDS Integers, FiniteSetsExt, Functions

CONSTANTS Client,      \* owners of a CReserveKey: the miner, senders of transactions
          TargetSize,  \* -keypool
          RefillSize,  \* the sizes keypoolrefill is called with
          Passphrase,
          Builtin,     \* the passphrase init.cpp sets up and opens a wallet with
          MaxKeys,     \* bound on the counter of the HD chain
          MaxMaster    \* bound on the first runs

VARIABLES disk,       \* the wallet database
          mem,        \* the key store and setKeyPool
          job,        \* the operation that holds cs_wallet
          res,        \* the reserved key of each client
          used,       \* history: the keys handed out for good
          clobbered   \* history: a pool record was written over a reserved one

vars == <<disk, mem, job, res, used, clobbered>>

ASSUME WalletAssumption ==
  /\ Client \cap {"none", "setup", "get", "refill", "unlock", "change"} = {}   \* the other operations
  /\ TargetSize \in Nat
  /\ RefillSize \subseteq Nat \ {0}
  /\ Builtin \in Passphrase
  /\ MaxKeys \in Nat
  /\ MaxMaster \in Nat

\* Master keys are numbered as mapMasterKeys is; 0 is an empty vMasterKey. The
\* key <<m, 0>> is the HD master key made with master key m, <<m, n>> its child n.
Master == 1..MaxMaster
Key    == Master \X Nat
NoKey  == <<0, 0>>

\* A CReserveKey with nIndex = -1.
NoRes == [index |-> 0, key |-> NoKey]
Idle  == [op |-> "none", pc |-> "none", next |-> "none", target |-> 0, index |-> 0, key |-> NoKey,
          pass |-> Builtin, relock |-> FALSE]
Down  == [up |-> FALSE, vMasterKey |-> 0, checked |-> FALSE, keys |-> [k \in {} |-> 0], setKeyPool |-> {}]

Put(f, k, v) == [x \in DOMAIN f \cup {k} |-> IF x = k THEN v ELSE f[x]]
Drop(f, k)   == [x \in DOMAIN f \ {k} |-> f[x]]

Locked == mem.vMasterKey = 0

Init ==
  /\ disk = [mkey |-> [m \in {} |-> Builtin], ckey |-> [k \in {} |-> 0], hdchain |-> [master |-> 0, counter |-> 0],
             pool |-> [i \in {} |-> NoKey], defaultkey |-> FALSE, seedhash |-> 0, dzs |-> {}]
  /\ mem = Down
  /\ job = Idle
  /\ res = [c \in Client |-> NoRes]
  /\ used = {}
  /\ clobbered = FALSE

-----------------------------------------------------------------------------
(* Opening the wallet. *)

\* What CCryptoKeyStore::Unlock makes of a master key, when first is the first
\* key of mapCryptedKeys: after a thorough check it looks at that one only.
Tried(m, keys, first, checked) ==
  IF keys[first] # m THEN "fail"
  ELSE IF checked \/ Range(keys) = {m} THEN "pass"
  ELSE "assert"

\* CWallet::Unlock tries the master keys in their order.
Opening(p, keys, first, checked) ==
  LET hits == {m \in DOMAIN disk.mkey : disk.mkey[m] = p /\ Tried(m, keys, first, checked) # "fail"}
  IN IF hits = {} THEN [how |-> "fail", master |-> 0]
     ELSE [how |-> Tried(Min(hits), keys, first, checked), master |-> Min(hits)]

\* Unlock with an answer that passes: without a seed for zerocoins, the hash of a
\* new one is written first and the seed itself in the next step; otherwise the
\* seed has to be there, and when it is not Unlock fails with the key set.
SeedMissing(m) == disk.seedhash # 0 /\ ~(disk.seedhash = m /\ m \in disk.dzs)

Opened(m, keys, pool, then) ==
  /\ mem' = [up |-> TRUE, vMasterKey |-> m, checked |-> TRUE, keys |-> keys, setKeyPool |-> pool]
  /\ IF disk.seedhash = 0
     THEN /\ disk' = [disk EXCEPT !.seedhash = disk.hdchain.master]
          /\ job' = [then EXCEPT !.op = "unlock", !.pc = "seed", !.next = then.pc]
     ELSE /\ job' = IF SeedMissing(m) THEN Idle ELSE then
          /\ UNCHANGED disk

\* WriteZKPSeed, second record.
WriteSeed ==
  /\ job.pc = "seed"
  /\ disk' = [disk EXCEPT !.dzs = @ \cup {disk.seedhash}]
  /\ job' = IF job.next = "none" THEN Idle ELSE [job EXCEPT !.pc = job.next, !.next = "none"]
  /\ UNCHANGED <<mem, res, used, clobbered>>

\* A start, with LoadWallet. A wallet without a default key is a new one;
\* another one is opened with the built-in passphrase, or the node stops.
StartNew ==
  /\ ~mem.up
  /\ ~disk.defaultkey
  /\ mem' = [Down EXCEPT !.up = TRUE, !.keys = disk.ckey, !.setKeyPool = DOMAIN disk.pool]
  /\ job' = [Idle EXCEPT !.op = "setup", !.pc = "mkey"]
  /\ UNCHANGED <<disk, res, used, clobbered>>

StartOld ==
  /\ ~mem.up
  /\ disk.defaultkey
  /\ \E first \in DOMAIN disk.ckey :
       LET o == Opening(Builtin, disk.ckey, first, FALSE) IN
       /\ o.how = "pass"
       /\ ~SeedMissing(o.master)
       /\ Opened(o.master, disk.ckey, DOMAIN disk.pool, Idle)
  /\ UNCHANGED <<res, used, clobbered>>

\* The end of the process, wanted or not.
Crash ==
  /\ mem.up
  /\ mem' = Down
  /\ job' = Idle
  /\ res' = [c \in Client |-> NoRes]
  /\ clobbered' = FALSE
  /\ UNCHANGED <<disk, used>>

-----------------------------------------------------------------------------
(* The first run: SetupCrypter, GetKeyFromPool and SetDefaultKey. *)

SetupMasterKey ==
  LET m == Max({0} \cup DOMAIN disk.mkey) + 1 IN
  /\ job.pc = "mkey"
  /\ m \in Master
  /\ disk' = [disk EXCEPT !.mkey = Put(@, m, Builtin)]
  /\ mem' = [mem EXCEPT !.vMasterKey = m]
  /\ job' = [job EXCEPT !.pc = "hdkey"]
  /\ UNCHANGED <<res, used, clobbered>>

GenerateNewHDMasterKey ==
  LET k == <<mem.vMasterKey, 0>> IN
  /\ job.pc = "hdkey"
  /\ disk' = [disk EXCEPT !.ckey = Put(@, k, mem.vMasterKey)]
  /\ mem' = [mem EXCEPT !.keys = Put(@, k, mem.vMasterKey)]
  /\ job' = [job EXCEPT !.pc = "hdchain"]
  /\ UNCHANGED <<res, used, clobbered>>

SetHDMasterKey ==
  /\ job.pc = "hdchain"
  /\ disk' = [disk EXCEPT !.hdchain = [master |-> mem.vMasterKey, counter |-> 0]]
  /\ job' = [job EXCEPT !.pc = "erase"]
  /\ UNCHANGED <<mem, res, used, clobbered>>

\* NewKeyPool erases what an unfinished first run left, record by record. Its new
\* keys are numbered as those of TopUpKeyPool, which adds one more.
NewKeyPoolKeepsSet ==
  /\ job.pc = "erase"
  /\ LET left == mem.setKeyPool \cap DOMAIN disk.pool IN
     IF left # {}
     THEN disk' = [disk EXCEPT !.pool = Drop(@, Min(left))] /\ UNCHANGED job
     ELSE job' = [job EXCEPT !.pc = "loop", !.target = TargetSize] /\ UNCHANGED disk
  /\ UNCHANGED <<mem, res, used, clobbered>>
NewKeyPool ==
  /\ job.pc = "erase"
  /\ LET left == mem.setKeyPool \cap DOMAIN disk.pool IN
     IF left # {}
     THEN disk' = [disk EXCEPT !.pool = Drop(@, Min(left))] /\ UNCHANGED <<mem, job>>
     ELSE /\ mem' = [mem EXCEPT !.setKeyPool = {}]
          /\ job' = [job EXCEPT !.pc = "loop", !.target = TargetSize]
          /\ UNCHANGED disk
  /\ UNCHANGED <<res, used, clobbered>>

SetDefaultKey ==
  /\ job.pc = "default"
  /\ disk' = [disk EXCEPT !.defaultkey = TRUE]
  /\ job' = Idle
  /\ UNCHANGED <<mem, res, used, clobbered>>

-----------------------------------------------------------------------------
(* Users of the pool. *)

\* An operation takes cs_wallet; TopUpKeyPool does nothing in a locked wallet.
Begin(op, target) ==
  /\ mem.up
  /\ job = Idle
  /\ job' = [Idle EXCEPT !.op = op, !.pc = IF Locked THEN "take" ELSE "loop", !.target = target]
  /\ UNCHANGED <<disk, mem, res, used, clobbered>>

\* GetReservedKey keeps the key it already has.
GetReservedKey(c) == res[c] = NoRes /\ Begin(c, TargetSize)
GetKeyFromPool    == Begin("get", TargetSize)
keypoolrefill     == ~Locked /\ \E n \in RefillSize : Begin("refill", n)

\* TopUpKeyPool, one key: DeriveNewChildKey ...
Decrypts(k) == ~Locked /\ k \in DOMAIN mem.keys /\ mem.keys[k] = mem.vMasterKey

Derive ==
  /\ job.pc = "loop"
  /\ Cardinality(mem.setKeyPool) <= job.target
  /\ disk.hdchain.counter < MaxKeys
  /\ IF ~Decrypts(<<disk.hdchain.master, 0>>)
     THEN job' = Idle /\ UNCHANGED disk        \* throws "Master key not found"
     ELSE LET n == Min({i \in disk.hdchain.counter + 1 .. MaxKeys + 1 :
                          <<disk.hdchain.master, i>> \notin DOMAIN mem.keys})
          IN /\ disk' = [disk EXCEPT !.hdchain.counter = n]
             /\ job' = [job EXCEPT !.pc = "add", !.key = <<disk.hdchain.master, n>>]
  /\ UNCHANGED <<mem, res, used, clobbered>>

\* ... AddKeyPubKeyWithDB, which encrypts it under the master key of the moment ...
AddKeyUnchecked ==
  /\ job.pc = "add"
  /\ disk' = [disk EXCEPT !.ckey = Put(@, job.key, mem.vMasterKey)]
  /\ mem' = [mem EXCEPT !.keys = Put(@, job.key, mem.vMasterKey)]
  /\ job' = [job EXCEPT !.pc = "pool"]
  /\ UNCHANGED <<res, used, clobbered>>
AddKeyInMemory ==
  /\ job.pc = "add"
  /\ mem' = [mem EXCEPT !.keys = Put(@, job.key, mem.vMasterKey)]
  /\ job' = [job EXCEPT !.pc = "pool"]
  /\ UNCHANGED <<disk, res, used, clobbered>>
AddKey ==
  /\ job.pc = "add"
  /\ IF Locked
     THEN job' = Idle /\ UNCHANGED <<disk, mem>>   \* throws "AddKey failed"
     ELSE /\ disk' = [disk EXCEPT !.ckey = Put(@, job.key, mem.vMasterKey)]
          /\ mem' = [mem EXCEPT !.keys = Put(@, job.key, mem.vMasterKey)]
          /\ job' = [job EXCEPT !.pc = "pool"]
  /\ UNCHANGED <<res, used, clobbered>>

\* ... and WritePool, after the largest index in setKeyPool.
WritePool ==
  LET i == Max({0} \cup mem.setKeyPool) + 1 IN
  /\ job.pc = "pool"
  /\ disk' = [disk EXCEPT !.pool = Put(@, i, job.key)]
  /\ mem' = [mem EXCEPT !.setKeyPool = @ \cup {i}]
  /\ job' = [job EXCEPT !.pc = "loop", !.key = NoKey]
  /\ clobbered' = (clobbered \/ \E c \in Client : res[c].index = i)
  /\ UNCHANGED <<res, used>>

\* The pool is full.
Refilled ==
  /\ job.pc = "loop"
  /\ Cardinality(mem.setKeyPool) > job.target
  /\ job' = IF job.op \in {"refill", "unlock"} THEN Idle ELSE [job EXCEPT !.pc = "take"]
  /\ UNCHANGED <<disk, mem, res, used, clobbered>>

\* ReserveKeyFromKeyPool takes the oldest key. When it throws, a CReserveKey
\* returns the index as it is destroyed; GetKeyFromPool leaves it out of setKeyPool.
Readable(i) == i \in DOMAIN disk.pool /\ disk.pool[i] \in DOMAIN mem.keys

Take ==
  /\ job.pc = "take"
  /\ IF mem.setKeyPool = {}
     THEN job' = Idle /\ UNCHANGED <<mem, res>>
     ELSE LET i == Min(mem.setKeyPool) IN
          IF job.op \in Client
          THEN /\ job' = Idle
               /\ IF Readable(i)
                  THEN /\ mem' = [mem EXCEPT !.setKeyPool = @ \ {i}]
                       /\ res' = [res EXCEPT ![job.op] = [index |-> i, key |-> disk.pool[i]]]
                  ELSE UNCHANGED <<mem, res>>
          ELSE /\ mem' = [mem EXCEPT !.setKeyPool = @ \ {i}]
               /\ job' = IF Readable(i) THEN [job EXCEPT !.pc = "keep", !.index = i, !.key = disk.pool[i]]
                         ELSE Idle
               /\ UNCHANGED res
  /\ UNCHANGED <<disk, used, clobbered>>

\* KeepKey: the key is the caller's from here on.
Keep(i, k) ==
  /\ disk' = [disk EXCEPT !.pool = Drop(@, i)]
  /\ used' = used \cup {k}

KeepTaken ==
  /\ job.pc = "keep"
  /\ Keep(job.index, job.key)
  /\ job' = IF job.op = "setup" THEN [job EXCEPT !.pc = "default"] ELSE Idle
  /\ UNCHANGED <<mem, res, clobbered>>

KeepKey(c) ==
  /\ res[c] # NoRes
  /\ Keep(res[c].index, res[c].key)
  /\ res' = [res EXCEPT ![c] = NoRes]
  /\ UNCHANGED <<mem, job, clobbered>>

ReturnKeyForgets(c) ==
  /\ res[c] # NoRes
  /\ job = Idle
  /\ mem' = [mem EXCEPT !.setKeyPool = @ \cup {res[c].index}]
  /\ UNCHANGED <<disk, job, res, used, clobbered>>
ReturnKey(c) ==
  /\ res[c] # NoRes
  /\ job = Idle
  /\ mem' = [mem EXCEPT !.setKeyPool = @ \cup {res[c].index}]
  /\ res' = [res EXCEPT ![c] = NoRes]
  /\ UNCHANGED <<disk, job, used, clobbered>>

-----------------------------------------------------------------------------
(* Locking. *)

\* CCryptoKeyStore::Lock, from walletlock, the timer of walletpassphrase or the
\* window: it waits for cs_KeyStore only, which Unlock holds while it writes.
\* Nobody calls it during the first run.
Lock ==
  /\ mem.up
  /\ ~Locked
  /\ job.op # "setup"
  /\ job.pc # "seed"
  /\ mem' = [mem EXCEPT !.vMasterKey = 0]
  /\ UNCHANGED <<disk, job, res, used, clobbered>>

\* walletpassphrase with the right passphrase: Unlock and TopUpKeyPool.
walletpassphrase(p) ==
  /\ mem.up
  /\ job = Idle
  /\ Locked
  /\ \E first \in DOMAIN mem.keys :
       LET o == Opening(p, mem.keys, first, mem.checked) IN
       /\ o.how = "pass"
       /\ Opened(o.master, mem.keys, mem.setKeyPool, [Idle EXCEPT !.op = "unlock", !.pc = "loop", !.target = TargetSize])
  /\ UNCHANGED <<res, used, clobbered>>

\* An Unlock that meets keys of two master keys ends the process, at a start too.
UnlockAborts(p) ==
  /\ mem.up
  /\ job = Idle
  /\ Locked
  /\ \E first \in DOMAIN mem.keys : Opening(p, mem.keys, first, mem.checked).how = "assert"
  /\ mem' = Down
  /\ res' = [c \in Client |-> NoRes]
  /\ clobbered' = FALSE
  /\ UNCHANGED <<disk, job, used>>

\* ChangeWalletPassphrase locks the wallet, opens it again with the old passphrase
\* and encrypts the master key anew. Unlike Unlock it gives up at the first master
\* key the passphrase is wrong for, and leaves the wallet locked.
Changing(p, first) ==
  LET stop == {m \in DOMAIN disk.mkey : disk.mkey[m] # p \/ Tried(m, mem.keys, first, mem.checked) # "fail"}
  IN IF stop = {} \/ disk.mkey[Min(stop)] # p THEN [how |-> "fail", master |-> 0]
     ELSE [how |-> Tried(Min(stop), mem.keys, first, mem.checked), master |-> Min(stop)]

ChangeWalletPassphrase(old, new) ==
  /\ mem.up
  /\ job = Idle
  /\ \E first \in DOMAIN mem.keys :
       LET o == Changing(old, first) IN
       \/ /\ o.how = "pass"
          /\ Opened(o.master, mem.keys, mem.setKeyPool,
                    [Idle EXCEPT !.op = "change", !.pc = "rekey", !.index = o.master, !.pass = new, !.relock = Locked])
          /\ UNCHANGED <<res, used, clobbered>>
       \/ /\ o.how = "fail"
          /\ mem' = [mem EXCEPT !.vMasterKey = 0]
          /\ UNCHANGED <<disk, job, res, used, clobbered>>

WriteMasterKey ==
  /\ job.pc = "rekey"
  /\ disk' = [disk EXCEPT !.mkey[job.index] = job.pass]
  /\ mem' = [mem EXCEPT !.vMasterKey = IF job.relock THEN 0 ELSE @]
  /\ job' = Idle
  /\ UNCHANGED <<res, used, clobbered>>

Next ==
  \/ StartNew \/ StartOld \/ Crash
  \/ SetupMasterKey \/ GenerateNewHDMasterKey \/ SetHDMasterKey \/ NewKeyPool \/ SetDefaultKey
  \/ GetKeyFromPool \/ keypoolrefill
  \/ Derive \/ AddKey \/ WritePool \/ Refilled \/ Take \/ KeepTaken \/ WriteSeed
  \/ \E c \in Client : GetReservedKey(c) \/ KeepKey(c) \/ ReturnKey(c)
  \/ Lock
  \/ \E p \in Passphrase : walletpassphrase(p) \/ UnlockAborts(p)
  \/ \E old, new \in Passphrase : ChangeWalletPassphrase(old, new)
  \/ WriteMasterKey

Spec == Init /\ [][Next]_vars
-----------------------------------------------------------------------------
(* Properties. *)

KeySet == Key \cup {NoKey}
Job == [op : {"none", "setup", "get", "refill", "unlock", "change"} \cup Client,
        pc : {"none", "mkey", "hdkey", "hdchain", "erase", "loop", "add", "pool", "take", "keep", "default", "seed", "rekey"},
        next : {"none", "loop", "rekey"}, target : Nat, index : Nat, key : KeySet, pass : Passphrase, relock : BOOLEAN]

TypeOK ==
  /\ DOMAIN disk.mkey \subseteq Master /\ Range(disk.mkey) \subseteq Passphrase
  /\ DOMAIN disk.ckey \subseteq Key /\ Range(disk.ckey) \subseteq 0..MaxMaster
  /\ disk.hdchain \in [master : 0..MaxMaster, counter : Nat]
  /\ DOMAIN disk.pool \subseteq Nat \ {0} /\ Range(disk.pool) \subseteq Key
  /\ disk.seedhash \in 0..MaxMaster /\ disk.dzs \subseteq Master
  /\ mem.vMasterKey \in 0..MaxMaster /\ mem.setKeyPool \subseteq Nat \ {0}
  /\ job \in Job
  /\ res \in [Client -> [index : Nat, key : KeySet]]
  /\ used \subseteq Key

\* The keys handed to somebody who has not decided yet.
InHand == {c \in Client : res[c] # NoRes}

\* "Take key pair from key pool so it won't be used again": no key is in two
\* hands, none in hand is offered again and none that was kept is, over restarts
\* too. The exception is a pool that was emptied with a key in hand (by a locked
\* wallet, or with -keypool=0): TopUpKeyPool then numbers from 1 and writes over
\* that key's record.
KeyHandedOnce ==
  ~clobbered =>
    /\ \A c, d \in InHand : c # d => res[c].key # res[d].key
    /\ \A c \in InHand : res[c].index \notin mem.setKeyPool /\ res[c].key \notin used
    /\ job.pc = "keep" => job.key \notin used \cup {res[c].key : c \in InHand}

\* ReserveKeyFromKeyPool never throws "read failed" or "unknown key in key pool":
\* what setKeyPool names is in the database, whatever KeepKey and ReturnKey of
\* other threads do meanwhile. The same exception, and the first run, which clears
\* what it finds.
PoolReadable == ~clobbered /\ job.op # "setup" => \A i \in mem.setKeyPool : Readable(i)

\* A key that was kept is out of the pool of every later process: KeepKey erases
\* the record before the key is used, so no crash brings it back.
UsedIsGone == \A i \in DOMAIN disk.pool : disk.pool[i] \notin used

\* Money sent to a key the wallet gave away can be spent: the key is in the
\* database before anybody gets it.
GivenKeysStored == used \cup {res[c].key : c \in InHand} \subseteq DOMAIN disk.ckey

\* A start (or walletpassphrase) with passphrase p opens the wallet.
Opens(d, p) ==
  \E m \in DOMAIN d.mkey :
    /\ d.mkey[m] = p
    /\ Range(d.ckey) = {m}
    /\ <<m, 0>> \in DOMAIN d.ckey /\ d.hdchain.master = m
    /\ d.seedhash = 0 \/ (d.seedhash = m /\ m \in d.dzs)

\* A wallet that was set up and opened once can be opened for ever: no crash and
\* no Lock in the middle of an operation leaves keys that its passphrase does not
\* decrypt.
StaysOpenable ==
  [][disk.defaultkey /\ disk.dzs # {} /\ (\E p \in Passphrase : Opens(disk, p))
       => \E p \in Passphrase : Opens(disk', p)]_vars

\* CCryptoKeyStore::Unlock, "The wallet is probably corrupted: Some keys decrypt
\* but not all", followed by assert(false): a wallet the node itself has written
\* is never in that state.
DecryptsAllOrNone ==
  disk.defaultkey =>
    \A m \in DOMAIN disk.mkey : {k \in DOMAIN disk.ckey : disk.ckey[k] = m} \in {{}, DOMAIN disk.ckey}
=============================================================================
