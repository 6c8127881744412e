------------------------------ MODULE Startup -------------------------------
(***************************************************************************)
(* Start-up of the relay (async_main of src/main.rs) over the files of its *)
(* data directory: relay-state.json with the signing keys and, in installs *)
(* from before the database, all mailboxes, bundles and queued envelopes;  *)
(* the relay-key file; and the redb tables they migrate to                 *)
(* (src/persistence.rs, src/meta_store.rs).  The process, or the machine,  *)
(* may stop between any two steps, and the operator may change the secret  *)
(* while it is down.                                                       *)
(*                                                                         *)
(* The contents of a mailbox, bundle or envelope are opaque here.  What is *)
(* drawn at random (a trust root, a relay-key) is a number nothing holds.  *)
(***************************************************************************)
EXTENDS Integers, FiniteSets

CONSTANTS
  Mailbox, Bundle, Envelope,     \* what an old relay-state.json holds
  Secret,                        \* secrets the operator may configure
  None,                          \* no file, no key, variable not set
  Empty,                         \* a key file without contents
  MaxStops,                      \* bound on crashes and failed steps
  MaxChanges                     \* bound on the operator's interventions

ASSUME BoundAssumption == MaxStops \in Nat /\ MaxChanges \in Nat
ASSUME SetsAssumption ==
  /\ None \notin Secret \cup Nat /\ Empty \notin Secret \cup Nat /\ None # Empty
  /\ Secret \cap Nat = {}

EncryptedKeys == [root : Nat, secret : Secret \cup Nat]
DiskStates ==
  [crypto : Nat \cup {None}, encrypted_crypto : EncryptedKeys \cup {None},
   auth : SUBSET Mailbox, bundles : SUBSET Bundle, queues : SUBSET Envelope]
ASSUME NoneAssumption == None \notin DiskStates /\ None \notin EncryptedKeys

VARIABLES
  state_file,     \* relay-state.json: a DiskState or None
  synced,         \* relay-state.json as it would be after a power loss
  key_file,       \* relay-key: None, Empty or its secret
  db,             \* the tables: [auth, bundles, queue]
  env,            \* the operator's AXENO_KEY and AXENO_KEY_FILE
  expired,        \* bundles past their expiry
  pc,             \* step of the process, "down" when there is none
  mem,            \* the DiskState being worked on
  key,            \* the secret relay_encryption_key returned
  stops, changes,
  swallowed,      \* history: I/O errors that went unnoticed (see Fault)
  served,         \* history: trust roots clients have been given
  gone            \* history: mailboxes, bundles and envelopes removed while serving

files == <<state_file, synced, key_file>>
process == <<pc, mem, key>>
history == <<swallowed, served, gone>>
bounds == <<stops, changes>>
vars == <<files, db, env, expired, process, bounds, history>>

DiskState(crypto, encrypted, auth, bundles, queues) ==
  [crypto |-> crypto, encrypted_crypto |-> encrypted,
   auth |-> auth, bundles |-> bundles, queues |-> queues]
NoState == DiskState(None, None, {}, {}, {})

Blob(root, secret) == [root |-> root, secret |-> secret]

(* 32 random bytes. *)
Held(f) ==
  IF f = None THEN {}
  ELSE {f.crypto} \cup (IF f.encrypted_crypto = None THEN {}
                        ELSE {f.encrypted_crypto.root, f.encrypted_crypto.secret})
InUse == served \cup {key_file} \cup Held(state_file) \cup Held(synced) \cup Held(mem)
Fresh == CHOOSE n \in 0 .. Cardinality(InUse) : n \notin InUse

(* I/O errors the code takes for something else, each at most once:        *)
(* stat      path.exists() of relay-state.json says no                     *)
(* key_read  relay-key cannot be read and is taken to be missing           *)
(* enqueue   an envelope does not migrate                                  *)
(* dir_sync  the directory is not synced after the rename                  *)
Fault == {"stat", "key_read", "enqueue", "dir_sync"}
Swallow(f) ==
  /\ f \notin swallowed /\ stops < MaxStops
  /\ swallowed' = swallowed \cup {f}
  /\ stops' = stops + 1

Stop == pc' = "down" /\ mem' = NoState /\ key' = None

Goto(from, to) == pc = from /\ pc' = to

-----------------------------------------------------------------------------
Start ==
  /\ Goto("down", "load")
  /\ UNCHANGED <<files, db, env, expired, mem, key, bounds, history>>

LoadAbsent ==
  /\ Goto("load", "init")
  /\ state_file = None
  /\ UNCHANGED <<files, db, env, expired, mem, key, bounds, history>>

LoadUnseen ==
  /\ Goto("load", "init")
  /\ state_file # None
  /\ Swallow("stat")
  /\ UNCHANGED <<files, db, env, expired, mem, key, changes, served, gone>>

LoadPlain ==
  /\ Goto("load", "init")
  /\ state_file # None
  /\ state_file.encrypted_crypto = None
  /\ mem' = state_file
  /\ UNCHANGED <<files, db, env, expired, key, bounds, history>>

LoadEncrypted ==
  /\ Goto("load", "load_key")
  /\ state_file # None
  /\ state_file.encrypted_crypto # None
  /\ mem' = state_file
  /\ UNCHANGED <<files, db, env, expired, key, bounds, history>>

(* relay_encryption_key, called once to load and once to persist.          *)
Resolving == pc \in {"load_key", "save_key"}
Resolved == pc' = IF pc = "load_key" THEN "decrypt" ELSE "save"

KeyFromEnv ==
  /\ Resolving /\ Resolved
  /\ env.AXENO_KEY # None
  /\ key' = env.AXENO_KEY
  /\ UNCHANGED <<files, db, env, expired, mem, bounds, history>>

KeyFromFile ==
  /\ Resolving /\ Resolved
  /\ env.AXENO_KEY = None
  /\ env.AXENO_KEY_FILE \in Secret
  /\ key' = env.AXENO_KEY_FILE
  /\ UNCHANGED <<files, db, env, expired, mem, bounds, history>>

(* A configured key file that cannot be read, or is empty, ends the start. *)
KeyFileBad ==
  /\ Resolving
  /\ env.AXENO_KEY = None
  /\ env.AXENO_KEY_FILE = Empty
  /\ Stop
  /\ UNCHANGED <<files, db, env, expired, bounds, history>>

Unconfigured == env.AXENO_KEY = None /\ env.AXENO_KEY_FILE = None

(* Mutant: an existing relay-key is replaced by a new one. *)
KeyFromRelayKey_mutant ==
  /\ Resolving /\ Resolved
  /\ Unconfigured
  /\ key_file \notin {None, Empty}
  /\ key' = Fresh /\ key_file' = Fresh
  /\ UNCHANGED <<state_file, synced, db, env, expired, mem, bounds, history>>

KeyFromRelayKey ==
  /\ Resolving /\ Resolved
  /\ Unconfigured
  /\ key_file \notin {None, Empty}
  /\ key' = key_file
  /\ UNCHANGED <<files, db, env, expired, mem, bounds, history>>

(* open(truncate), then write_all and sync_all: a stop in between leaves   *)
(* an empty file.                                                          *)
GeneratingPC == IF pc = "load_key" THEN "load_key_write" ELSE "save_key_write"

(* Mutant: create_new, which an empty file left by a stop makes fail. *)
KeyGenerate_mutant ==
  /\ Resolving
  /\ Unconfigured
  /\ key_file = None
  /\ key_file' = Empty
  /\ pc' = GeneratingPC
  /\ UNCHANGED <<state_file, synced, db, env, expired, mem, key, bounds, history>>

KeyGenerate ==
  /\ Resolving
  /\ Unconfigured
  /\ key_file \in {None, Empty}
  /\ key_file' = Empty
  /\ pc' = GeneratingPC
  /\ UNCHANGED <<state_file, synced, db, env, expired, mem, key, bounds, history>>

(* read_to_string fails: the file is taken to be missing and is truncated. *)
KeyUnread ==
  /\ Resolving
  /\ Unconfigured
  /\ key_file \notin {None, Empty}
  /\ key_file' = Empty
  /\ pc' = GeneratingPC
  /\ Swallow("key_read")
  /\ UNCHANGED <<state_file, synced, db, env, expired, mem, key, changes, served, gone>>

KeyWrite ==
  /\ pc \in {"load_key_write", "save_key_write"}
  /\ pc' = IF pc = "load_key_write" THEN "decrypt" ELSE "save"
  /\ key_file' = Fresh
  /\ key' = Fresh
  /\ UNCHANGED <<state_file, synced, db, env, expired, mem, bounds, history>>

(* Mutant: keys that do not decrypt are drawn anew. *)
Decrypt_mutant ==
  /\ Goto("decrypt", "init")
  /\ mem' = [mem EXCEPT !.crypto = IF mem.encrypted_crypto.secret = key
                                   THEN mem.encrypted_crypto.root ELSE None]
  /\ key' = None
  /\ UNCHANGED <<files, db, env, expired, bounds, history>>

Decrypt ==
  /\ Goto("decrypt", "init")
  /\ mem.encrypted_crypto.secret = key
  /\ mem' = [mem EXCEPT !.crypto = mem.encrypted_crypto.root]
  /\ key' = None
  /\ UNCHANGED <<files, db, env, expired, bounds, history>>

DecryptFails ==
  /\ pc = "decrypt"
  /\ mem.encrypted_crypto.secret # key
  /\ Stop
  /\ UNCHANGED <<files, db, env, expired, bounds, history>>

-----------------------------------------------------------------------------
(* init_server_crypto and prune_disk_state, both in memory. *)
(* Mutant: generated keys are not put into the state to persist. *)
InitCrypto_mutant ==
  /\ Goto("init", "queues")
  /\ mem' = [mem EXCEPT !.bundles = @ \ expired]
  /\ UNCHANGED <<files, db, env, expired, key, bounds, history>>

InitCrypto ==
  /\ Goto("init", "queues")
  /\ mem' = [mem EXCEPT !.crypto = IF @ = None THEN Fresh ELSE @, !.bundles = @ \ expired]
  /\ UNCHANGED <<files, db, env, expired, key, bounds, history>>

(* One transaction per envelope; a repeated one replaces its row. *)
MigrateEnvelope(e) ==
  /\ pc = "queues"
  /\ e \in mem.queues
  /\ mem' = [mem EXCEPT !.queues = @ \ {e}]
  /\ db' = [db EXCEPT !.queue = @ \cup {e}]
  /\ UNCHANGED <<files, env, expired, pc, key, bounds, history>>

(* let _ = queues.enqueue(..): a failure is not noticed. *)
MigrateEnvelopeFails(e) ==
  /\ pc = "queues"
  /\ e \in mem.queues
  /\ mem' = [mem EXCEPT !.queues = @ \ {e}]
  /\ Swallow("enqueue")
  /\ UNCHANGED <<files, db, env, expired, pc, key, changes, served, gone>>

QueuesMigrated ==
  /\ Goto("queues", "auth")
  /\ mem.queues = {}
  /\ UNCHANGED <<files, db, env, expired, mem, key, bounds, history>>

(* One transaction each, and only into an empty table. *)
MigrateAuth ==
  /\ Goto("auth", "bundles")
  /\ db' = [db EXCEPT !.auth = IF @ = {} THEN mem.auth ELSE @]
  /\ UNCHANGED <<files, env, expired, mem, key, bounds, history>>

(* Mutant: the bundles are taken to migrate later. *)
MigrateBundles_mutant ==
  /\ Goto("bundles", "save_key")
  /\ UNCHANGED <<files, db, env, expired, mem, key, bounds, history>>

MigrateBundles ==
  /\ Goto("bundles", "save_key")
  /\ db' = [db EXCEPT !.bundles = IF @ = {} THEN mem.bundles ELSE @]
  /\ UNCHANGED <<files, env, expired, mem, key, bounds, history>>

(* Mutant: the migrated lists stay in the file. *)
Persisted_mutant ==
  DiskState(None, Blob(mem.crypto, key), mem.auth, mem.bundles, mem.queues)

Persisted == DiskState(None, Blob(mem.crypto, key), {}, {}, {})

(* The rename over the old file; before it only a temporary is written.    *)
SaveRename ==
  /\ Goto("save", "sync")
  /\ state_file' = Persisted
  /\ UNCHANGED <<synced, key_file, db, env, expired, mem, key, bounds, history>>

(* The directory is synced; AppState::build, the tasks and the listener.   *)
Serve ==
  /\ Goto("sync", "serving")
  /\ synced' = state_file
  /\ served' = served \cup {mem.crypto}
  /\ mem' = NoState /\ key' = None
  /\ UNCHANGED <<state_file, key_file, db, env, expired, bounds, swallowed, gone>>

(* let _ = dir.sync_all(): a failure is not noticed. *)
ServeUnsynced ==
  /\ Goto("sync", "serving")
  /\ served' = served \cup {mem.crypto}
  /\ mem' = NoState /\ key' = None
  /\ Swallow("dir_sync")
  /\ UNCHANGED <<files, db, env, expired, changes, gone>>

-----------------------------------------------------------------------------
(* While serving, a mailbox is retired or collected, an envelope is acked  *)
(* or expires, an expired bundle is pruned; the other modules say how.     *)
Remove(x) ==
  /\ pc = "serving"
  /\ x \in db.auth \cup db.queue \cup (db.bundles \cap expired)
  /\ db' = [auth |-> db.auth \ {x}, queue |-> db.queue \ {x}, bundles |-> db.bundles \ {x}]
  /\ gone' = gone \cup {x}
  /\ UNCHANGED <<files, env, expired, process, bounds, swallowed, served>>

Expire(b) ==
  /\ b \notin expired
  /\ expired' = expired \cup {b}
  /\ UNCHANGED <<files, db, env, process, bounds, history>>

(* The process is killed, or any step returns an error the code passes on. *)
Crash ==
  /\ pc # "down"
  /\ stops < MaxStops
  /\ stops' = stops + 1
  /\ Stop
  /\ UNCHANGED <<files, db, env, expired, changes, history>>

(* The machine stops: the last rename may be undone. *)
PowerLoss ==
  /\ pc # "down"
  /\ stops < MaxStops
  /\ stops' = stops + 1
  /\ Stop
  /\ state_file' = synced
  /\ UNCHANGED <<synced, key_file, db, env, expired, changes, history>>

Config == [AXENO_KEY : Secret \cup {None}, AXENO_KEY_FILE : Secret \cup {None, Empty}]

Reconfigure(e) ==
  /\ pc = "down"
  /\ changes < MaxChanges
  /\ changes' = changes + 1
  /\ env' = e
  /\ UNCHANGED <<files, db, expired, process, stops, history>>

(* "Rotate a compromised key" of the README: the state and key files are   *)
(* deleted while the relay is down.                                        *)
Rotate ==
  /\ pc = "down"
  /\ changes < MaxChanges
  /\ changes' = changes + 1
  /\ state_file' = None /\ synced' = None /\ key_file' = None
  /\ served' = {}
  /\ UNCHANGED <<db, env, expired, process, stops, swallowed, gone>>

-----------------------------------------------------------------------------
(* A fresh install, an old one with its keys in plaintext, and one with    *)
(* its keys encrypted under the secret configured now.                     *)
Init ==
  /\ env \in {e \in Config : e.AXENO_KEY_FILE # Empty}
  /\ \/ state_file = None
     \/ state_file = DiskState(0, None, Mailbox, Bundle, Envelope)
     \/ /\ env.AXENO_KEY # None
        /\ state_file = DiskState(None, Blob(0, env.AXENO_KEY), Mailbox, Bundle, Envelope)
  /\ synced = state_file
  /\ served = IF state_file = None THEN {} ELSE {0}
  /\ key_file = None
  /\ db = [auth |-> {}, bundles |-> {}, queue |-> {}]
  /\ expired = {}
  /\ pc = "down" /\ mem = NoState /\ key = None
  /\ stops = 0 /\ changes = 0
  /\ swallowed = {} /\ gone = {}

Load == LoadAbsent \/ LoadUnseen \/ LoadPlain \/ LoadEncrypted \/ Decrypt \/ DecryptFails
ResolveKey ==
  \/ KeyFromEnv \/ KeyFromFile \/ KeyFileBad \/ KeyFromRelayKey
  \/ KeyGenerate \/ KeyUnread \/ KeyWrite
Migrate ==
  \/ \E e \in Envelope : MigrateEnvelope(e) \/ MigrateEnvelopeFails(e)
  \/ QueuesMigrated \/ MigrateAuth \/ MigrateBundles
Persist == SaveRename \/ Serve \/ ServeUnsynced

Step == Start \/ Load \/ ResolveKey \/ InitCrypto \/ Migrate \/ Persist

Next ==
  \/ Step
  \/ \E x \in Mailbox \cup Bundle \cup Envelope : Remove(x)
  \/ \E b \in Bundle : Expire(b)
  \/ Crash \/ PowerLoss
  \/ \E e \in Config : Reconfigure(e)
  \/ Rotate

Spec == Init /\ [][Next]_vars

(* The service manager starts the relay again, and a start goes on.        *)
LiveSpec == Spec /\ WF_vars(Step)

-----------------------------------------------------------------------------
PC == {"down", "load", "load_key", "load_key_write", "decrypt", "init", "queues", "auth",
       "bundles", "save_key", "save_key_write", "save", "sync", "serving"}

Tables == [auth : SUBSET Mailbox, bundles : SUBSET Bundle, queue : SUBSET Envelope]

(* Type invariant. *)
TypeOK ==
  /\ state_file \in DiskStates \cup {None} /\ synced \in DiskStates \cup {None}
  /\ key_file \in Nat \cup {None, Empty}
  /\ db \in Tables
  /\ env \in Config
  /\ expired \subseteq Bundle
  /\ pc \in PC /\ mem \in DiskStates /\ key \in Secret \cup Nat \cup {None}
  /\ stops \in 0 .. MaxStops /\ changes \in 0 .. MaxChanges
  /\ swallowed \subseteq Fault /\ served \subseteq Nat
  /\ gone \subseteq Mailbox \cup Bundle \cup Envelope
  /\ pc \in {"load_key", "load_key_write", "decrypt"} => mem.encrypted_crypto # None
  /\ pc \notin {"down", "load", "load_key", "load_key_write", "decrypt", "init", "serving"}
       => mem.crypto # None
  /\ pc \in {"decrypt", "save", "sync"} => key # None

NoFault(fs) == swallowed \cap fs = {}

(* The relay keeps its identity: until the operator rotates it, clients    *)
(* are never given a second trust root, whatever stops or fails during     *)
(* start-up and however the secret is configured in between, unless the    *)
(* state file was not seen, or was never synced.                           *)
TrustRootStable == NoFault({"stat", "dir_sync"}) => Cardinality(served) <= 1

(* "ensure the relay-key file in the data directory is intact": the relay  *)
(* does not overwrite the relay-key its own state file depends on, so the  *)
(* signing keys can always be decrypted with it or with a secret the       *)
(* operator has configured; only a relay-key that cannot be read is lost.  *)
KeysRecoverable ==
  NoFault({"key_read"}) =>
    \A f \in {state_file, synced} \ {None} :
      f.encrypted_crypto # None => f.encrypted_crypto.secret \in Secret \cup {key_file}

Kept(x) == x \in db.auth \cup db.bundles \cup db.queue
InFile(x) == state_file # None /\ x \in state_file.auth \cup state_file.bundles \cup state_file.queues

(* "their contents have already been migrated into the redb stores by the  *)
(* time this runs": what an old install holds stays in its file until it   *)
(* is in the tables, or was removed from them while the relay was serving, *)
(* wherever the start stops; only a file that was not seen or an enqueue   *)
(* that failed loses something.                                            *)
LegacyKept ==
  [][changes' = changes /\ NoFault({"stat", "enqueue"}) =>
       \A x \in Mailbox \cup Bundle \cup Envelope :
         InFile(x) => InFile(x)' \/ Kept(x)' \/ x \in expired \cup gone]_vars

(* "One-time migration": what was removed while the relay was serving does *)
(* not come back with a later start, unless an unsynced file does.         *)
NotResurrected == NoFault({"dir_sync"}) => \A x \in gone : ~Kept(x)

(* The secret the next start will use fits the state file. *)
RightKey ==
  state_file # None /\ state_file.encrypted_crypto # None =>
    state_file.encrypted_crypto.secret =
      CASE env.AXENO_KEY # None -> env.AXENO_KEY
        [] env.AXENO_KEY = None /\ env.AXENO_KEY_FILE # None -> env.AXENO_KEY_FILE
        [] Unconfigured -> key_file

(* A stop at any point leaves files from which a later start succeeds,     *)
(* provided that the operator ends up with the right secret configured.    *)
StartsAgain == <>[](RightKey /\ env.AXENO_KEY_FILE # Empty) => <>[](pc = "serving")
=============================================================================
