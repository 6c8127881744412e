--------------------------- MODULE StartupProofs ----------------------------
(***************************************************************************)
(* Proofs about Startup for any old install, any set of secrets, any number*)
(* of stops and any number of interventions by the operator: type          *)
(* correctness, the relay's identity, its relay-key, and the one-time      *)
(* migration of an old relay-state.json.                                   *)
(***************************************************************************)
EXTENDS Startup, FiniteSetTheorems, TLAPS

(* The trust root a state file stands for, and its lists once migrated.    *)
Root(f) == IF f.encrypted_crypto = None THEN f.crypto ELSE f.encrypted_crypto.root
Emptied(f) == f.auth = {} /\ f.bundles = {} /\ f.queues = {}
Bare(f) == f = None \/ Emptied(f)

(* A state file has keys, and the lists of the old install or none.        *)
FilesWhole ==
  \A f \in {state_file, synced} \ {None} :
    Root(f) # None /\ f.auth \in {{}, Mailbox} /\ f.bundles \in {{}, Bundle}

(* What the process has in memory, by its step.                            *)
MemoryTidy ==
  /\ pc \in {"down", "load", "serving"} => mem = NoState
  /\ pc \in {"load_key", "load_key_write", "decrypt"} => mem = state_file
  /\ pc = "sync" => state_file # None /\ Root(state_file) = mem.crypto /\ Emptied(state_file)
  /\ mem.auth \in {{}, Mailbox}
  /\ mem.bundles # {} => Bundle \subseteq mem.bundles \cup expired
UnsyncedEmptied == state_file = synced \/ (state_file # None /\ Emptied(state_file))

(* The tables hold what they were given, less what was removed.            *)
TablesWhole ==
  /\ db.auth # {} => Mailbox \subseteq db.auth \cup gone
  /\ db.bundles # {} => Bundle \subseteq db.bundles \cup gone \cup expired

Working == {"init", "queues", "auth", "bundles", "save_key", "save_key_write", "save"}

(* One root: that of the file, of the synced file, of the memory.          *)
RootsAgree ==
  NoFault({"stat", "dir_sync"}) =>
    /\ \A s \in served : /\ state_file # None /\ Root(state_file) = s
                         /\ synced # None /\ Root(synced) = s
    /\ pc \in Working /\ state_file # None => mem.crypto = Root(state_file)

(* The secret in use is a configured one or the relay-key as it is.        *)
KeyTidy ==
  /\ pc \in {"load_key_write", "save_key_write"} => key_file = Empty
  /\ pc \in {"decrypt", "save", "sync"} => key \in Secret \cup {key_file}

(* Once the relay has served, no file holds anything to migrate again.     *)
NothingLeft ==
  NoFault({"dir_sync"}) =>
    (gone # {} \/ pc = "serving" => Bare(state_file) /\ Bare(synced) /\ Emptied(mem))

(* How far the migration of the state file has come.                       *)
Progress ==
  NoFault({"stat", "enqueue"}) /\ state_file # None =>
    /\ pc \in {"init", "queues", "auth"} => mem.auth = state_file.auth
    /\ pc \in {"init", "queues", "auth", "bundles"} => state_file.bundles \subseteq mem.bundles \cup expired
    /\ pc \in {"init", "queues"} => state_file.queues \subseteq mem.queues \cup db.queue
    /\ pc \in Working \ {"init", "queues"} => state_file.queues \subseteq db.queue
    /\ pc \in Working \ {"init", "queues", "auth"} => state_file.auth \subseteq db.auth \cup gone
    /\ pc \in Working \ {"init", "queues", "auth", "bundles"} =>
         state_file.bundles \subseteq db.bundles \cup expired \cup gone

StartupInv ==
  /\ TypeOK /\ IsFiniteSet(served)
  /\ FilesWhole /\ MemoryTidy /\ UnsyncedEmptied /\ TablesWhole
  /\ RootsAgree /\ KeyTidy /\ KeysRecoverable /\ NothingLeft /\ NotResurrected /\ Progress

-----------------------------------------------------------------------------
(* What is drawn at random is a number that nothing holds.                 *)
LEMMA HeldFinite ==
  ASSUME NEW f
  PROVE  IsFiniteSet(Held(f))
<1>1. IsFiniteSet({}) /\ IsFiniteSet({f.crypto})
  BY FS_EmptySet, FS_Singleton
<1>2. IsFiniteSet({f.encrypted_crypto.root} \cup {f.encrypted_crypto.secret})
  BY FS_Singleton, FS_Union
<1>3. {f.encrypted_crypto.root, f.encrypted_crypto.secret} =
        {f.encrypted_crypto.root} \cup {f.encrypted_crypto.secret}
  OBVIOUS
<1>4. IsFiniteSet({f.encrypted_crypto.root, f.encrypted_crypto.secret})
  BY <1>2, <1>3
<1>5. PICK S : S = (IF f.encrypted_crypto = None THEN {} ELSE {f.encrypted_crypto.root, f.encrypted_crypto.secret})
  OBVIOUS
<1>6. IsFiniteSet(S)
  BY <1>1, <1>4, <1>5
<1>7. IsFiniteSet({f.crypto} \cup S)
  BY <1>1, <1>6, FS_Union
<1>8. Held(f) = {} \/ Held(f) = {f.crypto} \cup S
  BY <1>5 DEF Held
<1> QED
  BY <1>1, <1>7, <1>8

(* Fresh is such a number: of one more candidate than there are values in  *)
(* use, one is not in use.                                                 *)
LEMMA FreshFacts ==
  ASSUME IsFiniteSet(served)
  PROVE  Fresh \in Nat /\ Fresh \notin InUse
<1>1. IsFiniteSet(InUse)
  <2>1. IsFiniteSet({key_file}) /\ IsFiniteSet(Held(state_file)) /\ IsFiniteSet(Held(synced)) /\ IsFiniteSet(Held(mem))
    BY FS_Singleton, HeldFinite
  <2>2. IsFiniteSet(served \cup {key_file})
    BY <2>1, FS_Union
  <2>3. IsFiniteSet(served \cup {key_file} \cup Held(state_file))
    BY <2>1, <2>2, FS_Union
  <2>4. IsFiniteSet(served \cup {key_file} \cup Held(state_file) \cup Held(synced))
    BY <2>1, <2>3, FS_Union
  <2>5. IsFiniteSet(served \cup {key_file} \cup Held(state_file) \cup Held(synced) \cup Held(mem))
    BY <2>1, <2>4, FS_Union
  <2> QED
    BY <2>5 DEF InUse
<1>2. PICK k \in Nat : k = Cardinality(InUse)
  BY <1>1, FS_CardinalityType
<1>3. \E n \in 0 .. k : n \notin InUse
  <2>1. Cardinality(0 .. k) = k + 1
    BY <1>2, FS_Interval
  <2>2. ASSUME 0 .. k \subseteq InUse
        PROVE  FALSE
    <3>1. Cardinality(0 .. k) <= k
      BY <1>1, <1>2, <2>2, FS_Subset
    <3> QED
      BY <1>2, <2>1, <3>1
  <2> QED
    BY <2>2
<1>4. Fresh \in 0 .. k /\ Fresh \notin InUse
  BY <1>2, <1>3 DEF Fresh
<1> QED
  BY <1>2, <1>4

(* The states start-up makes.                                              *)
LEMMA NoStateShape ==
  /\ NoState \in DiskStates /\ NoState.crypto = None /\ NoState.encrypted_crypto = None
  /\ NoState.auth = {} /\ NoState.bundles = {} /\ NoState.queues = {}
BY DEF NoState, DiskState, DiskStates

(* The state that is persisted has the root in memory, under the secret.   *)
LEMMA PersistedShape ==
  ASSUME TypeOK, pc = "save"
  PROVE  /\ Persisted \in DiskStates /\ Emptied(Persisted)
         /\ Persisted.encrypted_crypto # None /\ Persisted.encrypted_crypto.secret = key
         /\ Root(Persisted) = mem.crypto /\ mem.crypto # None
<1>1. mem.crypto \in Nat /\ key \in Secret \cup Nat
  BY DEF TypeOK, DiskStates
<1>2. PICK blob : blob = Blob(mem.crypto, key)
  OBVIOUS
<1>7. blob \in EncryptedKeys /\ blob.root = mem.crypto /\ blob.secret = key
  BY <1>1, <1>2 DEF Blob, EncryptedKeys
<1>3. Persisted = DiskState(None, blob, {}, {}, {})
  BY <1>2 DEF Persisted
<1>4. Persisted \in DiskStates /\ Emptied(Persisted) /\ Persisted.encrypted_crypto = blob
  BY <1>3, <1>7 DEF DiskState, DiskStates, Emptied
<1>5. blob # None
  BY <1>7, NoneAssumption
<1>6. mem.crypto # None
  BY <1>1, SetsAssumption
<1> QED
  BY <1>4, <1>5, <1>6, <1>7 DEF Root

SameBut(x, y) == x.encrypted_crypto = y.encrypted_crypto /\ x.auth = y.auth

(* What the steps that change the state in memory make of it.              *)
LEMMA DecryptEffect ==
  ASSUME TypeOK, Decrypt
  PROVE  /\ mem' \in DiskStates /\ mem'.crypto = mem.encrypted_crypto.root /\ mem'.crypto # None
         /\ SameBut(mem', mem) /\ mem'.bundles = mem.bundles /\ mem'.queues = mem.queues
<1>1. mem \in DiskStates /\ mem.encrypted_crypto # None
  BY DEF TypeOK, Decrypt, Goto
<1>2. mem.encrypted_crypto.root \in Nat
  BY <1>1 DEF DiskStates, EncryptedKeys
<1>3. mem' = [mem EXCEPT !.crypto = mem.encrypted_crypto.root]
  BY DEF Decrypt
<1> QED
  BY <1>1, <1>2, <1>3, SetsAssumption DEF DiskStates, SameBut

(* init_server_crypto keeps a root there is, and prune_disk_state the live *)
(* bundles.                                                                *)
LEMMA InitEffect ==
  ASSUME TypeOK, IsFiniteSet(served), InitCrypto
  PROVE  /\ mem' \in DiskStates /\ mem'.crypto # None /\ (mem.crypto # None => mem'.crypto = mem.crypto)
         /\ SameBut(mem', mem) /\ mem'.bundles = mem.bundles \ expired /\ mem'.queues = mem.queues
<1>1. mem \in DiskStates
  BY DEF TypeOK
<1>2. PICK c \in Nat : c = IF mem.crypto = None THEN Fresh ELSE mem.crypto
  BY <1>1, FreshFacts DEF DiskStates
<1>3. PICK B \in SUBSET Bundle : B = mem.bundles \ expired
  BY <1>1 DEF DiskStates
<1>4. mem' = [mem EXCEPT !.crypto = c, !.bundles = B]
  BY <1>2, <1>3 DEF InitCrypto
<1> QED
  BY <1>1, <1>2, <1>3, <1>4, SetsAssumption DEF DiskStates, SameBut

(* A migrated envelope, or one whose enqueue failed, leaves the memory.    *)
LEMMA EnvelopeEffect ==
  ASSUME TypeOK, NEW e \in Envelope, MigrateEnvelope(e) \/ MigrateEnvelopeFails(e)
  PROVE  /\ mem' \in DiskStates /\ mem'.crypto = mem.crypto
         /\ SameBut(mem', mem) /\ mem'.bundles = mem.bundles /\ mem'.queues = mem.queues \ {e}
<1>1. mem \in DiskStates /\ mem' = [mem EXCEPT !.queues = @ \ {e}]
  BY DEF TypeOK, MigrateEnvelope, MigrateEnvelopeFails
<1> QED
  BY <1>1 DEF DiskStates, SameBut

(* What the steps that change the tables make of them.                     *)
LEMMA TableEffects ==
  ASSUME TypeOK
  PROVE  /\ \A e \in Envelope : MigrateEnvelope(e) =>
              db' \in Tables /\ db'.auth = db.auth /\ db'.bundles = db.bundles /\ db'.queue = db.queue \cup {e}
         /\ MigrateAuth =>
              /\ db' \in Tables /\ db'.auth = (IF db.auth = {} THEN mem.auth ELSE db.auth)
              /\ db'.bundles = db.bundles /\ db'.queue = db.queue
         /\ MigrateBundles =>
              /\ db' \in Tables /\ db'.bundles = (IF db.bundles = {} THEN mem.bundles ELSE db.bundles)
              /\ db'.auth = db.auth /\ db'.queue = db.queue
         /\ \A x : Remove(x) =>
              /\ db' \in Tables /\ db'.auth = db.auth \ {x}
              /\ db'.bundles = db.bundles \ {x} /\ db'.queue = db.queue \ {x}
<1>0. db \in Tables /\ mem \in DiskStates
  BY DEF TypeOK
<1>1. ASSUME NEW e \in Envelope, MigrateEnvelope(e)
      PROVE  db' \in Tables /\ db'.auth = db.auth /\ db'.bundles = db.bundles /\ db'.queue = db.queue \cup {e}
  BY <1>0, <1>1 DEF MigrateEnvelope, Tables
<1>2. ASSUME MigrateAuth
      PROVE  /\ db' \in Tables /\ db'.auth = (IF db.auth = {} THEN mem.auth ELSE db.auth)
             /\ db'.bundles = db.bundles /\ db'.queue = db.queue
  <2>1. PICK A \in SUBSET Mailbox : A = IF db.auth = {} THEN mem.auth ELSE db.auth
    BY <1>0 DEF Tables, DiskStates
  <2>2. db' = [db EXCEPT !.auth = A]
    BY <1>2, <2>1 DEF MigrateAuth
  <2> QED
    BY <1>0, <2>1, <2>2 DEF Tables
<1>3. ASSUME MigrateBundles
      PROVE  /\ db' \in Tables /\ db'.bundles = (IF db.bundles = {} THEN mem.bundles ELSE db.bundles)
             /\ db'.auth = db.auth /\ db'.queue = db.queue
  <2>1. PICK A \in SUBSET Bundle : A = IF db.bundles = {} THEN mem.bundles ELSE db.bundles
    BY <1>0 DEF Tables, DiskStates
  <2>2. db' = [db EXCEPT !.bundles = A]
    BY <1>3, <2>1 DEF MigrateBundles
  <2> QED
    BY <1>0, <2>1, <2>2 DEF Tables
<1>4. ASSUME NEW x, Remove(x)
      PROVE  /\ db' \in Tables /\ db'.auth = db.auth \ {x}
             /\ db'.bundles = db.bundles \ {x} /\ db'.queue = db.queue \ {x}
  BY <1>0, <1>4 DEF Remove, Tables
<1> QED
  BY <1>1, <1>2, <1>3, <1>4

-----------------------------------------------------------------------------
(* Each step keeps the types; what is served is always a finite set.       *)
LEMMA TypeStep ==
  ASSUME TypeOK, IsFiniteSet(served), MemoryTidy, [Next]_vars
  PROVE  TypeOK' /\ IsFiniteSet(served')
<1>0. /\ state_file \in DiskStates \cup {None} /\ synced \in DiskStates \cup {None}
      /\ key_file \in Nat \cup {None, Empty} /\ db \in Tables /\ env \in Config /\ expired \subseteq Bundle
      /\ pc \in PC /\ mem \in DiskStates /\ key \in Secret \cup Nat \cup {None}
      /\ stops \in 0 .. MaxStops /\ changes \in 0 .. MaxChanges
      /\ swallowed \subseteq Fault /\ served \subseteq Nat
      /\ gone \subseteq Mailbox \cup Bundle \cup Envelope
      /\ (pc \in {"load_key", "load_key_write", "decrypt"} => mem.encrypted_crypto # None)
      /\ (pc \notin {"down", "load", "load_key", "load_key_write", "decrypt", "init", "serving"}
            => mem.crypto # None)
      /\ (pc \in {"decrypt", "save", "sync"} => key # None)
  BY DEF TypeOK
<1> USE DEF Goto, files, process, history, bounds
<1>f. ASSUME NEW f \in Fault, Swallow(f)
      PROVE  swallowed' \subseteq Fault /\ stops' \in 0 .. MaxStops
  BY <1>0, <1>f, BoundAssumption DEF Swallow
<1>1. CASE Start \/ LoadAbsent \/ QueuesMigrated
  BY <1>0, <1>1 DEF Start, LoadAbsent, QueuesMigrated, PC, TypeOK
<1>2. CASE LoadUnseen
  <2>1. swallowed' \subseteq Fault /\ stops' \in 0 .. MaxStops
    BY <1>2, <1>f DEF LoadUnseen, Fault
  <2> QED
    BY <1>0, <1>2, <2>1 DEF LoadUnseen, PC, TypeOK
<1>3. CASE LoadPlain \/ LoadEncrypted
  BY <1>0, <1>3 DEF LoadPlain, LoadEncrypted, PC, TypeOK
<1>4. CASE KeyFromEnv \/ KeyFromFile \/ KeyFromRelayKey
  <2>1. pc' \in {"decrypt", "save"} /\ (pc' = "decrypt" <=> pc = "load_key") /\ pc \in {"load_key", "save_key"}
    BY <1>4 DEF KeyFromEnv, KeyFromFile, KeyFromRelayKey, Resolving, Resolved
  <2>2. key' \in Secret \cup Nat /\ key' # None
    BY <1>0, <1>4, SetsAssumption DEF KeyFromEnv, KeyFromFile, KeyFromRelayKey, Config
  <2>3. UNCHANGED <<state_file, synced, key_file, db, env, expired, mem, stops, changes, swallowed, served, gone>>
    BY <1>4 DEF KeyFromEnv, KeyFromFile, KeyFromRelayKey
  <2> QED
    BY <1>0, <2>1, <2>2, <2>3 DEF PC, TypeOK
<1>5. CASE KeyFileBad \/ DecryptFails
  <2>1. Stop /\ UNCHANGED <<files, db, env, expired, bounds, history>>
    BY <1>5 DEF KeyFileBad, DecryptFails
  <2> QED
    BY <1>0, <2>1, NoStateShape DEF Stop, PC, TypeOK
<1>6. CASE KeyGenerate \/ KeyUnread
  <2>1. /\ pc' \in {"load_key_write", "save_key_write"} /\ (pc' = "load_key_write" <=> pc = "load_key")
        /\ pc \in {"load_key", "save_key"} /\ key_file' = Empty
    BY <1>6 DEF KeyGenerate, KeyUnread, Resolving, GeneratingPC
  <2>2. swallowed' \subseteq Fault /\ stops' \in 0 .. MaxStops
    BY <1>0, <1>6, <1>f DEF KeyGenerate, KeyUnread, Fault
  <2>3. UNCHANGED <<state_file, synced, db, env, expired, mem, key, changes, served, gone>>
    BY <1>6 DEF KeyGenerate, KeyUnread
  <2> QED
    BY <1>0, <2>1, <2>2, <2>3 DEF PC, TypeOK
<1>7. CASE KeyWrite
  <2>1. PICK n \in Nat : key_file' = n /\ key' = n
    BY <1>7, FreshFacts DEF KeyWrite
  <2>2. /\ pc \in {"load_key_write", "save_key_write"}
        /\ pc' = IF pc = "load_key_write" THEN "decrypt" ELSE "save"
        /\ UNCHANGED <<state_file, synced, db, env, expired, mem, bounds, history>>
    BY <1>7 DEF KeyWrite
  <2> QED
    BY <1>0, <2>1, <2>2, SetsAssumption DEF PC, TypeOK
<1>8. CASE Decrypt
  <2>1. pc' = "init" /\ key' = None /\ UNCHANGED <<files, db, env, expired, bounds, history>>
    BY <1>8 DEF Decrypt
  <2> QED
    BY <1>0, <1>8, <2>1, DecryptEffect DEF PC, TypeOK
<1>9. CASE InitCrypto
  <2>1. pc' = "queues" /\ UNCHANGED <<files, db, env, expired, key, bounds, history>>
    BY <1>9 DEF InitCrypto
  <2> QED
    BY <1>0, <1>9, <2>1, InitEffect DEF PC, TypeOK
<1>10. ASSUME NEW e \in Envelope, MigrateEnvelope(e)
       PROVE  TypeOK' /\ IsFiniteSet(served')
  <2>1. pc = "queues" /\ UNCHANGED <<files, env, expired, pc, key, bounds, history>>
    BY <1>10 DEF MigrateEnvelope
  <2> QED
    BY <1>0, <1>10, <2>1, EnvelopeEffect, TableEffects DEF TypeOK
<1>11. ASSUME NEW e \in Envelope, MigrateEnvelopeFails(e)
       PROVE  TypeOK' /\ IsFiniteSet(served')
  <2>1. pc = "queues" /\ UNCHANGED <<files, db, env, expired, pc, key, changes, served, gone>>
    BY <1>11 DEF MigrateEnvelopeFails
  <2>2. swallowed' \subseteq Fault /\ stops' \in 0 .. MaxStops
    BY <1>11, <1>f DEF MigrateEnvelopeFails, Fault
  <2> QED
    BY <1>0, <1>11, <2>1, <2>2, EnvelopeEffect DEF TypeOK
<1>12. CASE MigrateAuth \/ MigrateBundles
  <2>1. /\ pc \in {"auth", "bundles"} /\ pc' \in {"bundles", "save_key"}
        /\ UNCHANGED <<files, env, expired, mem, key, bounds, history>>
    BY <1>12 DEF MigrateAuth, MigrateBundles
  <2> QED
    BY <1>0, <1>12, <2>1, TableEffects DEF PC, TypeOK
<1>13. CASE SaveRename
  <2>1. /\ pc = "save" /\ pc' = "sync" /\ state_file' = Persisted
        /\ UNCHANGED <<synced, key_file, db, env, expired, mem, key, bounds, history>>
    BY <1>13 DEF SaveRename
  <2> QED
    BY <1>0, <2>1, PersistedShape DEF PC, TypeOK
<1>14. CASE Serve \/ ServeUnsynced
  <2>1. /\ pc = "sync" /\ pc' = "serving" /\ served' = served \cup {mem.crypto} /\ mem' = NoState /\ key' = None
        /\ synced' \in {synced, state_file}
        /\ UNCHANGED <<state_file, key_file, db, env, expired, changes, gone>>
    BY <1>14 DEF Serve, ServeUnsynced
  <2>2. swallowed' \subseteq Fault /\ stops' \in 0 .. MaxStops
    BY <1>0, <1>14, <1>f DEF Serve, ServeUnsynced, Fault
  <2>3. mem.crypto \in Nat
    BY <1>0, <2>1 DEF DiskStates
  <2>4. IsFiniteSet(served')
    BY <2>1, FS_AddElement
  <2> QED
    BY <1>0, <2>1, <2>2, <2>3, <2>4, NoStateShape DEF PC, TypeOK
<1>15. ASSUME NEW x \in Mailbox \cup Bundle \cup Envelope, Remove(x)
       PROVE  TypeOK' /\ IsFiniteSet(served')
  <2>1. gone' = gone \cup {x} /\ UNCHANGED <<files, env, expired, process, bounds, swallowed, served>>
    BY <1>15 DEF Remove
  <2> QED
    BY <1>0, <1>15, <2>1, TableEffects DEF TypeOK
<1>16. ASSUME NEW b \in Bundle, Expire(b)
       PROVE  TypeOK' /\ IsFiniteSet(served')
  BY <1>0, <1>16 DEF Expire, TypeOK
<1>17. CASE Crash \/ PowerLoss
  <2>1. /\ Stop /\ stops < MaxStops /\ stops' = stops + 1 /\ state_file' \in {state_file, synced}
        /\ UNCHANGED <<synced, key_file, db, env, expired, changes, history>>
    BY <1>17 DEF Crash, PowerLoss
  <2>2. stops' \in 0 .. MaxStops
    BY <1>0, <2>1, BoundAssumption
  <2> QED
    BY <1>0, <2>1, <2>2, NoStateShape DEF Stop, PC, TypeOK
<1>18. ASSUME NEW e \in Config, Reconfigure(e)
       PROVE  TypeOK' /\ IsFiniteSet(served')
  <2>1. changes' \in 0 .. MaxChanges
    BY <1>0, <1>18, BoundAssumption DEF Reconfigure
  <2> QED
    BY <1>0, <1>18, <2>1 DEF Reconfigure, TypeOK
<1>19. CASE Rotate
  <2>1. changes' \in 0 .. MaxChanges
    BY <1>0, <1>19, BoundAssumption DEF Rotate
  <2>2. IsFiniteSet(served')
    BY <1>19, FS_EmptySet DEF Rotate
  <2> QED
    BY <1>0, <1>19, <2>1, <2>2 DEF Rotate, TypeOK
<1>20. CASE UNCHANGED vars
  BY <1>20 DEF vars, TypeOK
<1> QED
  BY <1>1, <1>2, <1>3, <1>4, <1>5, <1>6, <1>7, <1>8, <1>9, <1>10, <1>11, <1>12, <1>13, <1>14, <1>15,
     <1>16, <1>17, <1>18, <1>19, <1>20 DEF Next, Step, Load, ResolveKey, Migrate, Persist

-----------------------------------------------------------------------------
(* The steps that write the state file, and those that change the tables.  *)
LEMMA FileWriters ==
  ASSUME [Next]_vars
  PROVE  SaveRename \/ Serve \/ PowerLoss \/ Rotate \/ UNCHANGED <<state_file, synced>>
<1> USE DEF files
<1>1. CASE Step
  BY <1>1 DEF Step, Start, Load, LoadAbsent, LoadUnseen, LoadPlain, LoadEncrypted, Decrypt, DecryptFails,
     ResolveKey, KeyFromEnv, KeyFromFile, KeyFileBad, KeyFromRelayKey, KeyGenerate, KeyUnread, KeyWrite,
     InitCrypto, Migrate, MigrateEnvelope, MigrateEnvelopeFails, QueuesMigrated, MigrateAuth, MigrateBundles,
     Persist, ServeUnsynced
<1>2. CASE ~Step
  BY <1>2 DEF Next, Remove, Expire, Crash, Reconfigure, vars
<1> QED
  BY <1>1, <1>2

(* The steps that write the tables.                                        *)
LEMMA TableWriters ==
  ASSUME [Next]_vars
  PROVE  \/ \E e \in Envelope : MigrateEnvelope(e)
         \/ MigrateAuth \/ MigrateBundles
         \/ \E x \in Mailbox \cup Bundle \cup Envelope : Remove(x)
         \/ UNCHANGED <<db, gone>>
<1> USE DEF history
<1>1. CASE Step
  BY <1>1 DEF Step, Start, Load, LoadAbsent, LoadUnseen, LoadPlain, LoadEncrypted, Decrypt, DecryptFails,
     ResolveKey, KeyFromEnv, KeyFromFile, KeyFileBad, KeyFromRelayKey, KeyGenerate, KeyUnread, KeyWrite,
     InitCrypto, Migrate, MigrateEnvelopeFails, QueuesMigrated, Persist, SaveRename, Serve, ServeUnsynced
<1>2. CASE ~Step
  BY <1>2 DEF Next, Expire, Crash, PowerLoss, Reconfigure, Rotate, vars
<1> QED
  BY <1>1, <1>2

(* A fault stays known.                                                    *)
LEMMA FaultsKnown ==
  ASSUME [Next]_vars
  PROVE  swallowed \subseteq swallowed'
<1> USE DEF history, Swallow
<1>1. CASE Step
  BY <1>1 DEF Step, Start, Load, LoadAbsent, LoadUnseen, LoadPlain, LoadEncrypted, Decrypt, DecryptFails,
     ResolveKey, KeyFromEnv, KeyFromFile, KeyFileBad, KeyFromRelayKey, KeyGenerate, KeyUnread, KeyWrite,
     InitCrypto, Migrate, MigrateEnvelope, MigrateEnvelopeFails, QueuesMigrated, MigrateAuth, MigrateBundles,
     Persist, SaveRename, Serve, ServeUnsynced
<1>2. CASE ~Step
  BY <1>2 DEF Next, Remove, Expire, Crash, PowerLoss, Reconfigure, Rotate, vars
<1> QED
  BY <1>1, <1>2

(* Each step keeps the files whole.                                        *)
LEMMA FilesStep ==
  ASSUME TypeOK, FilesWhole, UnsyncedEmptied, MemoryTidy, [Next]_vars
  PROVE  FilesWhole' /\ UnsyncedEmptied'
<1>1. CASE SaveRename
  <2>1. pc = "save" /\ state_file' = Persisted /\ synced' = synced
    BY <1>1 DEF SaveRename, Goto
  <2>2. Emptied(Persisted) /\ Root(Persisted) # None /\ Persisted # None
    BY <2>1, PersistedShape, NoneAssumption
  <2>3. FilesWhole'
    BY <2>1, <2>2 DEF FilesWhole, Emptied
  <2>4. UnsyncedEmptied'
    BY <2>1, <2>2 DEF UnsyncedEmptied
  <2> QED
    BY <2>3, <2>4
<1>2. CASE Serve
  <2>1. synced' = state_file /\ state_file' = state_file
    BY <1>2 DEF Serve
  <2> QED
    BY <2>1 DEF FilesWhole, UnsyncedEmptied
<1>3. CASE PowerLoss
  <2>1. synced' = synced /\ state_file' = synced
    BY <1>3 DEF PowerLoss
  <2> QED
    BY <2>1 DEF FilesWhole, UnsyncedEmptied
<1>4. CASE Rotate
  BY <1>4 DEF Rotate, FilesWhole, UnsyncedEmptied
<1>5. CASE UNCHANGED <<state_file, synced>>
  BY <1>5 DEF FilesWhole, UnsyncedEmptied
<1> QED
  BY <1>1, <1>2, <1>3, <1>4, <1>5, FileWriters

(* Each step keeps the memory tidy.                                        *)
LEMMA MemoryStep ==
  ASSUME TypeOK, IsFiniteSet(served), FilesWhole, MemoryTidy, [Next]_vars
  PROVE  MemoryTidy'
<1>0. /\ mem \in DiskStates /\ expired \subseteq Bundle /\ mem.bundles \subseteq Bundle
  BY DEF TypeOK, DiskStates
<1> USE DEF Goto, files, process, history, bounds
<1>1. CASE Start \/ LoadAbsent \/ LoadUnseen \/ QueuesMigrated
  BY <1>1 DEF Start, LoadAbsent, LoadUnseen, QueuesMigrated, MemoryTidy
<1>2. CASE LoadPlain \/ LoadEncrypted
  <2>1. pc' \in {"init", "load_key"} /\ mem' = state_file /\ state_file # None /\ UNCHANGED <<state_file, expired>>
    BY <1>2 DEF LoadPlain, LoadEncrypted
  <2>2. state_file.auth \in {{}, Mailbox} /\ state_file.bundles \in {{}, Bundle}
    BY <2>1 DEF FilesWhole
  <2> QED
    BY <2>1, <2>2 DEF MemoryTidy
<1>3. CASE KeyFromEnv \/ KeyFromFile \/ KeyFromRelayKey \/ KeyGenerate \/ KeyUnread \/ KeyWrite
  <2>1. \/ pc \in {"load_key", "load_key_write"} /\ pc' \in {"load_key_write", "decrypt"}
        \/ pc \in {"save_key", "save_key_write"} /\ pc' \in {"save_key_write", "save"}
    BY <1>3 DEF KeyFromEnv, KeyFromFile, KeyFromRelayKey, KeyGenerate, KeyUnread, KeyWrite, Resolving, Resolved,
                GeneratingPC
  <2>2. UNCHANGED <<mem, state_file, expired>>
    BY <1>3 DEF KeyFromEnv, KeyFromFile, KeyFromRelayKey, KeyGenerate, KeyUnread, KeyWrite
  <2> QED
    BY <2>1, <2>2 DEF MemoryTidy
<1>4. CASE KeyFileBad \/ DecryptFails \/ Crash \/ PowerLoss
  <2>1. Stop /\ expired' = expired
    BY <1>4 DEF KeyFileBad, DecryptFails, Crash, PowerLoss
  <2> QED
    BY <2>1, NoStateShape DEF Stop, MemoryTidy
<1>5. CASE Decrypt
  <2>1. pc' = "init" /\ expired' = expired
    BY <1>5 DEF Decrypt
  <2> QED
    BY <1>5, <2>1, DecryptEffect DEF MemoryTidy, SameBut
<1>6. CASE InitCrypto
  <2>1. pc' = "queues" /\ expired' = expired
    BY <1>6 DEF InitCrypto
  <2>2. mem'.bundles # {} => Bundle \subseteq mem'.bundles \cup expired
    BY <1>6, InitEffect DEF MemoryTidy
  <2> QED
    BY <1>6, <2>1, <2>2, InitEffect DEF MemoryTidy, SameBut
<1>7. ASSUME NEW e \in Envelope, MigrateEnvelope(e) \/ MigrateEnvelopeFails(e)
      PROVE  MemoryTidy'
  <2>1. pc = "queues" /\ UNCHANGED <<state_file, expired, pc>>
    BY <1>7 DEF MigrateEnvelope, MigrateEnvelopeFails
  <2> QED
    BY <1>7, <2>1, EnvelopeEffect DEF MemoryTidy, SameBut
<1>8. CASE MigrateAuth \/ MigrateBundles
  BY <1>8 DEF MigrateAuth, MigrateBundles, MemoryTidy
<1>9. CASE SaveRename
  <2>1. pc = "save" /\ pc' = "sync" /\ state_file' = Persisted /\ UNCHANGED <<mem, expired>>
    BY <1>9 DEF SaveRename
  <2>2. Emptied(Persisted) /\ Root(Persisted) = mem.crypto /\ Persisted # None
    BY <2>1, PersistedShape, NoneAssumption
  <2> QED
    BY <2>1, <2>2 DEF MemoryTidy
<1>10. CASE Serve \/ ServeUnsynced
  <2>1. pc' = "serving" /\ mem' = NoState
    BY <1>10 DEF Serve, ServeUnsynced
  <2> QED
    BY <2>1, NoStateShape DEF MemoryTidy
<1>11. ASSUME NEW x \in Mailbox \cup Bundle \cup Envelope, Remove(x)
       PROVE  MemoryTidy'
  BY <1>11 DEF Remove, MemoryTidy
<1>12. ASSUME NEW b \in Bundle, Expire(b)
       PROVE  MemoryTidy'
  BY <1>12 DEF Expire, MemoryTidy
<1>13. ASSUME NEW e \in Config, Reconfigure(e)
       PROVE  MemoryTidy'
  BY <1>13 DEF Reconfigure, MemoryTidy
<1>14. CASE Rotate
  <2>1. pc = "down" /\ UNCHANGED <<pc, mem, expired>>
    BY <1>14 DEF Rotate
  <2> QED
    BY <2>1 DEF MemoryTidy
<1>15. CASE UNCHANGED vars
  BY <1>15 DEF vars, MemoryTidy
<1> QED
  BY <1>1, <1>2, <1>3, <1>4, <1>5, <1>6, <1>7, <1>8, <1>9, <1>10, <1>11, <1>12, <1>13, <1>14, <1>15
     DEF Next, Step, Load, ResolveKey, Migrate, Persist

(* Each step keeps the tables whole, and what has expired stays expired.   *)
LEMMA ExpiredGrows ==
  ASSUME [Next]_vars
  PROVE  expired \subseteq expired'
<1>1. CASE Step
  BY <1>1 DEF Step, Start, Load, LoadAbsent, LoadUnseen, LoadPlain, LoadEncrypted, Decrypt, DecryptFails,
     ResolveKey, KeyFromEnv, KeyFromFile, KeyFileBad, KeyFromRelayKey, KeyGenerate, KeyUnread, KeyWrite,
     InitCrypto, Migrate, MigrateEnvelope, MigrateEnvelopeFails, QueuesMigrated, MigrateAuth, MigrateBundles,
     Persist, SaveRename, Serve, ServeUnsynced
<1>2. CASE ~Step
  BY <1>2 DEF Next, Remove, Expire, Crash, PowerLoss, Reconfigure, Rotate, vars
<1> QED
  BY <1>1, <1>2

(* Each step keeps the tables whole.                                       *)
LEMMA TablesStep ==
  ASSUME TypeOK, MemoryTidy, TablesWhole, [Next]_vars
  PROVE  TablesWhole'
<1>0. expired \subseteq expired'
  BY ExpiredGrows
<1>1. ASSUME NEW e \in Envelope, MigrateEnvelope(e)
      PROVE  TablesWhole'
  <2>1. gone' = gone
    BY <1>1 DEF MigrateEnvelope, history
  <2> QED
    BY <1>0, <1>1, <2>1, TableEffects DEF TablesWhole
<1>2. CASE MigrateAuth
  <2>1. gone' = gone
    BY <1>2 DEF MigrateAuth, history
  <2> QED
    BY <1>0, <1>2, <2>1, TableEffects DEF TablesWhole, MemoryTidy
<1>3. CASE MigrateBundles
  <2>1. gone' = gone
    BY <1>3 DEF MigrateBundles, history
  <2> QED
    BY <1>0, <1>3, <2>1, TableEffects DEF TablesWhole, MemoryTidy
<1>4. ASSUME NEW x \in Mailbox \cup Bundle \cup Envelope, Remove(x)
      PROVE  TablesWhole'
  <2>1. gone' = gone \cup {x}
    BY <1>4 DEF Remove
  <2> QED
    BY <1>0, <1>4, <2>1, TableEffects DEF TablesWhole
<1>5. CASE UNCHANGED <<db, gone>>
  BY <1>0, <1>5 DEF TablesWhole
<1> QED
  BY <1>1, <1>2, <1>3, <1>4, <1>5, TableWriters

-----------------------------------------------------------------------------
(* Each step keeps the one trust root.                                     *)
LEMMA RootsStep ==
  ASSUME TypeOK, IsFiniteSet(served), FilesWhole, MemoryTidy, RootsAgree, [Next]_vars
  PROVE  RootsAgree'
<1> SUFFICES ASSUME NoFault({"stat", "dir_sync"})'
             PROVE  /\ \A s \in served' : /\ state_file' # None /\ Root(state_file') = s
                                          /\ synced' # None /\ Root(synced') = s
                    /\ pc' \in Working /\ state_file' # None => mem'.crypto = Root(state_file')
  BY DEF RootsAgree
<1>0. NoFault({"stat", "dir_sync"})
  BY FaultsKnown DEF NoFault
<1>00. /\ \A s \in served : /\ state_file # None /\ Root(state_file) = s
                            /\ synced # None /\ Root(synced) = s
       /\ pc \in Working /\ state_file # None => mem.crypto = Root(state_file)
  BY <1>0 DEF RootsAgree
<1> USE DEF Goto, files, process, history, bounds
<1>1. CASE SaveRename
  <2>1. /\ pc = "save" /\ pc' = "sync" /\ state_file' = Persisted /\ UNCHANGED <<synced, served>>
    BY <1>1 DEF SaveRename
  <2>2. Root(Persisted) = mem.crypto /\ Persisted # None
    BY <2>1, PersistedShape, NoneAssumption
  <2> QED
    BY <1>00, <2>1, <2>2 DEF Working
<1>2. CASE Serve
  <2>1. /\ pc = "sync" /\ pc' = "serving" /\ state_file' = state_file /\ synced' = state_file
        /\ served' = served \cup {mem.crypto}
    BY <1>2 DEF Serve
  <2>2. state_file # None /\ Root(state_file) = mem.crypto
    BY <2>1 DEF MemoryTidy
  <2> QED
    BY <1>00, <2>1, <2>2 DEF Working
<1>3. CASE PowerLoss
  <2>1. pc' = "down" /\ state_file' = synced /\ UNCHANGED <<synced, served>>
    BY <1>3 DEF PowerLoss, Stop
  <2> QED
    BY <1>00, <2>1 DEF Working
<1>4. CASE Rotate
  BY <1>4 DEF Rotate
<1>5. ~LoadUnseen /\ ~ServeUnsynced
  BY DEF LoadUnseen, ServeUnsynced, Swallow, NoFault
<1>6. CASE LoadAbsent
  BY <1>00, <1>6 DEF LoadAbsent
<1>7. CASE LoadPlain \/ LoadEncrypted
  BY <1>00, <1>7 DEF LoadPlain, LoadEncrypted, Root, Working
<1>8. CASE Decrypt
  <2>1. pc = "decrypt" /\ UNCHANGED <<state_file, synced, served>> /\ mem.encrypted_crypto # None
    BY <1>8 DEF Decrypt, TypeOK
  <2>2. mem'.crypto = mem.encrypted_crypto.root /\ mem = state_file
    BY <1>8, <2>1, DecryptEffect DEF MemoryTidy
  <2> QED
    BY <1>00, <2>1, <2>2 DEF Root
<1>9. CASE InitCrypto
  <2>1. pc = "init" /\ UNCHANGED <<state_file, synced, served>>
    BY <1>9 DEF InitCrypto
  <2>2. mem.crypto # None => mem'.crypto = mem.crypto
    BY <1>9, InitEffect
  <2>3. state_file # None => Root(state_file) # None
    BY DEF FilesWhole
  <2> QED
    BY <1>00, <2>1, <2>2, <2>3 DEF Working
<1>10. ASSUME NEW e \in Envelope, MigrateEnvelope(e) \/ MigrateEnvelopeFails(e)
       PROVE  /\ UNCHANGED <<state_file, synced, served, pc>> /\ mem'.crypto = mem.crypto
  BY <1>10, EnvelopeEffect DEF MigrateEnvelope, MigrateEnvelopeFails
<1>11. CASE KeyFromEnv \/ KeyFromFile \/ KeyFromRelayKey \/ KeyGenerate \/ KeyUnread \/ KeyWrite
  <2>1. pc' \in Working => pc \in Working
    BY <1>11 DEF KeyFromEnv, KeyFromFile, KeyFromRelayKey, KeyGenerate, KeyUnread, KeyWrite, Resolving, Resolved,
                GeneratingPC, Working
  <2>2. UNCHANGED <<mem, state_file, synced, served>>
    BY <1>11 DEF KeyFromEnv, KeyFromFile, KeyFromRelayKey, KeyGenerate, KeyUnread, KeyWrite
  <2> QED
    BY <1>00, <2>1, <2>2
<1>12. CASE KeyFileBad \/ DecryptFails \/ Crash
  <2>1. pc' = "down" /\ UNCHANGED <<state_file, synced, served>>
    BY <1>12 DEF KeyFileBad, DecryptFails, Crash, Stop
  <2> QED
    BY <1>00, <2>1 DEF Working
<1>13. CASE Start \/ QueuesMigrated \/ MigrateAuth \/ MigrateBundles
  <2>1. (pc' \in Working => pc \in Working) /\ UNCHANGED <<state_file, synced, served, mem>>
    BY <1>13 DEF Start, QueuesMigrated, MigrateAuth, MigrateBundles, Working
  <2> QED
    BY <1>00, <2>1
<1>14. CASE \/ \E x \in Mailbox \cup Bundle \cup Envelope : Remove(x)
            \/ \E b \in Bundle : Expire(b)
            \/ \E e \in Config : Reconfigure(e)
            \/ UNCHANGED vars
  <2>1. UNCHANGED <<state_file, synced, served, mem, pc>>
    BY <1>14 DEF Remove, Expire, Reconfigure, vars
  <2> QED
    BY <1>00, <2>1
<1> QED
  BY <1>00, <1>1, <1>2, <1>3, <1>4, <1>5, <1>6, <1>7, <1>8, <1>9, <1>10, <1>11, <1>12, <1>13, <1>14
     DEF Next, Step, Load, ResolveKey, Migrate, Persist

(* No file depends on a relay-key that is being written.                   *)
LEMMA KeyFree ==
  ASSUME TypeOK, key_file \in {None, Empty}, NEW f, f \in DiskStates, f.encrypted_crypto # None,
         f.encrypted_crypto.secret \in Secret \cup {key_file}
  PROVE  f.encrypted_crypto.secret \in Secret
<1>1. f.encrypted_crypto.secret \in Secret \cup Nat
  BY DEF DiskStates, EncryptedKeys
<1> QED
  BY <1>1, SetsAssumption

(* Each step keeps the secret the files depend on.                         *)
LEMMA KeyStep ==
  ASSUME TypeOK, IsFiniteSet(served), KeyTidy, KeysRecoverable, [Next]_vars
  PROVE  KeyTidy' /\ KeysRecoverable'
<1>0. /\ state_file \in DiskStates \cup {None} /\ synced \in DiskStates \cup {None}
      /\ key_file \in Nat \cup {None, Empty} /\ env \in Config
  BY DEF TypeOK
<1>n. NoFault({"key_read"})' => NoFault({"key_read"})
  BY FaultsKnown DEF NoFault
<1> USE DEF Goto, files, process, history, bounds
<1>1. CASE KeyFromEnv \/ KeyFromFile \/ KeyFromRelayKey
  <2>1. pc' \in {"decrypt", "save"} /\ key' \in Secret \cup {key_file}
        /\ UNCHANGED <<state_file, synced, key_file, swallowed>>
    BY <1>0, <1>1 DEF KeyFromEnv, KeyFromFile, KeyFromRelayKey, Resolved, Config
  <2> QED
    BY <2>1 DEF KeyTidy, KeysRecoverable, NoFault
<1>2. CASE KeyGenerate
  <2>1. /\ pc' \in {"load_key_write", "save_key_write"} /\ key_file' = Empty /\ key_file \in {None, Empty}
        /\ UNCHANGED <<state_file, synced, swallowed>>
    BY <1>2 DEF KeyGenerate, GeneratingPC
  <2>2. KeyTidy'
    BY <2>1 DEF KeyTidy
  <2>3. KeysRecoverable'
    <3> SUFFICES ASSUME NoFault({"key_read"})', NEW f \in {state_file, synced} \ {None}, f.encrypted_crypto # None
                 PROVE  f.encrypted_crypto.secret \in Secret
      BY <2>1 DEF KeysRecoverable
    <3>1. f \in DiskStates /\ f.encrypted_crypto.secret \in Secret \cup {key_file}
      BY <1>0, <1>n DEF KeysRecoverable
    <3> QED
      BY <2>1, <3>1, KeyFree
  <2> QED
    BY <2>2, <2>3
<1>3. CASE KeyUnread
  <2>1. /\ pc' \in {"load_key_write", "save_key_write"} /\ key_file' = Empty /\ "key_read" \in swallowed'
    BY <1>3 DEF KeyUnread, GeneratingPC, Swallow
  <2> QED
    BY <2>1 DEF KeyTidy, KeysRecoverable, NoFault
<1>4. CASE KeyWrite
  <2>1. /\ pc \in {"load_key_write", "save_key_write"} /\ pc' \in {"decrypt", "save"} /\ key' = key_file'
        /\ UNCHANGED <<state_file, synced, swallowed>>
    BY <1>4 DEF KeyWrite
  <2>2. KeyTidy'
    BY <2>1 DEF KeyTidy
  <2>3. KeysRecoverable'
    <3> SUFFICES ASSUME NoFault({"key_read"})', NEW f \in {state_file, synced} \ {None}, f.encrypted_crypto # None
                 PROVE  f.encrypted_crypto.secret \in Secret
      BY <2>1 DEF KeysRecoverable
    <3>1. f \in DiskStates /\ f.encrypted_crypto.secret \in Secret \cup {key_file}
      BY <1>0, <1>n DEF KeysRecoverable
    <3>2. key_file \in {None, Empty}
      BY <2>1 DEF KeyTidy
    <3> QED
      BY <3>1, <3>2, KeyFree
  <2> QED
    BY <2>2, <2>3
<1>5. CASE SaveRename
  <2>1. /\ pc = "save" /\ pc' = "sync" /\ state_file' = Persisted
        /\ UNCHANGED <<synced, key_file, key, swallowed>>
    BY <1>5 DEF SaveRename
  <2>2. Persisted.encrypted_crypto.secret = key /\ key \in Secret \cup {key_file}
    BY <2>1, PersistedShape DEF KeyTidy
  <2>3. KeyTidy'
    BY <2>1, <2>2 DEF KeyTidy
  <2>4. KeysRecoverable'
    BY <1>n, <2>1, <2>2 DEF KeysRecoverable
  <2> QED
    BY <2>3, <2>4
<1>6. CASE Serve \/ ServeUnsynced
  <2>1. /\ pc' = "serving" /\ {state_file', synced'} \subseteq {state_file, synced} /\ key_file' = key_file
    BY <1>6 DEF Serve, ServeUnsynced
  <2> QED
    BY <1>n, <2>1 DEF KeyTidy, KeysRecoverable
<1>7. CASE PowerLoss \/ Crash \/ KeyFileBad \/ DecryptFails
  <2>1. /\ pc' = "down" /\ {state_file', synced'} \subseteq {state_file, synced} /\ key_file' = key_file
    BY <1>7 DEF PowerLoss, Crash, KeyFileBad, DecryptFails, Stop
  <2> QED
    BY <1>n, <2>1 DEF KeyTidy, KeysRecoverable
<1>8. CASE Rotate
  BY <1>8 DEF Rotate, KeyTidy, KeysRecoverable
<1>9. CASE Start \/ LoadAbsent \/ LoadUnseen \/ LoadPlain \/ LoadEncrypted \/ Decrypt \/ InitCrypto
           \/ QueuesMigrated \/ MigrateAuth \/ MigrateBundles
  <2>1. /\ pc' \in {"load", "init", "load_key", "queues", "auth", "bundles", "save_key"}
        /\ UNCHANGED <<state_file, synced, key_file>>
    BY <1>9 DEF Start, LoadAbsent, LoadUnseen, LoadPlain, LoadEncrypted, Decrypt, InitCrypto,
                QueuesMigrated, MigrateAuth, MigrateBundles
  <2> QED
    BY <1>n, <2>1 DEF KeyTidy, KeysRecoverable
<1>10. CASE \/ \E e \in Envelope : MigrateEnvelope(e) \/ MigrateEnvelopeFails(e)
            \/ \E x \in Mailbox \cup Bundle \cup Envelope : Remove(x)
            \/ \E b \in Bundle : Expire(b)
            \/ \E e \in Config : Reconfigure(e)
            \/ UNCHANGED vars
  <2>1. UNCHANGED <<state_file, synced, key_file, key, pc>>
    BY <1>10 DEF MigrateEnvelope, MigrateEnvelopeFails, Remove, Expire, Reconfigure, vars
  <2> QED
    BY <1>n, <2>1 DEF KeyTidy, KeysRecoverable
<1> QED
  BY <1>1, <1>2, <1>3, <1>4, <1>5, <1>6, <1>7, <1>8, <1>9, <1>10
     DEF Next, Step, Load, ResolveKey, Migrate, Persist

-----------------------------------------------------------------------------
(* The lists in memory come from the file or shrink.                       *)
LEMMA MemorySource ==
  ASSUME TypeOK, IsFiniteSet(served), [Next]_vars
  PROVE  \/ mem' = mem \/ mem' = NoState
         \/ mem' = state_file /\ state_file # None
         \/ mem'.auth = mem.auth /\ mem'.bundles \subseteq mem.bundles /\ mem'.queues \subseteq mem.queues
<1> USE DEF process
<1>1. CASE LoadPlain \/ LoadEncrypted
  BY <1>1 DEF LoadPlain, LoadEncrypted
<1>2. CASE Decrypt
  BY <1>2, DecryptEffect DEF SameBut
<1>3. CASE InitCrypto
  BY <1>3, InitEffect DEF SameBut
<1>4. CASE \E e \in Envelope : MigrateEnvelope(e) \/ MigrateEnvelopeFails(e)
  BY <1>4, EnvelopeEffect DEF SameBut
<1>5. CASE Step /\ ~(LoadPlain \/ LoadEncrypted) /\ ~Decrypt /\ ~InitCrypto
           /\ ~\E e \in Envelope : MigrateEnvelope(e) \/ MigrateEnvelopeFails(e)
  BY <1>5 DEF Step, Start, Load, LoadAbsent, LoadUnseen, DecryptFails,
     ResolveKey, KeyFromEnv, KeyFromFile, KeyFileBad, KeyFromRelayKey, KeyGenerate, KeyUnread, KeyWrite,
     Migrate, QueuesMigrated, MigrateAuth, MigrateBundles, Persist, SaveRename, Serve, ServeUnsynced, Stop
<1>6. CASE ~Step
  BY <1>6 DEF Next, Remove, Expire, Crash, PowerLoss, Reconfigure, Rotate, Stop, vars
<1> QED
  BY <1>1, <1>2, <1>3, <1>4, <1>5, <1>6

(* The relay comes to serve in one of two steps only.                      *)
LEMMA ServingStarts ==
  ASSUME TypeOK, [Next]_vars, pc' = "serving"
  PROVE  Serve \/ ServeUnsynced \/ pc = "serving"
<1> USE DEF process, Goto
<1>1. CASE Step
  BY <1>1 DEF Step, Start, Load, LoadAbsent, LoadUnseen, LoadPlain, LoadEncrypted, Decrypt, DecryptFails,
     ResolveKey, KeyFromEnv, KeyFromFile, KeyFileBad, KeyFromRelayKey, KeyGenerate, KeyUnread, KeyWrite,
     Resolved, GeneratingPC,
     InitCrypto, Migrate, MigrateEnvelope, MigrateEnvelopeFails, QueuesMigrated, MigrateAuth, MigrateBundles,
     Persist, SaveRename, Stop
<1>2. CASE ~Step
  BY <1>2 DEF Next, Remove, Expire, Crash, PowerLoss, Reconfigure, Rotate, Stop, vars
<1> QED
  BY <1>1, <1>2

(* Each step keeps what was removed removed.                               *)
LEMMA GoneStep ==
  ASSUME TypeOK, IsFiniteSet(served), MemoryTidy, NothingLeft, NotResurrected, [Next]_vars
  PROVE  NothingLeft' /\ NotResurrected'
<1>1. CASE ~NoFault({"dir_sync"})'
  BY <1>1 DEF NothingLeft, NotResurrected
<1>2. CASE NoFault({"dir_sync"})'
  <2>0. NoFault({"dir_sync"})
    BY <1>2, FaultsKnown DEF NoFault
  <2>1. NothingLeft'
    <3> SUFFICES ASSUME gone' # {} \/ pc' = "serving"
                 PROVE  Bare(state_file') /\ Bare(synced') /\ Emptied(mem')
      BY DEF NothingLeft
    <3>1. ~ServeUnsynced
      BY <1>2 DEF ServeUnsynced, Swallow, NoFault
    <3>2. CASE Serve
      <4>1. state_file' = state_file /\ synced' = state_file /\ mem' = NoState /\ Emptied(state_file)
        BY <3>2 DEF Serve, Goto, MemoryTidy
      <4> QED
        BY <4>1, NoStateShape DEF Bare, Emptied
    <3>3. CASE ~Serve
      <4>1. gone # {} \/ pc = "serving"
        <5>1. CASE pc' = "serving"
          BY <3>1, <3>3, <5>1, ServingStarts
        <5>2. CASE gone' # {}
          BY <5>2, TableWriters DEF Remove, MigrateEnvelope, MigrateAuth, MigrateBundles, history
        <5> QED
          BY <5>1, <5>2
      <4>2. Bare(state_file) /\ Bare(synced) /\ Emptied(mem)
        BY <2>0, <4>1 DEF NothingLeft
      <4>3. Emptied(mem')
        BY <4>2, MemorySource, NoStateShape DEF Emptied, Bare
      <4>4. Bare(state_file') /\ Bare(synced')
        <5>1. CASE SaveRename
          BY <4>2, <5>1, PersistedShape DEF SaveRename, Goto, Bare
        <5>2. CASE PowerLoss \/ Rotate
          BY <4>2, <5>2 DEF PowerLoss, Rotate, Bare
        <5>3. CASE UNCHANGED <<state_file, synced>>
          BY <4>2, <5>3
        <5> QED
          BY <3>3, <5>1, <5>2, <5>3, FileWriters
      <4> QED
        BY <4>3, <4>4
    <3> QED
      BY <3>2, <3>3
  <2>2. NotResurrected'
    <3> SUFFICES ASSUME NEW x \in gone'
                 PROVE  x \notin db'.auth \cup db'.bundles \cup db'.queue
      BY DEF NotResurrected, Kept
    <3>1. \A y \in gone : y \notin db.auth \cup db.bundles \cup db.queue
      BY <2>0 DEF NotResurrected, Kept
    <3>2. ASSUME gone # {}
          PROVE  mem.auth = {} /\ mem.bundles = {} /\ mem.queues = {}
      BY <2>0, <3>2 DEF NothingLeft, Emptied
    <3>3. ASSUME NEW e \in Envelope, MigrateEnvelope(e)
          PROVE  x \notin db'.auth \cup db'.bundles \cup db'.queue
      BY <3>2, <3>3 DEF MigrateEnvelope, history
    <3>4. CASE MigrateAuth
      <4>1. gone' = gone
        BY <3>4 DEF MigrateAuth, history
      <4> QED
        BY <3>1, <3>2, <3>4, <4>1, TableEffects
    <3>5. CASE MigrateBundles
      <4>1. gone' = gone
        BY <3>5 DEF MigrateBundles, history
      <4> QED
        BY <3>1, <3>2, <3>5, <4>1, TableEffects
    <3>6. ASSUME NEW y \in Mailbox \cup Bundle \cup Envelope, Remove(y)
          PROVE  x \notin db'.auth \cup db'.bundles \cup db'.queue
      <4>1. gone' = gone \cup {y}
        BY <3>6 DEF Remove
      <4> QED
        BY <3>1, <3>6, <4>1, TableEffects
    <3>7. CASE UNCHANGED <<db, gone>>
      BY <3>1, <3>7
    <3> QED
      BY <3>3, <3>4, <3>5, <3>6, <3>7, TableWriters
  <2> QED
    BY <2>1, <2>2
<1> QED
  BY <1>1, <1>2

(* Each step keeps account of how far the migration has come.              *)
LEMMA ProgressStep ==
  ASSUME TypeOK, IsFiniteSet(served), FilesWhole, MemoryTidy, TablesWhole, Progress, [Next]_vars
  PROVE  Progress'
<1> SUFFICES ASSUME NoFault({"stat", "enqueue"})', state_file' # None
             PROVE  /\ pc' \in {"init", "queues", "auth"} => mem'.auth = state_file'.auth
                    /\ pc' \in {"init", "queues", "auth", "bundles"} => state_file'.bundles \subseteq mem'.bundles \cup expired'
                    /\ pc' \in {"init", "queues"} => state_file'.queues \subseteq mem'.queues \cup db'.queue
                    /\ pc' \in Working \ {"init", "queues"} => state_file'.queues \subseteq db'.queue
                    /\ pc' \in Working \ {"init", "queues", "auth"} => state_file'.auth \subseteq db'.auth \cup gone'
                    /\ pc' \in Working \ {"init", "queues", "auth", "bundles"} =>
                         state_file'.bundles \subseteq db'.bundles \cup expired' \cup gone'
  BY DEF Progress
<1>0. NoFault({"stat", "enqueue"})
  BY FaultsKnown DEF NoFault
<1>00. state_file # None =>
         /\ pc \in {"init", "queues", "auth"} => mem.auth = state_file.auth
         /\ pc \in {"init", "queues", "auth", "bundles"} => state_file.bundles \subseteq mem.bundles \cup expired
         /\ pc \in {"init", "queues"} => state_file.queues \subseteq mem.queues \cup db.queue
         /\ pc \in Working \ {"init", "queues"} => state_file.queues \subseteq db.queue
         /\ pc \in Working \ {"init", "queues", "auth"} => state_file.auth \subseteq db.auth \cup gone
         /\ pc \in Working \ {"init", "queues", "auth", "bundles"} =>
              state_file.bundles \subseteq db.bundles \cup expired \cup gone
  BY <1>0 DEF Progress
<1>t. state_file # None => state_file.auth \subseteq Mailbox /\ state_file.bundles \subseteq Bundle
  BY DEF FilesWhole
<1> USE DEF Goto, files, process, history, bounds
<1>1. CASE \/ Start \/ LoadEncrypted \/ SaveRename \/ Serve \/ ServeUnsynced \/ KeyFileBad \/ DecryptFails
           \/ Crash \/ PowerLoss \/ Rotate
  <2>1. pc' \in {"load", "load_key", "sync", "serving", "down"}
    BY <1>1 DEF Start, LoadEncrypted, SaveRename, Serve, ServeUnsynced, KeyFileBad, DecryptFails,
                Crash, PowerLoss, Rotate, Stop
  <2> QED
    BY <2>1 DEF Working
<1>2. ~LoadUnseen /\ ~\E e \in Envelope : MigrateEnvelopeFails(e)
  BY DEF LoadUnseen, MigrateEnvelopeFails, Swallow, NoFault
<1>3. ~LoadAbsent
  BY DEF LoadAbsent
<1>4. CASE LoadPlain
  <2>1. pc' = "init" /\ mem' = state_file /\ state_file' = state_file
    BY <1>4 DEF LoadPlain
  <2> QED
    BY <2>1 DEF Working
<1>5. CASE Decrypt
  <2>1. pc = "decrypt" /\ pc' = "init" /\ state_file' = state_file
    BY <1>5 DEF Decrypt
  <2>2. mem'.auth = state_file.auth /\ mem'.bundles = state_file.bundles /\ mem'.queues = state_file.queues
    BY <1>5, <2>1, DecryptEffect DEF MemoryTidy, SameBut
  <2> QED
    BY <2>1, <2>2 DEF Working
<1>6. CASE InitCrypto
  <2>1. pc = "init" /\ pc' = "queues" /\ UNCHANGED <<state_file, expired, db>>
    BY <1>6 DEF InitCrypto
  <2>2. mem'.auth = mem.auth /\ mem'.bundles = mem.bundles \ expired /\ mem'.queues = mem.queues
    BY <1>6, InitEffect DEF SameBut
  <2> QED
    BY <1>00, <2>1, <2>2 DEF Working
<1>7. CASE KeyFromEnv \/ KeyFromFile \/ KeyFromRelayKey \/ KeyGenerate \/ KeyUnread \/ KeyWrite
  <2>1. \/ pc' \in {"load_key_write", "decrypt"}
        \/ pc \in {"save_key", "save_key_write"} /\ pc' \in {"save_key_write", "save"}
    BY <1>7 DEF KeyFromEnv, KeyFromFile, KeyFromRelayKey, KeyGenerate, KeyUnread, KeyWrite, Resolving, Resolved,
                GeneratingPC
  <2>2. UNCHANGED <<mem, state_file, expired, db, gone>>
    BY <1>7 DEF KeyFromEnv, KeyFromFile, KeyFromRelayKey, KeyGenerate, KeyUnread, KeyWrite
  <2> QED
    BY <1>00, <2>1, <2>2 DEF Working
<1>8. ASSUME NEW e \in Envelope, MigrateEnvelope(e)
      PROVE  /\ pc = "queues" /\ UNCHANGED <<pc, state_file, expired, gone>>
             /\ mem'.auth = mem.auth /\ mem'.bundles = mem.bundles
             /\ mem.queues \cup db.queue \subseteq mem'.queues \cup db'.queue
  <2>1. pc = "queues" /\ UNCHANGED <<pc, state_file, expired, gone>>
    BY <1>8 DEF MigrateEnvelope
  <2>2. mem'.auth = mem.auth /\ mem'.bundles = mem.bundles /\ mem'.queues = mem.queues \ {e}
    BY <1>8, EnvelopeEffect DEF SameBut
  <2>3. db'.queue = db.queue \cup {e}
    BY <1>8, TableEffects
  <2> QED
    BY <2>1, <2>2, <2>3
<1>9. CASE QueuesMigrated
  <2>1. pc = "queues" /\ pc' = "auth" /\ mem.queues = {} /\ UNCHANGED <<mem, state_file, expired, db, gone>>
    BY <1>9 DEF QueuesMigrated
  <2> QED
    BY <1>00, <2>1 DEF Working
<1>10. CASE MigrateAuth
  <2>1. pc = "auth" /\ pc' = "bundles" /\ UNCHANGED <<mem, state_file, expired, gone>>
    BY <1>10 DEF MigrateAuth
  <2>2. db'.auth = (IF db.auth = {} THEN mem.auth ELSE db.auth) /\ db'.queue = db.queue
    BY <1>10, TableEffects
  <2>3. state_file.auth \subseteq db'.auth \cup gone
    <3>1. CASE db.auth = {}
      BY <1>00, <2>1, <2>2, <3>1
    <3>2. CASE db.auth # {}
      BY <1>t, <2>1, <2>2, <3>2 DEF TablesWhole
    <3> QED
      BY <3>1, <3>2
  <2> QED
    BY <1>00, <2>1, <2>2, <2>3 DEF Working
<1>11. CASE MigrateBundles
  <2>1. pc = "bundles" /\ pc' = "save_key" /\ UNCHANGED <<mem, state_file, expired, gone>>
    BY <1>11 DEF MigrateBundles
  <2>2. /\ db'.bundles = (IF db.bundles = {} THEN mem.bundles ELSE db.bundles)
        /\ db'.auth = db.auth /\ db'.queue = db.queue
    BY <1>11, TableEffects
  <2>3. state_file.bundles \subseteq db'.bundles \cup expired \cup gone
    <3>1. CASE db.bundles = {}
      BY <1>00, <2>1, <2>2, <3>1
    <3>2. CASE db.bundles # {}
      BY <1>t, <2>1, <2>2, <3>2 DEF TablesWhole
    <3> QED
      BY <3>1, <3>2
  <2> QED
    BY <1>00, <2>1, <2>2, <2>3 DEF Working
<1>12. CASE \E x \in Mailbox \cup Bundle \cup Envelope : Remove(x)
  <2>1. pc' = "serving"
    BY <1>12 DEF Remove
  <2> QED
    BY <2>1 DEF Working
<1>13. CASE \/ \E b \in Bundle : Expire(b)
            \/ \E e \in Config : Reconfigure(e)
            \/ UNCHANGED vars
  <2>1. UNCHANGED <<pc, mem, state_file, db, gone>> /\ expired \subseteq expired'
    BY <1>13 DEF Expire, Reconfigure, vars
  <2> QED
    BY <1>00, <2>1
<1>14. CASE \E e \in Envelope : MigrateEnvelope(e)
  <2>1. /\ pc = "queues" /\ UNCHANGED <<pc, state_file, expired, gone>>
        /\ mem'.auth = mem.auth /\ mem'.bundles = mem.bundles
        /\ mem.queues \cup db.queue \subseteq mem'.queues \cup db'.queue
    BY <1>8, <1>14
  <2> QED
    BY <1>00, <2>1 DEF Working
<1> QED
  BY <1>1, <1>2, <1>3, <1>4, <1>5, <1>6, <1>7, <1>9, <1>10, <1>11, <1>12, <1>13, <1>14
     DEF Next, Step, Load, ResolveKey, Migrate, Persist

-----------------------------------------------------------------------------
(* Of the three kinds of install, the state file and what it stands for.   *)
LEMMA InstallShape ==
  ASSUME Init
  PROVE  \/ state_file = None /\ served = {}
         \/ /\ state_file \in DiskStates /\ state_file # None /\ Root(state_file) = 0 /\ served = {0}
            /\ state_file.auth = Mailbox /\ state_file.bundles = Bundle
            /\ (state_file.encrypted_crypto # None => state_file.encrypted_crypto.secret \in Secret)
<1>1. env.AXENO_KEY \in Secret \cup {None}
  BY DEF Init, Config
<1>2. CASE state_file = None
  BY <1>2 DEF Init
<1>3. CASE state_file = DiskState(0, None, Mailbox, Bundle, Envelope)
  <2>1. state_file \in DiskStates
    BY <1>3 DEF DiskState, DiskStates
  <2>2. state_file # None
    BY <2>1, NoneAssumption
  <2>3. state_file.crypto = 0 /\ state_file.encrypted_crypto = None
        /\ state_file.auth = Mailbox /\ state_file.bundles = Bundle
    BY <1>3 DEF DiskState
  <2> QED
    BY <2>1, <2>2, <2>3 DEF Init, Root
<1>4. CASE env.AXENO_KEY # None /\ state_file = DiskState(None, Blob(0, env.AXENO_KEY), Mailbox, Bundle, Envelope)
  <2>1. PICK blob : blob = Blob(0, env.AXENO_KEY)
    OBVIOUS
  <2>2. blob \in EncryptedKeys /\ blob.root = 0 /\ blob.secret \in Secret
    BY <1>1, <1>4, <2>1 DEF Blob, EncryptedKeys
  <2>3. blob # None
    BY <2>2, NoneAssumption
  <2>4. state_file = DiskState(None, blob, Mailbox, Bundle, Envelope)
    BY <1>4, <2>1
  <2>5. state_file \in DiskStates
    BY <2>2, <2>4 DEF DiskState, DiskStates
  <2>6. state_file # None
    BY <2>5, NoneAssumption
  <2>7. state_file.encrypted_crypto = blob /\ state_file.auth = Mailbox /\ state_file.bundles = Bundle
    BY <2>4 DEF DiskState
  <2> QED
    BY <2>2, <2>3, <2>5, <2>6, <2>7 DEF Init, Root
<1> QED
  BY <1>2, <1>3, <1>4 DEF Init

(* The inductive invariant holds of every install.                         *)
LEMMA InitInv ==
  ASSUME Init
  PROVE  StartupInv
<1>0. /\ synced = state_file /\ key_file = None /\ pc = "down" /\ mem = NoState /\ key = None
      /\ stops = 0 /\ changes = 0 /\ swallowed = {} /\ gone = {} /\ expired = {} /\ env \in Config
  BY DEF Init
<1>1. db \in Tables /\ db.auth = {} /\ db.bundles = {} /\ db.queue = {}
  BY DEF Init, Tables
<1>2. TypeOK
  <2>1. state_file \in DiskStates \cup {None} /\ synced \in DiskStates \cup {None} /\ served \subseteq Nat
    BY <1>0, InstallShape
  <2>2. /\ key_file \in Nat \cup {None, Empty} /\ env \in Config /\ expired \subseteq Bundle
        /\ pc \in PC /\ mem \in DiskStates /\ key \in Secret \cup Nat \cup {None}
        /\ swallowed \subseteq Fault /\ gone \subseteq Mailbox \cup Bundle \cup Envelope
    BY <1>0, NoStateShape DEF PC
  <2>3. stops \in 0 .. MaxStops /\ changes \in 0 .. MaxChanges
    BY <1>0, BoundAssumption
  <2> QED
    BY <1>0, <1>1, <2>1, <2>2, <2>3 DEF TypeOK
<1>3. IsFiniteSet(served)
  <2>1. IsFiniteSet({}) /\ IsFiniteSet({0})
    BY FS_EmptySet, FS_Singleton
  <2> QED
    BY <2>1, InstallShape
<1>4. FilesWhole
  <2>1. 0 # None
    BY SetsAssumption
  <2> QED
    BY <1>0, <2>1, InstallShape DEF FilesWhole
<1>5. MemoryTidy /\ UnsyncedEmptied /\ TablesWhole
  BY <1>0, <1>1, NoStateShape DEF MemoryTidy, UnsyncedEmptied, TablesWhole
<1>6. RootsAgree
  BY <1>0, InstallShape DEF RootsAgree, Working
<1>7. KeyTidy /\ KeysRecoverable
  BY <1>0, InstallShape DEF KeyTidy, KeysRecoverable
<1>8. NothingLeft /\ NotResurrected /\ Progress
  BY <1>0, NoStateShape DEF NothingLeft, NotResurrected, Progress, Working
<1> QED
  BY <1>2, <1>3, <1>4, <1>5, <1>6, <1>7, <1>8 DEF StartupInv

(* Every step of the process, the machine and the operator keeps it.       *)
LEMMA InvStep ==
  ASSUME StartupInv, [Next]_vars
  PROVE  StartupInv'
<1>1. TypeOK' /\ IsFiniteSet(served')
  BY TypeStep DEF StartupInv
<1>2. FilesWhole' /\ UnsyncedEmptied'
  BY FilesStep DEF StartupInv
<1>3. MemoryTidy'
  BY MemoryStep DEF StartupInv
<1>4. TablesWhole'
  BY TablesStep DEF StartupInv
<1>5. RootsAgree'
  BY RootsStep DEF StartupInv
<1>6. KeyTidy' /\ KeysRecoverable'
  BY KeyStep DEF StartupInv
<1>7. NothingLeft' /\ NotResurrected'
  BY GoneStep DEF StartupInv
<1>8. Progress'
  BY ProgressStep DEF StartupInv
<1> QED
  BY <1>1, <1>2, <1>3, <1>4, <1>5, <1>6, <1>7, <1>8 DEF StartupInv

(* So it holds at every moment.                                            *)
LEMMA Invariance == Spec => []StartupInv
<1>1. Init => StartupInv
  BY InitInv
<1>2. StartupInv /\ [Next]_vars => StartupInv'
  BY InvStep
<1> QED
  BY <1>1, <1>2, PTL DEF Spec

(* Start-up is type correct: every step of async_main finds in memory what *)
(* the steps before it put there (the encrypted keys when it decrypts, the *)
(* trust root when it migrates, a secret when it persists).                *)
THEOREM TypeCorrect == Spec => []TypeOK
<1>1. StartupInv => TypeOK
  BY DEF StartupInv
<1> QED
  BY <1>1, Invariance, PTL

(* However often start-up stops, in whatever step, and however the secret  *)
(* is configured in between, clients are given one trust root until the    *)
(* operator rotates it, unless the state file was not seen or not synced.  *)
THEOREM TrustRootAlwaysStable == Spec => []TrustRootStable
<1>1. StartupInv => TrustRootStable
  <2> SUFFICES ASSUME StartupInv, NoFault({"stat", "dir_sync"})
               PROVE  Cardinality(served) <= 1
    BY DEF TrustRootStable
  <2>1. \A s \in served : s = Root(state_file)
    BY DEF StartupInv, RootsAgree
  <2>2. served = {} \/ served = {Root(state_file)}
    BY <2>1
  <2>3. Cardinality({}) = 0 /\ Cardinality({Root(state_file)}) = 1
    BY FS_EmptySet, FS_Singleton
  <2> QED
    BY <2>2, <2>3
<1> QED
  BY <1>1, Invariance, PTL

(* relay_encryption_key never overwrites a relay-key that the state file,  *)
(* or the one a power loss would bring back, depends on, unless the file   *)
(* could not be read.                                                      *)
THEOREM KeysAlwaysRecoverable == Spec => []KeysRecoverable
<1>1. StartupInv => KeysRecoverable
  BY DEF StartupInv
<1> QED
  BY <1>1, Invariance, PTL

(* The migration is one-time: what was removed while the relay was serving *)
(* does not come back with any later start, unless an unsynced rename is   *)
(* undone.                                                                 *)
THEOREM NeverResurrected == Spec => []NotResurrected
<1>1. StartupInv => NotResurrected
  BY DEF StartupInv
<1> QED
  BY <1>1, Invariance, PTL

(* save_disk_state drops the old lists only when their contents are in the *)
(* tables (or expired, or removed since), and no power loss drops them     *)
(* otherwise: no step loses a part of an old install, unless its file was  *)
(* not seen or an enqueue failed.                                          *)
THEOREM LegacyAlwaysKept == Spec => LegacyKept
<1>1. ASSUME StartupInv, [Next]_vars, changes' = changes, NoFault({"stat", "enqueue"}),
             NEW x \in Mailbox \cup Bundle \cup Envelope, InFile(x)
      PROVE  InFile(x)' \/ Kept(x)' \/ x \in expired \cup gone
  <2>0. state_file # None /\ x \in state_file.auth \cup state_file.bundles \cup state_file.queues
    BY <1>1 DEF InFile
  <2>1. CASE SaveRename
    <3>1. pc = "save" /\ db' = db
      BY <2>1 DEF SaveRename, Goto
    <3>2. /\ state_file.queues \subseteq db.queue /\ state_file.auth \subseteq db.auth \cup gone
          /\ state_file.bundles \subseteq db.bundles \cup expired \cup gone
      BY <1>1, <2>0, <3>1 DEF StartupInv, Progress, Working
    <3> QED
      BY <2>0, <3>1, <3>2 DEF Kept
  <2>2. CASE PowerLoss
    <3>1. state_file = synced \/ Emptied(state_file)
      BY <1>1 DEF StartupInv, UnsyncedEmptied
    <3>2. state_file' = state_file
      BY <2>0, <2>2, <3>1 DEF PowerLoss, Emptied
    <3> QED
      BY <2>0, <3>2 DEF InFile
  <2>3. CASE Rotate
    <3>1. changes \in Nat /\ changes' = changes + 1
      BY <1>1, <2>3, BoundAssumption DEF StartupInv, TypeOK, Rotate
    <3> QED
      BY <1>1, <3>1
  <2>4. CASE Serve \/ UNCHANGED <<state_file, synced>>
    <3>1. state_file' = state_file
      BY <2>4 DEF Serve
    <3> QED
      BY <2>0, <3>1 DEF InFile
  <2> QED
    BY <1>1, <2>1, <2>2, <2>3, <2>4, FileWriters
<1>2. StartupInv /\ [Next]_vars =>
        [changes' = changes /\ NoFault({"stat", "enqueue"}) =>
           \A x \in Mailbox \cup Bundle \cup Envelope :
             InFile(x) => InFile(x)' \/ Kept(x)' \/ x \in expired \cup gone]_vars
  BY <1>1
<1> QED
  BY <1>2, Invariance, PTL DEF Spec, LegacyKept
=============================================================================
