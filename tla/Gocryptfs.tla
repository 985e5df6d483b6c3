------------------------------- MODULE Gocryptfs -------------------------------
(****************************************************************************)
(* The encrypted storage from its initialisation to its use:                *)
(* services/gocryptfs_{init,mount,unmount,rotate,reveal}.py and user_init.py *)
(* under the lock of the secrets directory, the gate in front of it         *)
(* (dependencies/require_gocryptfs.py), runtime/cipherdir.py, and the       *)
(* watchdog, which runs in a process of its own and takes no lock.          *)
(*                                                                          *)
(* Every await is a step; calls raise; the secrets are on a medium that     *)
(* comes and goes; the container restarts. LockManager is kept to its       *)
(* contract: a reveal locks the directory READ, everybody else WRITE.       *)
(*                                                                          *)
(* Secrets are named by who made them: the gocryptfs passphrase and the     *)
(* Fernet key by the initialisation that generated them, gocryptfs.conf by  *)
(* the passphrase that opens it, a master password by the request that      *)
(* chose it. Encryption is ideal: only the right password opens a file.     *)
(****************************************************************************)
EXTENDS Naturals

CONSTANTS
    Request,    \* requests of all six services
    Before,     \* the initialisation of a storage that was there at the start
    None,       \* no file, no row, nobody
    MaxFaults,  \* bound: how many calls raise
    MaxUnplugs, \* bound: how often the secrets are taken away
    MaxCrashes  \* bound: how often the container is killed

Maker == Request \cup {Before}

ASSUME NullAssumption == Before \notin Request /\ None \notin Maker
ASSUME BoundAssumption == MaxFaults \in Nat /\ MaxUnplugs \in Nat /\ MaxCrashes \in Nat

VARIABLES
    artifact,   \* artifact[a]: who made the file a
    password,   \* the master password that opens the passphrase file
    plugged,    \* is the secrets directory there?
    mounted,    \* is the cipherdir mounted?
    content,    \* content[p]: what is in the cipherdir and in the bare mountpoint
    root,       \* root[p]: the Fernet key that the root user's secret is encrypted with
    watchdog,   \* where the watchdog's loop is
    pc,         \* pc[r]: where request r is
    kind,       \* kind[r]: its service
    given,      \* given[r]: the master password its client gives
    key,        \* key[r]: the passphrase it decrypted
    place,      \* place[r]: where the database is that its session reads
    pooled,     \* is there a pooled connection to the database in the cipherdir?
    blind,      \* initialisations that got the lock although there was a storage
    cut,        \* mounts that the watchdog unmounted before they were through
    logged,     \* mounts whose rollback failed
    raised,     \* mounts that raised although gocryptfs had mounted
    faults,     \* how many calls raised so far
    unplugs,    \* how often the secrets were taken away so far
    crashes     \* how often the container was killed so far

files    == <<artifact, password>>
storage  == <<mounted, content, root>>
inputs   == <<kind, given>>
sessions == <<place, pooled>>
ghosts   == <<blind, cut, logged, raised>>
outside  == <<plugged, unplugs, crashes>>
vars     == <<files, storage, outside, watchdog, pc, inputs, key, sessions, ghosts, faults>>

Secret == {"passphrase", "fernet"}
Artifact == Secret \cup {"conf", "diriv"}
Place == {"vault", "bare"}

\* A mounted directory tree, and a database with tables in it.
Content == {"tree", "tables"}

Kind == {"init", "mount", "unmount", "rotate", "reveal", "user"}

Ended == {"ok", "error", "dead"}

\* Before the lock is taken, and after it was released.
Outside == {"new", "cipherdir", "mountpoint", "passphrase", "fernet", "waiting"} \cup Ended

PC == Outside \cup
    {"inside", "written", "created", "drop_passphrase", "drop_conf", "drop_diriv",
     "drop_fernet", "opened", "mounted", "tree", "tables", "rollback", "selected"}

TypeOK ==
    /\ artifact \in [Artifact -> Maker \cup {None}]
    /\ password \in Maker \cup {None}
    /\ password = None <=> artifact["passphrase"] = None
    /\ plugged \in BOOLEAN /\ mounted \in BOOLEAN
    /\ content \in [Place -> SUBSET Content]
    /\ root \in [Place -> Maker \cup {None}]
    /\ watchdog \in {"asleep", "woken", "unmounting", "stopped"}
    /\ pc \in [Request -> PC]
    /\ kind \in [Request -> Kind \cup {"none"}]
    /\ given \in [Request -> Maker \cup {None}]
    /\ key \in [Request -> Maker \cup {None}]
    /\ place \in [Request -> Place] /\ pooled \in BOOLEAN
    /\ blind \subseteq Request /\ cut \subseteq Request /\ logged \subseteq Request
    /\ raised \subseteq Request
    /\ faults \in 0..MaxFaults /\ unplugs \in 0..MaxUnplugs /\ crashes \in 0..MaxCrashes

At(r, service, label) == kind[r] = service /\ pc[r] = label
Goto(r, label) == pc' = [pc EXCEPT ![r] = label]
Set(r, f, value) == [f EXCEPT ![r] = value]

Fault == faults < MaxFaults /\ faults' = faults + 1
NoFault == UNCHANGED faults

\* A call raises, as it must when the condition holds.
Raises(condition) == Fault \/ (NoFault /\ condition)

\* isfile, isdir and ismount answer False when stat raises; so does is_cipherdir_created
\* when the configuration cannot be read.
Sees(seen, truth) == \/ NoFault /\ (seen <=> truth)
                     \/ Fault /\ truth /\ seen = FALSE

\* A file is there, and so is the directory it is in.
Present(a) == artifact[a] # None /\ (a \in Secret => plugged)
CipherdirCreated == artifact["conf"] # None /\ artifact["diriv"] # None

------------------------------------------------------------------------------
(* The gate. Whatever it sees may have changed when the lock is there.      *)

Arrive(r) ==
    /\ pc[r] = "new"
    /\ \E k \in Kind, p \in {Before} \cup {s \in Request : kind[s] \in {"init", "rotate"}} :
          /\ kind' = Set(r, kind, k)
          /\ given' = Set(r, given, IF k = "init" THEN r ELSE p)
    /\ Goto(r, "cipherdir")
    /\ UNCHANGED <<files, storage, outside, watchdog, key, sessions, ghosts, faults>>

\* What a service demands of the cipherdir, the mountpoint and the passphrase.
Demands(k, resource) ==
    CASE resource \in {"cipherdir", "passphrase"} -> IF k = "init" THEN {FALSE} ELSE {TRUE}
      [] resource = "mountpoint" ->
            IF k \in {"init", "mount"} THEN {FALSE}
            ELSE IF k \in {"unmount", "user"} THEN {TRUE}
            ELSE BOOLEAN

\* One check of it: 502, 503, or on to the next.
Check(r, resource, truth, following) ==
    /\ pc[r] = resource
    /\ \E seen \in BOOLEAN :
          /\ Sees(seen, truth)
          /\ Goto(r, IF seen \in Demands(kind[r], resource) THEN following ELSE "error")
    /\ UNCHANGED <<files, storage, outside, watchdog, inputs, key, sessions, ghosts>>

CheckCipherdir(r) == Check(r, "cipherdir", CipherdirCreated, "mountpoint")
CheckMountpoint(r) == Check(r, "mountpoint", mounted, "passphrase")
CheckPassphrase(r) ==
    Check(r, "passphrase", Present("passphrase"), IF kind[r] = "init" THEN "fernet" ELSE "waiting")

\* isfile(FERNET_ENCRYPTION_KEY_PATH), the last check before the lock of an initialisation
CheckFernet(r) ==
    /\ pc[r] = "fernet"
    /\ \E seen \in BOOLEAN :
          /\ Sees(seen, Present("fernet"))
          /\ Goto(r, IF seen THEN "error" ELSE "waiting")
    /\ UNCHANGED <<files, storage, outside, watchdog, inputs, key, sessions, ghosts>>

------------------------------------------------------------------------------
(* The lock of the secrets directory.                                       *)

\* (mutant) An exception leaves the lock registered.
HoldingAfterError(r) == pc[r] \notin Outside \ {"error"}

Holding(r) == pc[r] \notin Outside

\* (mutant) A rotation only reads the passphrase before it writes it.
SharesWithRotation(r) == kind[r] \in {"reveal", "rotate"}

\* (mutant) The root user is not made of secrets.
SharesWithUser(r) == kind[r] \in {"reveal", "user"}

\* (mutant) Unmounting does not touch the secrets.
SharesWithUnmount(r) == kind[r] \in {"reveal", "unmount", "mount"}

Shares(r) == kind[r] = "reveal"

\* There is a storage, or a part of one that the gate of an initialisation refuses.
Initialised ==
    CipherdirCreated \/ artifact["passphrase"] # None \/ artifact["fernet"] # None

Lock(r) ==
    /\ pc[r] = "waiting"
    /\ \A s \in Request \ {r} : Holding(s) => Shares(r) /\ Shares(s)
    /\ Goto(r, "inside")
    /\ blind' = IF kind[r] = "init" /\ Initialised THEN blind \cup {r} ELSE blind
    /\ UNCHANGED <<files, storage, outside, watchdog, inputs, key, sessions, cut, logged,
                   raised, faults>>

------------------------------------------------------------------------------
(* gocryptfs_init                                                           *)

\* write(GOCRYPTFS_PASSPHRASE_PATH, ...)
WritePassphrase(r) ==
    /\ At(r, "init", "inside")
    /\ LET Written == /\ artifact' = Set("passphrase", artifact, r)
                      /\ password' = r
       IN  \/ NoFault /\ plugged /\ Written /\ Goto(r, "written")
           \/ Fault /\ plugged /\ Written /\ Goto(r, "drop_passphrase")
           \/ Raises(~ plugged) /\ UNCHANGED files /\ Goto(r, "drop_passphrase")
    /\ UNCHANGED <<storage, outside, watchdog, inputs, key, sessions, ghosts>>

\* gocryptfs -init refuses a directory with anything in it.
CipherdirEmpty ==
    artifact["conf"] = None /\ artifact["diriv"] = None /\ content["vault"] = {}

\* cipherdir_create
CreateCipherdir(r) ==
    /\ At(r, "init", "written")
    /\ LET conf == Set("conf", artifact, r)
           both == Set("diriv", conf, r)
       IN  \/ NoFault /\ CipherdirEmpty /\ artifact' = both /\ Goto(r, "created")
           \/ /\ Fault /\ CipherdirEmpty
              /\ artifact' \in {conf, both} /\ Goto(r, "drop_passphrase")
           \/ Raises(~ CipherdirEmpty) /\ UNCHANGED artifact /\ Goto(r, "drop_passphrase")
    /\ UNCHANGED <<password, storage, outside, watchdog, inputs, key, sessions, ghosts>>

\* write(FERNET_ENCRYPTION_KEY_PATH, ...)
WriteFernet(r) ==
    /\ At(r, "init", "created")
    /\ LET written == Set("fernet", artifact, r)
       IN  \/ NoFault /\ plugged /\ artifact' = written /\ Goto(r, "ok")
           \/ Fault /\ plugged /\ artifact' = written /\ Goto(r, "drop_passphrase")
           \/ Raises(~ plugged) /\ UNCHANGED artifact /\ Goto(r, "drop_passphrase")
    /\ UNCHANGED <<password, storage, outside, watchdog, inputs, key, sessions, ghosts>>

\* The cleanup deletes four files whoever made them; a missing one is no error, also
\* when its directory is missing. A delete that raises ends it.
Drop(r, label, a, following) ==
    /\ At(r, "init", label)
    /\ LET dropped == Set(a, artifact, None)
       IN  \/ /\ NoFault /\ Goto(r, following)
              /\ artifact' = IF Present(a) THEN dropped ELSE artifact
           \/ /\ Fault /\ Present(a) /\ Goto(r, "error")
              /\ artifact' \in {artifact, dropped}
    /\ password' = IF artifact'["passphrase"] = None THEN None ELSE password
    /\ UNCHANGED <<storage, outside, watchdog, inputs, key, sessions, ghosts>>

Cleanup(r) ==
    \/ Drop(r, "drop_passphrase", "passphrase", "drop_conf")
    \/ Drop(r, "drop_conf", "conf", "drop_diriv")
    \/ Drop(r, "drop_diriv", "diriv", "drop_fernet")
    \/ Drop(r, "drop_fernet", "fernet", "error")

------------------------------------------------------------------------------
(* The passphrase, opened with the master password of the client.           *)

Opens(r) == Present("passphrase") /\ password = given[r]

\* read(GOCRYPTFS_PASSPHRASE_PATH) and decrypt_passphrase, which is all a reveal does
\* (a wrong password is answered 401)
ReadPassphrase(r) ==
    /\ kind[r] # "init" /\ pc[r] = "inside"
    /\ \/ /\ NoFault /\ Opens(r)
          /\ key' = Set(r, key, artifact["passphrase"])
          /\ Goto(r, IF kind[r] = "reveal" THEN "ok" ELSE "opened")
       \/ Raises(~ Opens(r)) /\ UNCHANGED key /\ Goto(r, "error")
    /\ UNCHANGED <<files, storage, outside, watchdog, inputs, sessions, ghosts>>

\* (mutant) The file is written in place.
RewriteInPlace(r) ==
    /\ At(r, "rotate", "opened")
    /\ \/ /\ NoFault /\ plugged /\ Goto(r, "ok")
          /\ artifact' = Set("passphrase", artifact, key[r]) /\ password' = r
       \/ /\ Fault /\ plugged /\ Goto(r, "error")
          /\ UNCHANGED artifact /\ password' = None
    /\ UNCHANGED <<storage, outside, watchdog, inputs, key, sessions, ghosts>>

\* gocryptfs_rotate: write(GOCRYPTFS_PASSPHRASE_PATH, ...) with the new master password
Rewrite(r) ==
    /\ At(r, "rotate", "opened")
    /\ LET Written == /\ artifact' = Set("passphrase", artifact, key[r])
                      /\ password' = r
       IN  \/ NoFault /\ plugged /\ Written /\ Goto(r, "ok")
           \/ Fault /\ plugged /\ Written /\ Goto(r, "error")
           \/ Raises(~ plugged) /\ UNCHANGED files /\ Goto(r, "error")
    /\ UNCHANGED <<storage, outside, watchdog, inputs, key, sessions, ghosts>>

------------------------------------------------------------------------------
(* gocryptfs_mount and gocryptfs_unmount. What is written to the mountpoint *)
(* while nothing is mounted is plain text in the container.                 *)

Here == IF mounted THEN "vault" ELSE "bare"

\* gocryptfs refuses a mountpoint that is in use or not empty, and a passphrase that is
\* not the one of the configuration.
Mountable(r) == ~ mounted /\ content["bare"] = {} /\ artifact["conf"] = key[r]

\* cipherdir_mount. Its finally clause removes the passfile after gocryptfs has mounted;
\* when that raises, the service is not in the try block of its rollback yet.
Mount(r) ==
    /\ At(r, "mount", "opened")
    /\ \/ /\ NoFault /\ Mountable(r)
          /\ mounted' = TRUE /\ Goto(r, "mounted") /\ UNCHANGED raised
       \/ /\ Fault /\ Mountable(r)
          /\ mounted' = TRUE /\ Goto(r, "error") /\ raised' = raised \cup {r}
       \/ Raises(~ Mountable(r)) /\ UNCHANGED <<mounted, raised>> /\ Goto(r, "error")
    /\ UNCHANGED <<files, content, root, outside, watchdog, inputs, key, sessions, blind, cut,
                   logged>>

Holds(p, what) == content' = [content EXCEPT ![p] = @ \cup {what}]

\* gocryptfs encrypts no name without the IV of the directory.
Writable == mounted => artifact["diriv"] # None

\* mktree of the directories that are not there
MakeTree(r) ==
    /\ At(r, "mount", "mounted")
    /\ \/ NoFault /\ Writable /\ Holds(Here, "tree") /\ Goto(r, "tree")
       \/ Fault /\ Writable /\ Holds(Here, "tree") /\ Goto(r, "rollback")
       \/ Raises(~ Writable) /\ UNCHANGED content /\ Goto(r, "rollback")
    /\ UNCHANGED <<files, mounted, root, outside, watchdog, inputs, key, sessions, ghosts>>

\* A session opens the database that it finds in the mountpoint, or takes a pooled
\* connection, which still reads the one in the cipherdir when the watchdog has unmounted it.
Database == {Here} \cup {p \in {"vault"} : pooled}

Pools(p) == pooled' = (pooled \/ p = "vault")

\* create_all_tables
CreateTables(r) ==
    /\ At(r, "mount", "tree")
    /\ \/ \E p \in Database :
             /\ NoFault /\ "tree" \in content[p]
             /\ Holds(p, "tables") /\ Pools(p) /\ Goto(r, "tables")
       \/ /\ Raises("tree" \notin content[Here])
          /\ UNCHANGED <<content, pooled>> /\ Goto(r, "rollback")
    /\ UNCHANGED <<files, mounted, root, outside, watchdog, inputs, key, place, ghosts>>

\* check_db_integrity, on a connection of its own
CheckIntegrity(r) ==
    /\ At(r, "mount", "tables")
    /\ \/ NoFault /\ "tree" \in content[Here] /\ Goto(r, "ok")
       \/ Raises("tree" \notin content[Here]) /\ Goto(r, "rollback")
    /\ UNCHANGED <<files, storage, outside, watchdog, inputs, key, sessions, ghosts>>

\* cipherdir_unmount, or fusermount3 -uz that finds nothing mounted and fails
Unmounts == NoFault /\ mounted /\ mounted' = FALSE
FailsToUnmount == Raises(~ mounted) /\ UNCHANGED mounted

\* (mutant) The storage stays mounted when its database is not good.
RollbackMountNever(r) ==
    /\ At(r, "mount", "rollback") /\ Goto(r, "error")
    /\ UNCHANGED <<files, storage, outside, watchdog, inputs, key, sessions, ghosts, faults>>

RollbackMount(r) ==
    /\ At(r, "mount", "rollback") /\ Goto(r, "error")
    /\ \/ Unmounts /\ UNCHANGED logged
       \/ FailsToUnmount /\ logged' = logged \cup {r}
    /\ UNCHANGED <<files, content, root, outside, watchdog, inputs, key, sessions, blind, cut,
                   raised>>

\* engine.sync_engine.dispose() and cipherdir_unmount
Unmount(r) ==
    /\ At(r, "unmount", "opened")
    /\ pooled' = FALSE
    /\ \/ Unmounts /\ Goto(r, "ok")
       \/ FailsToUnmount /\ Goto(r, "error")
    /\ UNCHANGED <<files, content, root, outside, watchdog, inputs, key, place, ghosts>>

------------------------------------------------------------------------------
(* user_init, the first transaction in the database.                        *)

\* select(User, is_root=True)
SelectRoot(r) ==
    /\ At(r, "user", "opened")
    /\ \/ \E p \in Database :
             /\ NoFault /\ "tables" \in content[p]
             /\ place' = Set(r, place, p) /\ Pools(p)
             /\ Goto(r, IF root[p] = None THEN "selected" ELSE "error")
       \/ Raises("tables" \notin content[Here]) /\ UNCHANGED sessions /\ Goto(r, "error")
    /\ UNCHANGED <<files, storage, outside, watchdog, inputs, key, ghosts>>

\* insert of the user and of its key, whose secret is encrypted, and commit. The Fernet
\* key may be cached. SQLite makes its journal next to where the database was.
InsertRoot(r) ==
    /\ At(r, "user", "selected")
    /\ LET p == place[r]
           possible == p = Here /\ artifact["fernet"] # None
       IN  \/ /\ NoFault /\ possible
              /\ root' = Set(p, root, artifact["fernet"]) /\ Goto(r, "ok")
           \/ /\ Raises(~ possible \/ ~ Present("fernet"))
              /\ UNCHANGED root /\ Goto(r, "error")
    /\ UNCHANGED <<files, mounted, content, outside, watchdog, inputs, key, sessions, ghosts>>

------------------------------------------------------------------------------
(* The watchdog: entrypoint.sh starts it again and again.                   *)

\* r is between the mount and its answer.
Mounting(r) == kind[r] = "mount" /\ pc[r] \in {"mounted", "tree", "tables"}

SecretsGone == ~ Present("passphrase")

\* ismount(INSTALL_MOUNTPOINT)
Wake ==
    /\ watchdog = "asleep" /\ mounted
    /\ watchdog' = "woken"
    /\ UNCHANGED <<files, storage, outside, pc, inputs, key, sessions, ghosts, faults>>

\* (mutant) The file is not looked for in the directory.
WatchDirectory ==
    /\ watchdog = "woken"
    /\ \E seen \in BOOLEAN :
          Sees(seen, plugged) /\ watchdog' = IF seen THEN "asleep" ELSE "unmounting"
    /\ UNCHANGED <<files, storage, outside, pc, inputs, key, sessions, ghosts>>

\* isdir(INSTALL_SECRETS) and isfile(GOCRYPTFS_PASSPHRASE_PATH)
Watch ==
    /\ watchdog = "woken"
    /\ \E seen \in BOOLEAN :
          Sees(seen, ~ SecretsGone) /\ watchdog' = IF seen THEN "asleep" ELSE "unmounting"
    /\ UNCHANGED <<files, storage, outside, pc, inputs, key, sessions, ghosts>>

\* cipherdir_unmount; under `set -e` the loop does not outlive a run that fails.
EmergencyUnmount ==
    /\ watchdog = "unmounting"
    /\ \/ /\ Unmounts /\ watchdog' = "asleep"
          /\ cut' = cut \cup {r \in Request : Mounting(r)}
       \/ FailsToUnmount /\ watchdog' = "stopped" /\ UNCHANGED cut
    /\ UNCHANGED <<files, content, root, outside, pc, inputs, key, sessions, blind, logged,
                   raised>>

Watchdog == Wake \/ Watch \/ EmergencyUnmount

------------------------------------------------------------------------------

Unplug ==
    /\ plugged /\ unplugs < MaxUnplugs
    /\ plugged' = FALSE /\ unplugs' = unplugs + 1
    /\ UNCHANGED <<files, storage, crashes, watchdog, pc, inputs, key, sessions, ghosts, faults>>

Plug ==
    /\ ~ plugged /\ plugged' = TRUE
    /\ UNCHANGED <<files, storage, unplugs, crashes, watchdog, pc, inputs, key, sessions, ghosts,
                   faults>>

\* The container is killed and started again: requests, lock and mount are gone.
Crash ==
    /\ crashes < MaxCrashes /\ crashes' = crashes + 1
    /\ mounted' = FALSE /\ pooled' = FALSE /\ watchdog' = "asleep"
    /\ pc' = [r \in Request |-> IF pc[r] \in {"new"} \cup Ended THEN pc[r] ELSE "dead"]
    /\ UNCHANGED <<files, content, root, plugged, unplugs, inputs, key, place, ghosts, faults>>

\* Nothing is initialised yet, or earlier requests have initialised, mounted or used it.
Init ==
    /\ \E maker \in {None, Before} :
          /\ artifact = [a \in Artifact |-> maker] /\ password = maker
          /\ \/ /\ content = [p \in Place |-> {}] /\ root = [p \in Place |-> None]
                /\ mounted = FALSE
             \/ /\ maker = Before
                /\ content = [p \in Place |-> IF p = "vault" THEN Content ELSE {}]
                /\ \E u \in {None, Before} :
                      root = [p \in Place |-> IF p = "vault" THEN u ELSE None]
                /\ mounted \in BOOLEAN
    /\ plugged = TRUE /\ watchdog = "asleep"
    /\ pc = [r \in Request |-> "new"]
    /\ kind = [r \in Request |-> "none"]
    /\ given = [r \in Request |-> None] /\ key = [r \in Request |-> None]
    /\ place = [r \in Request |-> "vault"]
    /\ pooled = mounted
    /\ blind = {} /\ cut = {} /\ logged = {} /\ raised = {}
    /\ faults = 0 /\ unplugs = 0 /\ crashes = 0

Enter(r) ==
    CheckCipherdir(r) \/ CheckMountpoint(r) \/ CheckPassphrase(r) \/ CheckFernet(r) \/ Lock(r)

Initialise(r) == WritePassphrase(r) \/ CreateCipherdir(r) \/ WriteFernet(r) \/ Cleanup(r)

MountOrUnmount(r) ==
    \/ Mount(r) \/ MakeTree(r) \/ CreateTables(r) \/ CheckIntegrity(r) \/ RollbackMount(r)
    \/ Unmount(r)

Handle(r) ==
    \/ Enter(r) \/ Initialise(r) \/ ReadPassphrase(r) \/ Rewrite(r) \/ MountOrUnmount(r)
    \/ SelectRoot(r) \/ InsertRoot(r)

Next ==
    \/ \E r \in Request : Arrive(r) \/ Handle(r)
    \/ Watchdog
    \/ Unplug \/ Plug \/ Crash

Spec == Init /\ [][Next]_vars

\* The event loop runs every request, and the shell its loop, as long as it lives.
FairSpec == Spec /\ (\A r \in Request : WF_vars(Handle(r))) /\ WF_vars(Watchdog)

------------------------------------------------------------------------------
(* Properties.                                                              *)

Acknowledged(r, service) == At(r, service, "ok")

\* Data in the cipherdir stays readable: its configuration and the passphrase that opens
\* it are there, and the Fernet key of the root user, whatever fails and whenever the
\* container is killed. Only an initialisation that was let in although there is a storage
\* can take them away (gocryptfs_init.py:27-30).
Recoverable ==
    blind = {} /\ content["vault"] # {} =>
        /\ CipherdirCreated
        /\ artifact["passphrase"] = artifact["conf"] /\ password # None
        /\ root["vault"] # None => root["vault"] = artifact["fernet"]

\* A rotation that was acknowledged is not undone by one that was made from the same
\* password: the second of two is refused.
RotationsChain ==
    \A r, s \in Request :
        Acknowledged(r, "rotate") /\ Acknowledged(s, "rotate") /\ given[r] = given[s] => r = s

\* A storage that is open to requests has a database: whichever step after
\* cipherdir_mount fails, it is unmounted again ("If a post-mount step fails, the mount is
\* rolled back", gocryptfs_mount), unless the log says that this failed too, or unless
\* cipherdir_mount itself raised although it had mounted.
MountedIsReady ==
    /\ mounted /\ logged = {} /\ raised = {}
    /\ \A r \in Request : kind[r] = "mount" => ~ Holding(r)
    => "tables" \in content["vault"]

\* Nothing is written to the disk of the container in plain text, and no storage is made
\* unmountable by it, unless the watchdog unmounts a storage in the middle of its mount.
EncryptedAtRest == cut = {} => content["bare"] = {} /\ root["bare"] = None

\* The credentials of a root user are given out once, and only if they are in the
\* database, unless the database is one that such a mount left in the bare mountpoint.
OneRoot ==
    cut = {} =>
        \A r \in Request : Acknowledged(r, "user") =>
            /\ root["vault"] # None
            /\ \A s \in Request : Acknowledged(s, "user") => r = s

\* Every request is answered or killed.
EveryRequestEnds == <>[](\A r \in Request : pc[r] \in Ended \cup {"new"})

\* Without its secrets the storage does not stay mounted.
UnmountedWithoutSecrets == <>[]SecretsGone => <>[](~ mounted)

\* That is so as long as the loop lives, also for mounts that had read the passphrase
\* before it was taken away.
WatchdogUnmounts == [](watchdog # "stopped") => UnmountedWithoutSecrets

================================================================================
