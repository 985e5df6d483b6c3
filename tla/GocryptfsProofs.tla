---------------------------- MODULE GocryptfsProofs ----------------------------
(****************************************************************************)
(* Proofs about Gocryptfs: the secrets, the mount and the root user keep    *)
(* together, for any number of requests, faults, removals of the secrets    *)
(* and restarts.                                                            *)
(*                                                                          *)
(* IInv says what the lock is good for: who holds it, and that the          *)
(* passphrase its holder has read is still the one in the file. Sessions,   *)
(* Kept, Ready, Uncut and Chain are each inductive relative to it.          *)
(****************************************************************************)
EXTENDS Gocryptfs, TLAPS

InitLabels == {"written", "created", "drop_passphrase", "drop_conf", "drop_diriv", "drop_fernet"}
MountLabels == {"mounted", "tree", "tables", "rollback"}

\* Where a request is tells which service it is of, and a password it gave is one.
Labels ==
    \A r \in Request :
        /\ kind[r] = "none" <=> pc[r] = "new"
        /\ kind[r] # "none" => given[r] \in Maker
        /\ kind[r] = "init" => given[r] = r
        /\ pc[r] \in InitLabels => kind[r] = "init"
        /\ pc[r] \in MountLabels => kind[r] = "mount"
        /\ pc[r] = "selected" => kind[r] = "user"
        /\ pc[r] = "opened" => kind[r] \in {"mount", "unmount", "rotate", "user"}

\* r has decrypted the passphrase and holds the lock.
Opened(r) == pc[r] \in MountLabels \cup {"opened", "selected"}

\* The passphrase that r decrypted is still in the file, under the password it gave.
KeysOpened ==
    \A r \in Request : Opened(r) =>
        /\ artifact["passphrase"] # None
        /\ key[r] = artifact["passphrase"]
        /\ password = given[r]

\* Only reveals hold the lock together.
Exclusive ==
    \A r, s \in Request : Holding(r) /\ Holding(s) /\ r # s => Shares(r) /\ Shares(s)

IInv == TypeOK /\ Labels /\ Exclusive /\ KeysOpened

\* A root user is in a database; the one that a user_init did not find is not made by
\* another; the storage being mounted is opened by the passphrase of its mount.
Sessions ==
    /\ root["vault"] # None => "tables" \in content["vault"]
    /\ \A r \in Request :
          /\ pc[r] = "selected" => "tables" \in content[place[r]] /\ root[place[r]] = None
          /\ Mounting(r) => artifact["conf"] = key[r]

\* An initialisation that was not let in blindly works on a cipherdir without data.
Kept ==
    /\ Recoverable
    /\ blind = {} => \A r \in Request : kind[r] = "init" /\ Holding(r) => content["vault"] = {}

\* A mount that has made the tables made them in the storage that it mounted.
Ready ==
    /\ raised = {} /\ mounted /\ logged = {} /\ (\A r \in Request : pc[r] \notin MountLabels) =>
          "tables" \in content["vault"]
    /\ \A r \in Request : pc[r] = "tables" /\ mounted => "tables" \in content["vault"]

\* A mount that was not cut short is in place until it ends.
Uncut ==
    /\ EncryptedAtRest
    /\ OneRoot
    /\ cut = {} => \A r \in Request :
          /\ Mounting(r) => mounted
          /\ pc[r] = "selected" => place[r] = "vault"

\* The request that chose p is too far on to choose it again.
Spent(p) == p \in Request => pc[p] \in Ended \cup InitLabels

\* The current password is not one that an acknowledged rotation replaced.
Chain ==
    /\ RotationsChain
    /\ Spent(password)
    /\ \A r \in Request : Acknowledged(r, "rotate") => given[r] # password /\ Spent(given[r])

\* The types are kept; that a passphrase was opened tells what a rotation
\* writes.
LEMMA TypeOKStep ==
    ASSUME TypeOK, KeysOpened, [Next]_vars
    PROVE  TypeOK'
<1> USE BoundAssumption, NullAssumption DEF Goto, Set, At, Fault, NoFault, Raises,
         files, storage, inputs, sessions, ghosts, outside, TypeOK, Content, Place,
         Artifact, Secret, PC, Outside, Ended, Kind, Maker
<1>1. CASE UNCHANGED vars
  BY <1>1 DEF vars
<1>2. ASSUME NEW q \in Request, Arrive(q) PROVE TypeOK'
  BY <1>2 DEF Arrive
<1>3. ASSUME NEW q \in Request, CheckCipherdir(q) PROVE TypeOK'
  BY <1>3 DEF CheckCipherdir, Check, Sees
<1>4. ASSUME NEW q \in Request, CheckMountpoint(q) PROVE TypeOK'
  BY <1>4 DEF CheckMountpoint, Check, Sees
<1>5. ASSUME NEW q \in Request, CheckPassphrase(q) PROVE TypeOK'
  BY <1>5 DEF CheckPassphrase, Check, Sees
<1>6. ASSUME NEW q \in Request, CheckFernet(q) PROVE TypeOK'
  BY <1>6 DEF CheckFernet, Sees
<1>7. ASSUME NEW q \in Request, Lock(q) PROVE TypeOK'
  BY <1>7 DEF Lock
<1>8. ASSUME NEW q \in Request, WritePassphrase(q) PROVE TypeOK'
  BY <1>8 DEF WritePassphrase
<1>9. ASSUME NEW q \in Request, CreateCipherdir(q) PROVE TypeOK'
  BY <1>9 DEF CreateCipherdir
<1>10. ASSUME NEW q \in Request, WriteFernet(q) PROVE TypeOK'
  BY <1>10 DEF WriteFernet
<1>11. ASSUME NEW q \in Request, Cleanup(q) PROVE TypeOK'
  BY <1>11 DEF Cleanup, Drop
<1>12. ASSUME NEW q \in Request, ReadPassphrase(q) PROVE TypeOK'
  BY <1>12 DEF ReadPassphrase, Opens, Present
<1>13. ASSUME NEW q \in Request, Rewrite(q) PROVE TypeOK'
  BY <1>13, NullAssumption DEF Rewrite, KeysOpened, Opened, MountLabels
<1>14. ASSUME NEW q \in Request, Mount(q) PROVE TypeOK'
  <2>1. mounted' \in BOOLEAN /\ pooled' \in BOOLEAN
    BY <1>14 DEF Mount
  <2> QED BY <1>14, <2>1 DEF Mount
<1>15. ASSUME NEW q \in Request, MakeTree(q) PROVE TypeOK'
  BY <1>15 DEF MakeTree, Holds, Here
<1>16. ASSUME NEW q \in Request, CreateTables(q) PROVE TypeOK'
  BY <1>16 DEF CreateTables, Holds, Here, Database, Pools
<1>17. ASSUME NEW q \in Request, CheckIntegrity(q) PROVE TypeOK'
  BY <1>17 DEF CheckIntegrity
<1>18. ASSUME NEW q \in Request, RollbackMount(q) PROVE TypeOK'
  <2>1. mounted' \in BOOLEAN /\ pooled' \in BOOLEAN
    BY <1>18 DEF RollbackMount, Unmounts, FailsToUnmount
  <2> QED BY <1>18, <2>1 DEF RollbackMount, Unmounts, FailsToUnmount
<1>19. ASSUME NEW q \in Request, Unmount(q) PROVE TypeOK'
  <2>1. mounted' \in BOOLEAN /\ pooled' \in BOOLEAN
    BY <1>19 DEF Unmount, Unmounts, FailsToUnmount
  <2> QED BY <1>19, <2>1 DEF Unmount, Unmounts, FailsToUnmount
<1>20. ASSUME NEW q \in Request, SelectRoot(q) PROVE TypeOK'
  BY <1>20 DEF SelectRoot, Here, Database, Pools
<1>21. ASSUME NEW q \in Request, InsertRoot(q) PROVE TypeOK'
  BY <1>21 DEF InsertRoot, Here
<1>22. CASE Wake
  BY <1>22 DEF Wake
<1>23. CASE Watch
  BY <1>23 DEF Watch, Sees
<1>24. CASE EmergencyUnmount
  <2>1. mounted' \in BOOLEAN /\ pooled' \in BOOLEAN
    BY <1>24 DEF EmergencyUnmount, Unmounts, FailsToUnmount
  <2> QED BY <1>24, <2>1 DEF EmergencyUnmount, Unmounts, FailsToUnmount
<1>25. CASE Unplug
  <2>1. plugged' \in BOOLEAN /\ pooled' \in BOOLEAN
    BY <1>25 DEF Unplug
  <2> QED BY <1>25, <2>1 DEF Unplug
<1>26. CASE Plug
  BY <1>26 DEF Plug
<1>27. CASE Crash
  <2>1. mounted' \in BOOLEAN /\ pooled' \in BOOLEAN
    BY <1>27 DEF Crash
  <2> QED BY <1>27, <2>1 DEF Crash
<1>28. QED
  BY <1>1, <1>2, <1>3, <1>4, <1>5, <1>6, <1>7, <1>8, <1>9, <1>10, <1>11, <1>12, <1>13,
     <1>14, <1>15, <1>16, <1>17, <1>18, <1>19, <1>20, <1>21, <1>22, <1>23, <1>24, <1>25,
     <1>26, <1>27 DEF Next, Handle, Enter, Initialise, MountOrUnmount, Watchdog

\* A request keeps to the steps of its own service.
LEMMA LabelsStep ==
    ASSUME TypeOK, Labels, [Next]_vars
    PROVE  Labels'
<1> USE BoundAssumption, NullAssumption DEF Goto, Set, At, Fault, NoFault, Raises,
         files, storage, inputs, sessions, ghosts, outside, TypeOK, Content, Place,
         Artifact, Secret, PC, Outside, Ended, Kind, Maker, Labels, InitLabels,
         MountLabels
<1>1. CASE UNCHANGED vars
  BY <1>1 DEF vars
<1>2. ASSUME NEW q \in Request, Arrive(q) PROVE Labels'
  BY <1>2 DEF Arrive
<1>3. ASSUME NEW q \in Request, CheckCipherdir(q) PROVE Labels'
  BY <1>3 DEF CheckCipherdir, Check, Sees
<1>4. ASSUME NEW q \in Request, CheckMountpoint(q) PROVE Labels'
  BY <1>4 DEF CheckMountpoint, Check, Sees
<1>5. ASSUME NEW q \in Request, CheckPassphrase(q) PROVE Labels'
  BY <1>5 DEF CheckPassphrase, Check, Sees
<1>6. ASSUME NEW q \in Request, CheckFernet(q) PROVE Labels'
  BY <1>6 DEF CheckFernet, Sees
<1>7. ASSUME NEW q \in Request, Lock(q) PROVE Labels'
  BY <1>7 DEF Lock
<1>8. ASSUME NEW q \in Request, WritePassphrase(q) PROVE Labels'
  BY <1>8 DEF WritePassphrase
<1>9. ASSUME NEW q \in Request, CreateCipherdir(q) PROVE Labels'
  BY <1>9 DEF CreateCipherdir
<1>10. ASSUME NEW q \in Request, WriteFernet(q) PROVE Labels'
  BY <1>10 DEF WriteFernet
<1>11. ASSUME NEW q \in Request, Cleanup(q) PROVE Labels'
  BY <1>11 DEF Cleanup, Drop
<1>12. ASSUME NEW q \in Request, ReadPassphrase(q) PROVE Labels'
  BY <1>12 DEF ReadPassphrase, Opens, Present
<1>13. ASSUME NEW q \in Request, Rewrite(q) PROVE Labels'
  BY <1>13 DEF Rewrite
<1>14. ASSUME NEW q \in Request, Mount(q) PROVE Labels'
  BY <1>14 DEF Mount, Mountable
<1>15. ASSUME NEW q \in Request, MakeTree(q) PROVE Labels'
  BY <1>15 DEF MakeTree, Holds, Here
<1>16. ASSUME NEW q \in Request, CreateTables(q) PROVE Labels'
  BY <1>16 DEF CreateTables, Holds, Here, Database, Pools
<1>17. ASSUME NEW q \in Request, CheckIntegrity(q) PROVE Labels'
  BY <1>17 DEF CheckIntegrity
<1>18. ASSUME NEW q \in Request, RollbackMount(q) PROVE Labels'
  BY <1>18 DEF RollbackMount, Unmounts, FailsToUnmount
<1>19. ASSUME NEW q \in Request, Unmount(q) PROVE Labels'
  BY <1>19 DEF Unmount, Unmounts, FailsToUnmount
<1>20. ASSUME NEW q \in Request, SelectRoot(q) PROVE Labels'
  BY <1>20 DEF SelectRoot, Here, Database, Pools
<1>21. ASSUME NEW q \in Request, InsertRoot(q) PROVE Labels'
  BY <1>21 DEF InsertRoot, Here
<1>22. CASE Wake
  BY <1>22 DEF Wake
<1>23. CASE Watch
  BY <1>23 DEF Watch, Sees
<1>24. CASE EmergencyUnmount
  BY <1>24 DEF EmergencyUnmount, Unmounts, FailsToUnmount
<1>25. CASE Unplug
  BY <1>25 DEF Unplug
<1>26. CASE Plug
  BY <1>26 DEF Plug
<1>27. CASE Crash
  BY <1>27 DEF Crash
<1>28. QED
  BY <1>1, <1>2, <1>3, <1>4, <1>5, <1>6, <1>7, <1>8, <1>9, <1>10, <1>11, <1>12, <1>13,
     <1>14, <1>15, <1>16, <1>17, <1>18, <1>19, <1>20, <1>21, <1>22, <1>23, <1>24, <1>25,
     <1>26, <1>27 DEF Next, Handle, Enter, Initialise, MountOrUnmount, Watchdog

\* The lock of the secrets directory excludes: what Lock checks stays true.
LEMMA ExclusiveStep ==
    ASSUME TypeOK, Labels, Exclusive, [Next]_vars
    PROVE  Exclusive'
<1> USE BoundAssumption, NullAssumption DEF Goto, Set, At, Fault, NoFault, Raises,
         files, storage, inputs, sessions, ghosts, outside, TypeOK, Content, Place,
         Artifact, Secret, PC, Outside, Ended, Kind, Maker, Labels, InitLabels,
         MountLabels, Exclusive, Holding, Shares
<1>1. CASE UNCHANGED vars
  BY <1>1 DEF vars
<1>2. ASSUME NEW q \in Request, Arrive(q) PROVE Exclusive'
  BY <1>2 DEF Arrive
<1>3. ASSUME NEW q \in Request, CheckCipherdir(q) PROVE Exclusive'
  BY <1>3 DEF CheckCipherdir, Check, Sees
<1>4. ASSUME NEW q \in Request, CheckMountpoint(q) PROVE Exclusive'
  BY <1>4 DEF CheckMountpoint, Check, Sees
<1>5. ASSUME NEW q \in Request, CheckPassphrase(q) PROVE Exclusive'
  BY <1>5 DEF CheckPassphrase, Check, Sees
<1>6. ASSUME NEW q \in Request, CheckFernet(q) PROVE Exclusive'
  BY <1>6 DEF CheckFernet, Sees
<1>7. ASSUME NEW q \in Request, Lock(q) PROVE Exclusive'
  BY <1>7 DEF Lock
<1>8. ASSUME NEW q \in Request, WritePassphrase(q) PROVE Exclusive'
  BY <1>8 DEF WritePassphrase
<1>9. ASSUME NEW q \in Request, CreateCipherdir(q) PROVE Exclusive'
  BY <1>9 DEF CreateCipherdir
<1>10. ASSUME NEW q \in Request, WriteFernet(q) PROVE Exclusive'
  BY <1>10 DEF WriteFernet
<1>11. ASSUME NEW q \in Request, Cleanup(q) PROVE Exclusive'
  BY <1>11 DEF Cleanup, Drop
<1>12. ASSUME NEW q \in Request, ReadPassphrase(q) PROVE Exclusive'
  BY <1>12 DEF ReadPassphrase, Opens, Present
<1>13. ASSUME NEW q \in Request, Rewrite(q) PROVE Exclusive'
  BY <1>13 DEF Rewrite
<1>14. ASSUME NEW q \in Request, Mount(q) PROVE Exclusive'
  BY <1>14 DEF Mount, Mountable
<1>15. ASSUME NEW q \in Request, MakeTree(q) PROVE Exclusive'
  BY <1>15 DEF MakeTree, Holds, Here
<1>16. ASSUME NEW q \in Request, CreateTables(q) PROVE Exclusive'
  BY <1>16 DEF CreateTables, Holds, Here, Database, Pools
<1>17. ASSUME NEW q \in Request, CheckIntegrity(q) PROVE Exclusive'
  BY <1>17 DEF CheckIntegrity
<1>18. ASSUME NEW q \in Request, RollbackMount(q) PROVE Exclusive'
  BY <1>18 DEF RollbackMount, Unmounts, FailsToUnmount
<1>19. ASSUME NEW q \in Request, Unmount(q) PROVE Exclusive'
  BY <1>19 DEF Unmount, Unmounts, FailsToUnmount
<1>20. ASSUME NEW q \in Request, SelectRoot(q) PROVE Exclusive'
  BY <1>20 DEF SelectRoot, Here, Database, Pools
<1>21. ASSUME NEW q \in Request, InsertRoot(q) PROVE Exclusive'
  BY <1>21 DEF InsertRoot, Here
<1>22. CASE Wake
  BY <1>22 DEF Wake
<1>23. CASE Watch
  BY <1>23 DEF Watch, Sees
<1>24. CASE EmergencyUnmount
  BY <1>24 DEF EmergencyUnmount, Unmounts, FailsToUnmount
<1>25. CASE Unplug
  BY <1>25 DEF Unplug
<1>26. CASE Plug
  BY <1>26 DEF Plug
<1>27. CASE Crash
  BY <1>27 DEF Crash
<1>28. QED
  BY <1>1, <1>2, <1>3, <1>4, <1>5, <1>6, <1>7, <1>8, <1>9, <1>10, <1>11, <1>12, <1>13,
     <1>14, <1>15, <1>16, <1>17, <1>18, <1>19, <1>20, <1>21, <1>22, <1>23, <1>24, <1>25,
     <1>26, <1>27 DEF Next, Handle, Enter, Initialise, MountOrUnmount, Watchdog

\* What a request read under the lock is still so when it uses it.
LEMMA KeysOpenedStep ==
    ASSUME IInv, [Next]_vars
    PROVE  KeysOpened'
<1> USE BoundAssumption, NullAssumption DEF Goto, Set, At, Fault, NoFault, Raises,
         files, storage, inputs, sessions, ghosts, outside, TypeOK, Content, Place,
         Artifact, Secret, PC, Outside, Ended, Kind, Maker, Labels, InitLabels,
         MountLabels, Exclusive, Holding, Shares, IInv, KeysOpened, Opened
<1>1. CASE UNCHANGED vars
  BY <1>1 DEF vars
<1>2. ASSUME NEW q \in Request, Arrive(q) PROVE KeysOpened'
  BY <1>2 DEF Arrive
<1>3. ASSUME NEW q \in Request, CheckCipherdir(q) PROVE KeysOpened'
  BY <1>3 DEF CheckCipherdir, Check, Sees
<1>4. ASSUME NEW q \in Request, CheckMountpoint(q) PROVE KeysOpened'
  BY <1>4 DEF CheckMountpoint, Check, Sees
<1>5. ASSUME NEW q \in Request, CheckPassphrase(q) PROVE KeysOpened'
  BY <1>5 DEF CheckPassphrase, Check, Sees
<1>6. ASSUME NEW q \in Request, CheckFernet(q) PROVE KeysOpened'
  BY <1>6 DEF CheckFernet, Sees
<1>7. ASSUME NEW q \in Request, Lock(q) PROVE KeysOpened'
  BY <1>7 DEF Lock
<1>8. ASSUME NEW q \in Request, WritePassphrase(q) PROVE KeysOpened'
  BY <1>8 DEF WritePassphrase
<1>9. ASSUME NEW q \in Request, CreateCipherdir(q) PROVE KeysOpened'
  BY <1>9 DEF CreateCipherdir
<1>10. ASSUME NEW q \in Request, WriteFernet(q) PROVE KeysOpened'
  BY <1>10 DEF WriteFernet
<1>11. ASSUME NEW q \in Request, Cleanup(q) PROVE KeysOpened'
  BY <1>11 DEF Cleanup, Drop
<1>12. ASSUME NEW q \in Request, ReadPassphrase(q) PROVE KeysOpened'
  BY <1>12 DEF ReadPassphrase, Opens, Present
<1>13. ASSUME NEW q \in Request, Rewrite(q) PROVE KeysOpened'
  BY <1>13 DEF Rewrite
<1>14. ASSUME NEW q \in Request, Mount(q) PROVE KeysOpened'
  BY <1>14 DEF Mount, Mountable
<1>15. ASSUME NEW q \in Request, MakeTree(q) PROVE KeysOpened'
  BY <1>15 DEF MakeTree, Holds, Here
<1>16. ASSUME NEW q \in Request, CreateTables(q) PROVE KeysOpened'
  BY <1>16 DEF CreateTables, Holds, Here, Database, Pools
<1>17. ASSUME NEW q \in Request, CheckIntegrity(q) PROVE KeysOpened'
  BY <1>17 DEF CheckIntegrity
<1>18. ASSUME NEW q \in Request, RollbackMount(q) PROVE KeysOpened'
  BY <1>18 DEF RollbackMount, Unmounts, FailsToUnmount
<1>19. ASSUME NEW q \in Request, Unmount(q) PROVE KeysOpened'
  BY <1>19 DEF Unmount, Unmounts, FailsToUnmount
<1>20. ASSUME NEW q \in Request, SelectRoot(q) PROVE KeysOpened'
  BY <1>20 DEF SelectRoot, Here, Database, Pools
<1>21. ASSUME NEW q \in Request, InsertRoot(q) PROVE KeysOpened'
  BY <1>21 DEF InsertRoot, Here
<1>22. CASE Wake
  BY <1>22 DEF Wake
<1>23. CASE Watch
  BY <1>23 DEF Watch, Sees
<1>24. CASE EmergencyUnmount
  BY <1>24 DEF EmergencyUnmount, Unmounts, FailsToUnmount
<1>25. CASE Unplug
  BY <1>25 DEF Unplug
<1>26. CASE Plug
  BY <1>26 DEF Plug
<1>27. CASE Crash
  BY <1>27 DEF Crash
<1>28. QED
  BY <1>1, <1>2, <1>3, <1>4, <1>5, <1>6, <1>7, <1>8, <1>9, <1>10, <1>11, <1>12, <1>13,
     <1>14, <1>15, <1>16, <1>17, <1>18, <1>19, <1>20, <1>21, <1>22, <1>23, <1>24, <1>25,
     <1>26, <1>27 DEF Next, Handle, Enter, Initialise, MountOrUnmount, Watchdog

\* What a session or a mount saw is still so when it goes on.
LEMMA SessionsStep ==
    ASSUME IInv, Sessions, [Next]_vars
    PROVE  Sessions'
<1> USE BoundAssumption, NullAssumption DEF Goto, Set, At, Fault, NoFault, Raises,
         files, storage, inputs, sessions, ghosts, outside, TypeOK, Content, Place,
         Artifact, Secret, PC, Outside, Ended, Kind, Maker, Labels, InitLabels,
         MountLabels, Exclusive, Holding, Shares, IInv, KeysOpened, Opened, Sessions,
         Mounting
<1>1. CASE UNCHANGED vars
  BY <1>1 DEF vars
<1>2. ASSUME NEW q \in Request, Arrive(q) PROVE Sessions'
  BY <1>2 DEF Arrive
<1>3. ASSUME NEW q \in Request, CheckCipherdir(q) PROVE Sessions'
  BY <1>3 DEF CheckCipherdir, Check, Sees
<1>4. ASSUME NEW q \in Request, CheckMountpoint(q) PROVE Sessions'
  BY <1>4 DEF CheckMountpoint, Check, Sees
<1>5. ASSUME NEW q \in Request, CheckPassphrase(q) PROVE Sessions'
  BY <1>5 DEF CheckPassphrase, Check, Sees
<1>6. ASSUME NEW q \in Request, CheckFernet(q) PROVE Sessions'
  BY <1>6 DEF CheckFernet, Sees
<1>7. ASSUME NEW q \in Request, Lock(q) PROVE Sessions'
  BY <1>7 DEF Lock
<1>8. ASSUME NEW q \in Request, WritePassphrase(q) PROVE Sessions'
  BY <1>8 DEF WritePassphrase
<1>9. ASSUME NEW q \in Request, CreateCipherdir(q) PROVE Sessions'
  BY <1>9 DEF CreateCipherdir
<1>10. ASSUME NEW q \in Request, WriteFernet(q) PROVE Sessions'
  BY <1>10 DEF WriteFernet
<1>11. ASSUME NEW q \in Request, Cleanup(q) PROVE Sessions'
  BY <1>11 DEF Cleanup, Drop
<1>12. ASSUME NEW q \in Request, ReadPassphrase(q) PROVE Sessions'
  BY <1>12 DEF ReadPassphrase, Opens, Present
<1>13. ASSUME NEW q \in Request, Rewrite(q) PROVE Sessions'
  BY <1>13 DEF Rewrite
<1>14. ASSUME NEW q \in Request, Mount(q) PROVE Sessions'
  BY <1>14 DEF Mount, Mountable
<1>15. ASSUME NEW q \in Request, MakeTree(q) PROVE Sessions'
  BY <1>15 DEF MakeTree, Holds, Here
<1>16. ASSUME NEW q \in Request, CreateTables(q) PROVE Sessions'
  BY <1>16 DEF CreateTables, Holds, Here, Database, Pools
<1>17. ASSUME NEW q \in Request, CheckIntegrity(q) PROVE Sessions'
  BY <1>17 DEF CheckIntegrity
<1>18. ASSUME NEW q \in Request, RollbackMount(q) PROVE Sessions'
  BY <1>18 DEF RollbackMount, Unmounts, FailsToUnmount
<1>19. ASSUME NEW q \in Request, Unmount(q) PROVE Sessions'
  BY <1>19 DEF Unmount, Unmounts, FailsToUnmount
<1>20. ASSUME NEW q \in Request, SelectRoot(q) PROVE Sessions'
  BY <1>20 DEF SelectRoot, Here, Database, Pools
<1>21. ASSUME NEW q \in Request, InsertRoot(q) PROVE Sessions'
  BY <1>21 DEF InsertRoot, Here
<1>22. CASE Wake
  BY <1>22 DEF Wake
<1>23. CASE Watch
  BY <1>23 DEF Watch, Sees
<1>24. CASE EmergencyUnmount
  BY <1>24 DEF EmergencyUnmount, Unmounts, FailsToUnmount
<1>25. CASE Unplug
  BY <1>25 DEF Unplug
<1>26. CASE Plug
  BY <1>26 DEF Plug
<1>27. CASE Crash
  BY <1>27 DEF Crash
<1>28. QED
  BY <1>1, <1>2, <1>3, <1>4, <1>5, <1>6, <1>7, <1>8, <1>9, <1>10, <1>11, <1>12, <1>13,
     <1>14, <1>15, <1>16, <1>17, <1>18, <1>19, <1>20, <1>21, <1>22, <1>23, <1>24, <1>25,
     <1>26, <1>27 DEF Next, Handle, Enter, Initialise, MountOrUnmount, Watchdog

\* Whoever holds the lock leaves the secrets of a storage with data in it alone,
\* or is an initialisation that was let in blindly.
LEMMA KeptStep ==
    ASSUME IInv, Sessions, Kept, [Next]_vars
    PROVE  Kept'
<1> USE BoundAssumption, NullAssumption DEF Goto, Set, At, Fault, NoFault, Raises,
         files, storage, inputs, sessions, ghosts, outside, TypeOK, Content, Place,
         Artifact, Secret, PC, Outside, Ended, Kind, Maker, Labels, InitLabels,
         MountLabels, Exclusive, Holding, Shares, IInv, KeysOpened, Opened, Sessions,
         Mounting, Kept, Recoverable, CipherdirCreated, Initialised, Writable
<1>1. CASE UNCHANGED vars
  BY <1>1 DEF vars
<1>2. ASSUME NEW q \in Request, Arrive(q) PROVE Kept'
  BY <1>2 DEF Arrive
<1>3. ASSUME NEW q \in Request, CheckCipherdir(q) PROVE Kept'
  BY <1>3 DEF CheckCipherdir, Check, Sees
<1>4. ASSUME NEW q \in Request, CheckMountpoint(q) PROVE Kept'
  BY <1>4 DEF CheckMountpoint, Check, Sees
<1>5. ASSUME NEW q \in Request, CheckPassphrase(q) PROVE Kept'
  BY <1>5 DEF CheckPassphrase, Check, Sees
<1>6. ASSUME NEW q \in Request, CheckFernet(q) PROVE Kept'
  BY <1>6 DEF CheckFernet, Sees
<1>7. ASSUME NEW q \in Request, Lock(q) PROVE Kept'
  <2>1. CASE kind[q] = "init" /\ Initialised
    <3>1. blind' # {}
      BY <1>7, <2>1 DEF Lock
    <3> QED BY <3>1
  <2>2. CASE ~ (kind[q] = "init" /\ Initialised)
    <3>1. blind' = blind /\ UNCHANGED <<artifact, password, content, root, kind>>
      BY <1>7, <2>2 DEF Lock
    <3>2. Recoverable'
      BY <3>1
    <3>3. kind[q] = "init" /\ blind = {} => content["vault"] = {}
      BY <2>2
    <3>4. \A r \in Request : Holding(r)' => r = q \/ Holding(r)
      BY <1>7 DEF Lock
    <3> QED BY <3>1, <3>2, <3>3, <3>4
  <2> QED BY <2>1, <2>2
<1>8. ASSUME NEW q \in Request, WritePassphrase(q) PROVE Kept'
  BY <1>8 DEF WritePassphrase
<1>9. ASSUME NEW q \in Request, CreateCipherdir(q) PROVE Kept'
  BY <1>9 DEF CreateCipherdir
<1>10. ASSUME NEW q \in Request, WriteFernet(q) PROVE Kept'
  BY <1>10 DEF WriteFernet
<1>11. ASSUME NEW q \in Request, Cleanup(q) PROVE Kept'
  BY <1>11 DEF Cleanup, Drop
<1>12. ASSUME NEW q \in Request, ReadPassphrase(q) PROVE Kept'
  BY <1>12 DEF ReadPassphrase, Opens, Present
<1>13. ASSUME NEW q \in Request, Rewrite(q) PROVE Kept'
  BY <1>13 DEF Rewrite
<1>14. ASSUME NEW q \in Request, Mount(q) PROVE Kept'
  BY <1>14 DEF Mount, Mountable
<1>15. ASSUME NEW q \in Request, MakeTree(q) PROVE Kept'
  BY <1>15 DEF MakeTree, Holds, Here
<1>16. ASSUME NEW q \in Request, CreateTables(q) PROVE Kept'
  BY <1>16 DEF CreateTables, Holds, Here, Database, Pools
<1>17. ASSUME NEW q \in Request, CheckIntegrity(q) PROVE Kept'
  BY <1>17 DEF CheckIntegrity
<1>18. ASSUME NEW q \in Request, RollbackMount(q) PROVE Kept'
  BY <1>18 DEF RollbackMount, Unmounts, FailsToUnmount
<1>19. ASSUME NEW q \in Request, Unmount(q) PROVE Kept'
  BY <1>19 DEF Unmount, Unmounts, FailsToUnmount
<1>20. ASSUME NEW q \in Request, SelectRoot(q) PROVE Kept'
  BY <1>20 DEF SelectRoot, Here, Database, Pools
<1>21. ASSUME NEW q \in Request, InsertRoot(q) PROVE Kept'
  BY <1>21 DEF InsertRoot, Here
<1>22. CASE Wake
  BY <1>22 DEF Wake
<1>23. CASE Watch
  BY <1>23 DEF Watch, Sees
<1>24. CASE EmergencyUnmount
  BY <1>24 DEF EmergencyUnmount, Unmounts, FailsToUnmount
<1>25. CASE Unplug
  BY <1>25 DEF Unplug
<1>26. CASE Plug
  BY <1>26 DEF Plug
<1>27. CASE Crash
  BY <1>27 DEF Crash
<1>28. QED
  BY <1>1, <1>2, <1>3, <1>4, <1>5, <1>6, <1>7, <1>8, <1>9, <1>10, <1>11, <1>12, <1>13,
     <1>14, <1>15, <1>16, <1>17, <1>18, <1>19, <1>20, <1>21, <1>22, <1>23, <1>24, <1>25,
     <1>26, <1>27 DEF Next, Handle, Enter, Initialise, MountOrUnmount, Watchdog

\* A mount leaves a storage with a database, or rolls back.
LEMMA ReadyStep ==
    ASSUME IInv, Ready, [Next]_vars
    PROVE  Ready'
<1> USE BoundAssumption, NullAssumption DEF Goto, Set, At, Fault, NoFault, Raises,
         files, storage, inputs, sessions, ghosts, outside, TypeOK, Content, Place,
         Artifact, Secret, PC, Outside, Ended, Kind, Maker, Labels, InitLabels,
         MountLabels, Exclusive, Holding, Shares, IInv, Ready
<1>1. CASE UNCHANGED vars
  BY <1>1 DEF vars
<1>2. ASSUME NEW q \in Request, Arrive(q) PROVE Ready'
  BY <1>2 DEF Arrive
<1>3. ASSUME NEW q \in Request, CheckCipherdir(q) PROVE Ready'
  BY <1>3 DEF CheckCipherdir, Check, Sees
<1>4. ASSUME NEW q \in Request, CheckMountpoint(q) PROVE Ready'
  BY <1>4 DEF CheckMountpoint, Check, Sees
<1>5. ASSUME NEW q \in Request, CheckPassphrase(q) PROVE Ready'
  BY <1>5 DEF CheckPassphrase, Check, Sees
<1>6. ASSUME NEW q \in Request, CheckFernet(q) PROVE Ready'
  BY <1>6 DEF CheckFernet, Sees
<1>7. ASSUME NEW q \in Request, Lock(q) PROVE Ready'
  BY <1>7 DEF Lock
<1>8. ASSUME NEW q \in Request, WritePassphrase(q) PROVE Ready'
  BY <1>8 DEF WritePassphrase
<1>9. ASSUME NEW q \in Request, CreateCipherdir(q) PROVE Ready'
  BY <1>9 DEF CreateCipherdir
<1>10. ASSUME NEW q \in Request, WriteFernet(q) PROVE Ready'
  BY <1>10 DEF WriteFernet
<1>11. ASSUME NEW q \in Request, Cleanup(q) PROVE Ready'
  BY <1>11 DEF Cleanup, Drop
<1>12. ASSUME NEW q \in Request, ReadPassphrase(q) PROVE Ready'
  BY <1>12 DEF ReadPassphrase, Opens, Present
<1>13. ASSUME NEW q \in Request, Rewrite(q) PROVE Ready'
  BY <1>13 DEF Rewrite
<1>14. ASSUME NEW q \in Request, Mount(q) PROVE Ready'
  BY <1>14 DEF Mount, Mountable
<1>15. ASSUME NEW q \in Request, MakeTree(q) PROVE Ready'
  BY <1>15 DEF MakeTree, Holds, Here
<1>16. ASSUME NEW q \in Request, CreateTables(q) PROVE Ready'
  BY <1>16 DEF CreateTables, Holds, Here, Database, Pools
<1>17. ASSUME NEW q \in Request, CheckIntegrity(q) PROVE Ready'
  BY <1>17 DEF CheckIntegrity
<1>18. ASSUME NEW q \in Request, RollbackMount(q) PROVE Ready'
  BY <1>18 DEF RollbackMount, Unmounts, FailsToUnmount
<1>19. ASSUME NEW q \in Request, Unmount(q) PROVE Ready'
  BY <1>19 DEF Unmount, Unmounts, FailsToUnmount
<1>20. ASSUME NEW q \in Request, SelectRoot(q) PROVE Ready'
  BY <1>20 DEF SelectRoot, Here, Database, Pools
<1>21. ASSUME NEW q \in Request, InsertRoot(q) PROVE Ready'
  BY <1>21 DEF InsertRoot, Here
<1>22. CASE Wake
  BY <1>22 DEF Wake
<1>23. CASE Watch
  BY <1>23 DEF Watch, Sees
<1>24. CASE EmergencyUnmount
  BY <1>24 DEF EmergencyUnmount, Unmounts, FailsToUnmount
<1>25. CASE Unplug
  BY <1>25 DEF Unplug
<1>26. CASE Plug
  BY <1>26 DEF Plug
<1>27. CASE Crash
  BY <1>27 DEF Crash
<1>28. QED
  BY <1>1, <1>2, <1>3, <1>4, <1>5, <1>6, <1>7, <1>8, <1>9, <1>10, <1>11, <1>12, <1>13,
     <1>14, <1>15, <1>16, <1>17, <1>18, <1>19, <1>20, <1>21, <1>22, <1>23, <1>24, <1>25,
     <1>26, <1>27 DEF Next, Handle, Enter, Initialise, MountOrUnmount, Watchdog

\* As long as no mount is cut short, nothing is written to the bare mountpoint,
\* and every session reads the database in the cipherdir.
LEMMA UncutStep ==
    ASSUME IInv, Sessions, Uncut, [Next]_vars
    PROVE  Uncut'
<1> USE BoundAssumption, NullAssumption DEF Goto, Set, At, Fault, NoFault, Raises,
         files, storage, inputs, sessions, ghosts, outside, TypeOK, Content, Place,
         Artifact, Secret, PC, Outside, Ended, Kind, Maker, Labels, InitLabels,
         MountLabels, Exclusive, Holding, Shares, IInv, Sessions, Mounting, Uncut,
         EncryptedAtRest, OneRoot, Acknowledged
<1>1. CASE UNCHANGED vars
  BY <1>1 DEF vars
<1>2. ASSUME NEW q \in Request, Arrive(q) PROVE Uncut'
  BY <1>2 DEF Arrive
<1>3. ASSUME NEW q \in Request, CheckCipherdir(q) PROVE Uncut'
  BY <1>3 DEF CheckCipherdir, Check, Sees
<1>4. ASSUME NEW q \in Request, CheckMountpoint(q) PROVE Uncut'
  BY <1>4 DEF CheckMountpoint, Check, Sees
<1>5. ASSUME NEW q \in Request, CheckPassphrase(q) PROVE Uncut'
  BY <1>5 DEF CheckPassphrase, Check, Sees
<1>6. ASSUME NEW q \in Request, CheckFernet(q) PROVE Uncut'
  BY <1>6 DEF CheckFernet, Sees
<1>7. ASSUME NEW q \in Request, Lock(q) PROVE Uncut'
  BY <1>7 DEF Lock
<1>8. ASSUME NEW q \in Request, WritePassphrase(q) PROVE Uncut'
  BY <1>8 DEF WritePassphrase
<1>9. ASSUME NEW q \in Request, CreateCipherdir(q) PROVE Uncut'
  BY <1>9 DEF CreateCipherdir
<1>10. ASSUME NEW q \in Request, WriteFernet(q) PROVE Uncut'
  BY <1>10 DEF WriteFernet
<1>11. ASSUME NEW q \in Request, Cleanup(q) PROVE Uncut'
  BY <1>11 DEF Cleanup, Drop
<1>12. ASSUME NEW q \in Request, ReadPassphrase(q) PROVE Uncut'
  BY <1>12 DEF ReadPassphrase, Opens, Present
<1>13. ASSUME NEW q \in Request, Rewrite(q) PROVE Uncut'
  BY <1>13 DEF Rewrite
<1>14. ASSUME NEW q \in Request, Mount(q) PROVE Uncut'
  BY <1>14 DEF Mount, Mountable
<1>15. ASSUME NEW q \in Request, MakeTree(q) PROVE Uncut'
  BY <1>15 DEF MakeTree, Holds, Here
<1>16. ASSUME NEW q \in Request, CreateTables(q) PROVE Uncut'
  BY <1>16 DEF CreateTables, Holds, Here, Database, Pools
<1>17. ASSUME NEW q \in Request, CheckIntegrity(q) PROVE Uncut'
  BY <1>17 DEF CheckIntegrity
<1>18. ASSUME NEW q \in Request, RollbackMount(q) PROVE Uncut'
  BY <1>18 DEF RollbackMount, Unmounts, FailsToUnmount
<1>19. ASSUME NEW q \in Request, Unmount(q) PROVE Uncut'
  BY <1>19 DEF Unmount, Unmounts, FailsToUnmount
<1>20. ASSUME NEW q \in Request, SelectRoot(q) PROVE Uncut'
  BY <1>20 DEF SelectRoot, Here, Database, Pools
<1>21. ASSUME NEW q \in Request, InsertRoot(q) PROVE Uncut'
  BY <1>21 DEF InsertRoot, Here
<1>22. CASE Wake
  BY <1>22 DEF Wake
<1>23. CASE Watch
  BY <1>23 DEF Watch, Sees
<1>24. CASE EmergencyUnmount
  BY <1>24 DEF EmergencyUnmount, Unmounts, FailsToUnmount
<1>25. CASE Unplug
  BY <1>25 DEF Unplug
<1>26. CASE Plug
  BY <1>26 DEF Plug
<1>27. CASE Crash
  BY <1>27 DEF Crash
<1>28. QED
  BY <1>1, <1>2, <1>3, <1>4, <1>5, <1>6, <1>7, <1>8, <1>9, <1>10, <1>11, <1>12, <1>13,
     <1>14, <1>15, <1>16, <1>17, <1>18, <1>19, <1>20, <1>21, <1>22, <1>23, <1>24, <1>25,
     <1>26, <1>27 DEF Next, Handle, Enter, Initialise, MountOrUnmount, Watchdog

\* A password that a rotation replaced is never the current one again.
LEMMA ChainStep ==
    ASSUME IInv, Chain, [Next]_vars
    PROVE  Chain'
<1> USE BoundAssumption, NullAssumption DEF Goto, Set, At, Fault, NoFault, Raises,
         files, storage, inputs, sessions, ghosts, outside, TypeOK, Content, Place,
         Artifact, Secret, PC, Outside, Ended, Kind, Maker, Labels, InitLabels,
         MountLabels, Exclusive, Holding, Shares, IInv, KeysOpened, Opened, Chain,
         Spent, RotationsChain, Acknowledged
<1>1. CASE UNCHANGED vars
  BY <1>1 DEF vars
<1>2. ASSUME NEW q \in Request, Arrive(q) PROVE Chain'
  BY <1>2 DEF Arrive
<1>3. ASSUME NEW q \in Request, CheckCipherdir(q) PROVE Chain'
  BY <1>3 DEF CheckCipherdir, Check, Sees
<1>4. ASSUME NEW q \in Request, CheckMountpoint(q) PROVE Chain'
  BY <1>4 DEF CheckMountpoint, Check, Sees
<1>5. ASSUME NEW q \in Request, CheckPassphrase(q) PROVE Chain'
  BY <1>5 DEF CheckPassphrase, Check, Sees
<1>6. ASSUME NEW q \in Request, CheckFernet(q) PROVE Chain'
  BY <1>6 DEF CheckFernet, Sees
<1>7. ASSUME NEW q \in Request, Lock(q) PROVE Chain'
  BY <1>7 DEF Lock
<1>8. ASSUME NEW q \in Request, WritePassphrase(q) PROVE Chain'
  BY <1>8 DEF WritePassphrase
<1>9. ASSUME NEW q \in Request, CreateCipherdir(q) PROVE Chain'
  BY <1>9 DEF CreateCipherdir
<1>10. ASSUME NEW q \in Request, WriteFernet(q) PROVE Chain'
  BY <1>10 DEF WriteFernet
<1>11. ASSUME NEW q \in Request, Cleanup(q) PROVE Chain'
  BY <1>11 DEF Cleanup, Drop
<1>12. ASSUME NEW q \in Request, ReadPassphrase(q) PROVE Chain'
  BY <1>12 DEF ReadPassphrase, Opens, Present
<1>13. ASSUME NEW q \in Request, Rewrite(q) PROVE Chain'
  BY <1>13 DEF Rewrite
<1>14. ASSUME NEW q \in Request, Mount(q) PROVE Chain'
  BY <1>14 DEF Mount, Mountable
<1>15. ASSUME NEW q \in Request, MakeTree(q) PROVE Chain'
  BY <1>15 DEF MakeTree, Holds, Here
<1>16. ASSUME NEW q \in Request, CreateTables(q) PROVE Chain'
  BY <1>16 DEF CreateTables, Holds, Here, Database, Pools
<1>17. ASSUME NEW q \in Request, CheckIntegrity(q) PROVE Chain'
  BY <1>17 DEF CheckIntegrity
<1>18. ASSUME NEW q \in Request, RollbackMount(q) PROVE Chain'
  BY <1>18 DEF RollbackMount, Unmounts, FailsToUnmount
<1>19. ASSUME NEW q \in Request, Unmount(q) PROVE Chain'
  BY <1>19 DEF Unmount, Unmounts, FailsToUnmount
<1>20. ASSUME NEW q \in Request, SelectRoot(q) PROVE Chain'
  BY <1>20 DEF SelectRoot, Here, Database, Pools
<1>21. ASSUME NEW q \in Request, InsertRoot(q) PROVE Chain'
  BY <1>21 DEF InsertRoot, Here
<1>22. CASE Wake
  BY <1>22 DEF Wake
<1>23. CASE Watch
  BY <1>23 DEF Watch, Sees
<1>24. CASE EmergencyUnmount
  BY <1>24 DEF EmergencyUnmount, Unmounts, FailsToUnmount
<1>25. CASE Unplug
  BY <1>25 DEF Unplug
<1>26. CASE Plug
  BY <1>26 DEF Plug
<1>27. CASE Crash
  BY <1>27 DEF Crash
<1>28. QED
  BY <1>1, <1>2, <1>3, <1>4, <1>5, <1>6, <1>7, <1>8, <1>9, <1>10, <1>11, <1>12, <1>13,
     <1>14, <1>15, <1>16, <1>17, <1>18, <1>19, <1>20, <1>21, <1>22, <1>23, <1>24, <1>25,
     <1>26, <1>27 DEF Next, Handle, Enter, Initialise, MountOrUnmount, Watchdog

------------------------------------------------------------------------------

LEMMA InitIInv == Init => IInv
<1> SUFFICES ASSUME Init PROVE IInv
  OBVIOUS
<1> USE NullAssumption, BoundAssumption DEF Init
<1>1. TypeOK
  <2>1. mounted \in BOOLEAN /\ pooled \in BOOLEAN /\ plugged \in BOOLEAN
    OBVIOUS
  <2> QED BY <2>1 DEF TypeOK, Artifact, Secret, Place, Content, PC, Outside, Kind, Maker
<1>2. \A r \in Request : pc[r] = "new" /\ kind[r] = "none"
  OBVIOUS
<1>3. Labels /\ Exclusive /\ KeysOpened
  BY <1>2 DEF Labels, InitLabels, MountLabels, Exclusive, Holding, Outside, KeysOpened, Opened
<1> QED BY <1>1, <1>3 DEF IInv

LEMMA InitParts == Init => Sessions /\ Kept /\ Ready /\ Uncut /\ Chain
<1> SUFFICES ASSUME Init PROVE Sessions /\ Kept /\ Ready /\ Uncut /\ Chain
  OBVIOUS
<1> USE NullAssumption DEF Init
<1>1. \A r \in Request : pc[r] = "new" /\ kind[r] = "none"
  OBVIOUS
<1>2. Sessions
  BY <1>1 DEF Sessions, Mounting, Content, Place
<1>3. Kept
  BY <1>1 DEF Kept, Recoverable, CipherdirCreated, Content, Place, Artifact, Secret, Maker
<1>4. Ready
  BY <1>1 DEF Ready, MountLabels, Content, Place
<1>5. Uncut
  BY <1>1 DEF Uncut, EncryptedAtRest, OneRoot, Acknowledged, At, Mounting, Place
<1>6. Chain
  BY <1>1 DEF Chain, RotationsChain, Acknowledged, At, Spent, Maker
<1> QED BY <1>2, <1>3, <1>4, <1>5, <1>6

LEMMA IInvStep == IInv /\ [Next]_vars => IInv'
<1> SUFFICES ASSUME IInv, [Next]_vars PROVE IInv'
  OBVIOUS
<1>1. TypeOK /\ Labels /\ Exclusive /\ KeysOpened
  BY DEF IInv
<1>2. TypeOK' /\ Labels' /\ Exclusive' /\ KeysOpened'
  BY <1>1, TypeOKStep, LabelsStep, ExclusiveStep, KeysOpenedStep
<1> QED BY <1>2 DEF IInv

\* The lock protects what its holders have read, in every behaviour.
THEOREM Invariant == Spec => []IInv
  BY InitIInv, IInvStep, PTL DEF Spec

\* Every variable stays in its type.
THEOREM TypeCorrect == Spec => []TypeOK
<1>1. IInv => TypeOK
  BY DEF IInv
<1> QED BY <1>1, Invariant, PTL

LEMMA SessionsAlways == Spec => []Sessions
<1>1. Sessions /\ IInv /\ [Next]_vars => Sessions'
  BY SessionsStep
<1>2. Init => Sessions
  BY InitParts
<1> QED BY <1>1, <1>2, Invariant, PTL DEF Spec

\* gocryptfs_init, gocryptfs_rotate: no failure and no restart costs the passphrase or
\* the keys of a storage that has data, but for an initialisation that was let in blindly.
THEOREM DataIsRecoverable == Spec => []Recoverable
<1>1. Kept /\ IInv /\ Sessions /\ [Next]_vars => Kept'
  BY KeptStep
<1>2. Init => Kept
  BY InitParts
<1>3. Kept => Recoverable
  BY DEF Kept
<1> QED BY <1>1, <1>2, <1>3, Invariant, SessionsAlways, PTL DEF Spec

\* gocryptfs_rotate: of two rotations from one password, one is refused.
THEOREM RotationsAreChained == Spec => []RotationsChain
<1>1. Chain /\ IInv /\ [Next]_vars => Chain'
  BY ChainStep
<1>2. Init => Chain
  BY InitParts
<1>3. Chain => RotationsChain
  BY DEF Chain
<1> QED BY <1>1, <1>2, <1>3, Invariant, PTL DEF Spec

\* gocryptfs_mount: a storage without a database does not stay mounted, unless the log says
\* so or its cipherdir_mount raised after it had mounted.
THEOREM MountsAreReady == Spec => []MountedIsReady
<1>1. Ready /\ IInv /\ [Next]_vars => Ready'
  BY ReadyStep
<1>2. Init => Ready
  BY InitParts
<1>3. IInv /\ Ready => MountedIsReady
  <2> SUFFICES ASSUME IInv, Ready PROVE MountedIsReady
    OBVIOUS
  <2>1. ASSUME \A r \in Request : kind[r] = "mount" => ~ Holding(r),
               NEW r \in Request, pc[r] \in MountLabels
        PROVE  FALSE
    BY <2>1 DEF IInv, Labels, MountLabels, Holding, Outside, Ended
  <2> QED BY <2>1 DEF Ready, MountedIsReady
<1> QED BY <1>1, <1>2, <1>3, Invariant, PTL DEF Spec

LEMMA UncutAlways == Spec => []Uncut
<1>1. Uncut /\ IInv /\ Sessions /\ [Next]_vars => Uncut'
  BY UncutStep
<1>2. Init => Uncut
  BY InitParts
<1> QED BY <1>1, <1>2, Invariant, SessionsAlways, PTL DEF Spec

\* gocryptfs_mount: but for a mount that the watchdog cuts short, nothing is written to
\* the container's own disk.
THEOREM NothingInPlainText == Spec => []EncryptedAtRest
<1>1. Uncut => EncryptedAtRest
  BY DEF Uncut
<1> QED BY <1>1, UncutAlways, PTL

\* user_init: one request at most is given the credentials of the root user, and they
\* are in the database.
THEOREM RootIsUnique == Spec => []OneRoot
<1>1. Uncut => OneRoot
  BY DEF Uncut
<1> QED BY <1>1, UncutAlways, PTL

================================================================================
