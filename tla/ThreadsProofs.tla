--------------------------- MODULE ThreadsProofs ---------------------------
(***************************************************************************)
(* Proofs about Threads, for every set of tasks and every bound, under the *)
(* assumption that the kernel does not hand a tid out again.               *)
(***************************************************************************)
EXTENDS Threads, FiniteSetTheorems, SequenceTheorems, TLAPS

(* The registry part of the invariant: it speaks of the registry only.     *)
RegistryInv == RegistryTypeOK /\ RefsExact /\ IdsFresh /\ SnapshotsOwned
               /\ ParentsKnown /\ NoOutsiders

-----------------------------------------------------------------------------
(* Facts about the vocabulary.                                             *)

\* The constants and the empty values have the types of their variables.
LEMMA ConstantFacts ==
  /\ Host \notin Tasks /\ Tids \subseteq Tasks /\ Outsiders \subseteq Tasks
  /\ InitTid \in Tids /\ InitTid \notin Outsiders
  /\ Tasks \subseteq Nat
  /\ 1 \in Ids /\ NoId \notin Ids /\ Ids \subseteq Nat
  /\ NoTask \in Task /\ Gone \in Task /\ NoThread \in Thread
  /\ FreeTable \in Slot(Tables)
  /\ FreeInfo \in Slot(Cwds)
<1> USE ThreadsAssumption DEF Tasks, Host, Ids, NoId
<1>1. NoTask \in Task /\ Gone \in Task
  BY DEF NoTask, Gone, Task
<1>2. NoThread \in Thread
  BY DEF NoThread, Thread
<1>3. FreeTable \in Slot(Tables) /\ FreeInfo \in Slot(Cwds)
  BY DEF FreeTable, FreeInfo, Tables, Slot
<1> QED
  BY <1>1, <1>2, <1>3

\* A set of registered threads is finite.
LEMMA UsersFinite ==
  ASSUME NEW V \in SUBSET Tasks, NEW id
  PROVE  /\ IsFiniteSet(FdUsers(id, V)) /\ IsFiniteSet(FsUsers(id, V))
         /\ Cardinality(FdUsers(id, V)) \in Nat
         /\ Cardinality(FsUsers(id, V)) \in Nat
<1>1. IsFiniteSet(Tasks)
  BY ThreadsAssumption DEF Tasks
<1>2. FdUsers(id, V) \in SUBSET Tasks /\ FsUsers(id, V) \in SUBSET Tasks
  BY DEF FdUsers, FsUsers
<1>3. IsFiniteSet(FdUsers(id, V)) /\ IsFiniteSet(FsUsers(id, V))
  BY <1>1, <1>2, FS_Subset
<1> QED
  BY <1>3, FS_CardinalityType

\* The ids a registered thread refers to are numbers.
LEMMA ThreadIds ==
  ASSUME RegistryTypeOK, NEW t \in reg
  PROVE  /\ t \in Tasks /\ thread[t] \in Thread
         /\ thread[t].fdt \in Nat /\ thread[t].fsi \in Nat
<1>1. t \in Tasks /\ thread[t] \in Thread
  BY DEF RegistryTypeOK
<1>2. Ids \cup {NoId} \subseteq Nat
  BY ThreadsAssumption DEF Ids, NoId
<1>3. thread[t].fdt \in Ids \cup {NoId} /\ thread[t].fsi \in Ids \cup {NoId}
  BY <1>1 DEF Thread
<1> QED
  BY <1>1, <1>2, <1>3

-----------------------------------------------------------------------------
(* register_child.                                                         *)

\* Acquiring a slot changes the count of that slot only.
LEMMA AcquireSlot ==
  ASSUME NEW S, NEW arena \in [Ids -> Slot(S)], NEW id \in Ids
  PROVE  /\ acquire(arena, id) \in [Ids -> Slot(S)]
         /\ \A j \in Ids : acquire(arena, id)[j].refs =
              IF j = id THEN arena[j].refs + 1 ELSE arena[j].refs
<1>1. [value |-> arena[id].value, refs |-> arena[id].refs + 1] \in Slot(S)
  BY DEF Slot
<1> QED
  BY <1>1 DEF acquire

\* Filling a fresh slot changes that slot only.
LEMMA FillSlot ==
  ASSUME NEW S, NEW arena \in [Ids -> Slot(S)], NEW id \in Ids, NEW v \in S
  PROVE  /\ [arena EXCEPT ![id] = [value |-> v, refs |-> 1]] \in [Ids -> Slot(S)]
         /\ \A j \in Ids : [arena EXCEPT ![id] = [value |-> v, refs |-> 1]][j].refs =
              IF j = id THEN 1 ELSE arena[j].refs
<1>1. [value |-> v, refs |-> 1] \in Slot(S)
  BY DEF Slot
<1> QED
  BY <1>1

\* c joins the users of the slot it was given, in both arenas.
LEMMA UsersAfterRegister ==
  ASSUME RegistryTypeOK, NEW c \in Tasks, c \notin reg, NEW r \in Thread,
         reg' = reg \cup {c}, thread' = [thread EXCEPT ![c] = r], NEW id \in Ids
  PROVE  /\ Cardinality(FdUsers(id, reg)') =
              IF id = r.fdt THEN Cardinality(FdUsers(id, reg)) + 1
                            ELSE Cardinality(FdUsers(id, reg))
         /\ Cardinality(FsUsers(id, reg)') =
              IF id = r.fsi THEN Cardinality(FsUsers(id, reg)) + 1
                            ELSE Cardinality(FsUsers(id, reg))
<1>1. FdUsers(id, reg)' = IF id = r.fdt THEN FdUsers(id, reg) \cup {c}
                                        ELSE FdUsers(id, reg)
  BY DEF FdUsers, RegistryTypeOK
<1>2. FsUsers(id, reg)' = IF id = r.fsi THEN FsUsers(id, reg) \cup {c}
                                        ELSE FsUsers(id, reg)
  BY DEF FsUsers, RegistryTypeOK
<1>3. c \notin FdUsers(id, reg) /\ c \notin FsUsers(id, reg)
  BY DEF FdUsers, FsUsers
<1>4. IsFiniteSet(FdUsers(id, reg)) /\ IsFiniteSet(FsUsers(id, reg))
  BY UsersFinite DEF RegistryTypeOK
<1> QED
  BY <1>1, <1>2, <1>3, <1>4, FS_AddElement

\* What register_child does to the registry, with its cases named.
LEMMA RegisterChildCases ==
  ASSUME RegistryInv, NEW p \in reg, NEW c \in Tids, c \notin reg,
         NEW isThread, NEW sharesFiles, NEW useSnapshots,
         register_child(p, c, isThread, sharesFiles, useSnapshots)
  PROVE  \E r \in Thread :
           /\ reg' = reg \cup {c}
           /\ thread' = [thread EXCEPT ![c] = r]
           /\ r.parent = p /\ r.fdt \in Ids /\ r.fsi \in Ids
           /\ \/ /\ r.fdt = thread[p].fdt /\ nextFdt' = nextFdt
                 /\ fdTables' = acquire(fdTables, r.fdt)
              \/ /\ r.fdt = nextFdt /\ nextFdt' = nextFdt + 1
                 /\ \E v \in Tables : fdTables' =
                      [fdTables EXCEPT ![nextFdt] = [value |-> v, refs |-> 1]]
           /\ \/ /\ r.fsi = thread[p].fsi /\ nextFsi' = nextFsi
                 /\ fsInfos' = acquire(fsInfos, r.fsi)
              \/ /\ r.fsi = nextFsi /\ nextFsi' = nextFsi + 1
                 /\ \E v \in Cwds : fsInfos' =
                      [fsInfos EXCEPT ![nextFsi] = [value |-> v, refs |-> 1]]
           /\ \/ snapshots' = snapshots
              \/ /\ snapshots[p] # <<>>
                 /\ snapshots' = [snapshots EXCEPT ![p] = Tail(@)]
<1> DEFINE share_files == isThread \/ sharesFiles
           share_fs == isThread
           consume == useSnapshots /\ ~(share_files /\ share_fs)
                        /\ snapshots[p] # <<>>
           r == [tgid |-> IF isThread THEN thread[p].tgid ELSE c, parent |-> p,
                 fdt |-> IF share_files THEN thread[p].fdt ELSE nextFdt,
                 fsi |-> IF share_fs THEN thread[p].fsi ELSE nextFsi]
<1>1. p \in Tasks /\ c \in Tasks /\ thread[p] \in Thread
  BY ConstantFacts DEF RegistryInv, RegistryTypeOK
<1>2. thread[p].fdt \in Ids /\ thread[p].fsi \in Ids /\ thread[p].tgid \in Tasks \cup {Host}
  BY <1>1 DEF Thread, RegistryInv, RefsExact
<1>3. r.fdt \in Ids /\ r.fsi \in Ids
  BY <1>2 DEF register_child
<1>4. r \in Thread /\ r.parent = p
  BY <1>1, <1>2, <1>3 DEF Thread
<1>5. reg' = reg \cup {c} /\ thread' = [thread EXCEPT ![c] = r]
  BY DEF register_child
<1>6. snapshots[p] # <<>> => Head(snapshots[p]) \in Snapshot
  BY <1>1 DEF RegistryInv, RegistryTypeOK
<1>7. \/ /\ r.fdt = thread[p].fdt /\ nextFdt' = nextFdt
         /\ fdTables' = acquire(fdTables, r.fdt)
      \/ /\ r.fdt = nextFdt /\ nextFdt' = nextFdt + 1
         /\ \E v \in Tables : fdTables' =
              [fdTables EXCEPT ![nextFdt] = [value |-> v, refs |-> 1]]
  <2>1. CASE share_files
    BY <2>1 DEF register_child
  <2>2. CASE ~share_files
    <3>1. PICK table \in IF consume THEN {Head(snapshots[p]).fd}
                         ELSE deep_clone(fdTables[thread[p].fdt].value) :
            /\ fdTables' = [fdTables EXCEPT ![nextFdt] = [value |-> table, refs |-> 1]]
            /\ nextFdt' = nextFdt + 1
      BY <2>2 DEF register_child
    <3>2. table \in Tables
      BY <3>1, <1>2, <1>6 DEF deep_clone, Snapshot, Tables, Slot, RegistryInv, RegistryTypeOK
    <3> QED
      BY <2>2, <3>1, <3>2
  <2> QED
    BY <2>1, <2>2
<1>8. \/ /\ r.fsi = thread[p].fsi /\ nextFsi' = nextFsi
         /\ fsInfos' = acquire(fsInfos, r.fsi)
      \/ /\ r.fsi = nextFsi /\ nextFsi' = nextFsi + 1
         /\ \E v \in Cwds : fsInfos' =
              [fsInfos EXCEPT ![nextFsi] = [value |-> v, refs |-> 1]]
  <2>1. CASE share_fs
    BY <2>1 DEF register_child
  <2>2. CASE ~share_fs
    <3>1. (IF consume THEN Head(snapshots[p]).cwd ELSE fsInfos[thread[p].fsi].value) \in Cwds
      BY <1>2, <1>6 DEF Snapshot, Slot, RegistryInv, RegistryTypeOK
    <3> QED
      BY <2>2, <3>1 DEF register_child
  <2> QED
    BY <2>1, <2>2
<1>9. \/ snapshots' = snapshots
      \/ snapshots[p] # <<>> /\ snapshots' = [snapshots EXCEPT ![p] = Tail(@)]
  BY DEF register_child
<1> HIDE DEF r
<1> QED
  BY <1>3, <1>4, <1>5, <1>7, <1>8, <1>9

\* register_child of a task that is not registered keeps the registry sound.
LEMMA RegisterChildInv ==
  ASSUME RegistryInv, NEW p \in reg, NEW c \in Tids, c \notin reg,
         NEW isThread, NEW sharesFiles, NEW useSnapshots,
         register_child(p, c, isThread, sharesFiles, useSnapshots)
  PROVE  RegistryInv' /\ reg' = reg \cup {c}
<1>1. PICK r \in Thread :
        /\ reg' = reg \cup {c}
        /\ thread' = [thread EXCEPT ![c] = r]
        /\ r.parent = p /\ r.fdt \in Ids /\ r.fsi \in Ids
        /\ \/ /\ r.fdt = thread[p].fdt /\ nextFdt' = nextFdt
              /\ fdTables' = acquire(fdTables, r.fdt)
           \/ /\ r.fdt = nextFdt /\ nextFdt' = nextFdt + 1
              /\ \E v \in Tables : fdTables' =
                   [fdTables EXCEPT ![nextFdt] = [value |-> v, refs |-> 1]]
        /\ \/ /\ r.fsi = thread[p].fsi /\ nextFsi' = nextFsi
              /\ fsInfos' = acquire(fsInfos, r.fsi)
           \/ /\ r.fsi = nextFsi /\ nextFsi' = nextFsi + 1
              /\ \E v \in Cwds : fsInfos' =
                   [fsInfos EXCEPT ![nextFsi] = [value |-> v, refs |-> 1]]
        /\ \/ snapshots' = snapshots
           \/ /\ snapshots[p] # <<>>
              /\ snapshots' = [snapshots EXCEPT ![p] = Tail(@)]
  BY RegisterChildCases
<1>2. p \in Tasks /\ c \in Tasks /\ c # p /\ RegistryTypeOK
  BY ConstantFacts DEF RegistryInv, RegistryTypeOK
<1> DEFINE FdShared == r.fdt = thread[p].fdt /\ nextFdt' = nextFdt
                         /\ fdTables' = acquire(fdTables, r.fdt)
           FdFilled(v) == r.fdt = nextFdt /\ nextFdt' = nextFdt + 1
             /\ fdTables' = [fdTables EXCEPT ![r.fdt] = [value |-> v, refs |-> 1]]
           FsShared == r.fsi = thread[p].fsi /\ nextFsi' = nextFsi
                         /\ fsInfos' = acquire(fsInfos, r.fsi)
           FsFilled(v) == r.fsi = nextFsi /\ nextFsi' = nextFsi + 1
             /\ fsInfos' = [fsInfos EXCEPT ![r.fsi] = [value |-> v, refs |-> 1]]
<1>a. FdShared \/ \E v \in Tables : FdFilled(v)
  BY <1>1
<1>b. FsShared \/ \E v \in Cwds : FsFilled(v)
  BY <1>1
<1>c. /\ fdTables \in [Ids -> Slot(Tables)] /\ fsInfos \in [Ids -> Slot(Cwds)]
      /\ nextFdt \in Nat /\ nextFsi \in Nat
  BY <1>2 DEF RegistryTypeOK
<1>d. r.fdt = nextFdt => fdTables[r.fdt].refs = 0
  <2>1. HAVE r.fdt = nextFdt
  <2>2. \A t \in reg : thread[t].fdt # nextFdt
    BY <1>2, <1>c, ThreadIds DEF RegistryInv, IdsFresh
  <2>3. FdUsers(r.fdt, reg) = {}
    BY <2>1, <2>2 DEF FdUsers
  <2> QED
    BY <2>3, <1>1, FS_EmptySet DEF RegistryInv, RefsExact
<1>e. r.fsi = nextFsi => fsInfos[r.fsi].refs = 0
  <2>1. HAVE r.fsi = nextFsi
  <2>2. \A t \in reg : thread[t].fsi # nextFsi
    BY <1>2, <1>c, ThreadIds DEF RegistryInv, IdsFresh
  <2>3. FsUsers(r.fsi, reg) = {}
    BY <2>1, <2>2 DEF FsUsers
  <2> QED
    BY <2>3, <1>1, FS_EmptySet DEF RegistryInv, RefsExact
<1>f. /\ fdTables' \in [Ids -> Slot(Tables)] /\ nextFdt' \in Nat /\ nextFdt' >= nextFdt
      /\ r.fdt = nextFdt => nextFdt' = nextFdt + 1
      /\ r.fdt = nextFdt \/ r.fdt = thread[p].fdt
      /\ \A id \in Ids : fdTables'[id].refs =
           IF id = r.fdt THEN fdTables[id].refs + 1 ELSE fdTables[id].refs
  <2>0. r.fdt \in Ids /\ nextFdt + 1 \in Nat
    BY <1>1, <1>c
  <2>3. thread[p].fdt # nextFdt
    BY <1>2, <1>c, ThreadIds DEF RegistryInv, IdsFresh
  <2>1. CASE FdShared
    BY <2>0, <2>1, <2>3, <1>c, AcquireSlot
  <2>2. CASE \E v \in Tables : FdFilled(v)
    <3>1. PICK v \in Tables : FdFilled(v)
      BY <2>2
    <3> QED
      BY <2>0, <3>1, <1>c, <1>d, FillSlot
  <2> QED
    BY <2>1, <2>2, <1>a
<1>g. /\ fsInfos' \in [Ids -> Slot(Cwds)] /\ nextFsi' \in Nat /\ nextFsi' >= nextFsi
      /\ r.fsi = nextFsi => nextFsi' = nextFsi + 1
      /\ r.fsi = nextFsi \/ r.fsi = thread[p].fsi
      /\ \A id \in Ids : fsInfos'[id].refs =
           IF id = r.fsi THEN fsInfos[id].refs + 1 ELSE fsInfos[id].refs
  <2>0. r.fsi \in Ids /\ nextFsi + 1 \in Nat
    BY <1>1, <1>c
  <2>3. thread[p].fsi # nextFsi
    BY <1>2, <1>c, ThreadIds DEF RegistryInv, IdsFresh
  <2>1. CASE FsShared
    BY <2>0, <2>1, <2>3, <1>c, AcquireSlot
  <2>2. CASE \E v \in Cwds : FsFilled(v)
    <3>1. PICK v \in Cwds : FsFilled(v)
      BY <2>2
    <3> QED
      BY <2>0, <3>1, <1>c, <1>e, FillSlot
  <2> QED
    BY <2>1, <2>2, <1>b
<1>h. ASSUME NEW t \in Tasks
      PROVE  /\ snapshots'[t] \in Seq(Snapshot)
             /\ Len(snapshots'[t]) <= Len(snapshots[t])
             /\ snapshots'[t] # <<>> => snapshots[t] # <<>>
  <2>1. snapshots[t] \in Seq(Snapshot) /\ snapshots \in [Tasks -> Seq(Snapshot)]
    BY <1>2 DEF RegistryTypeOK
  <2>2. Len(snapshots[t]) \in Nat
    BY <2>1
  <2>3. CASE snapshots'[t] = snapshots[t]
    BY <2>1, <2>2, <2>3
  <2>4. CASE snapshots[t] # <<>> /\ snapshots'[t] = Tail(snapshots[t])
    BY <2>1, <2>2, <2>4
  <2>5. snapshots'[t] = snapshots[t] \/ (snapshots[t] # <<>> /\ snapshots'[t] = Tail(snapshots[t]))
    BY <2>1, <1>1
  <2> QED
    BY <2>3, <2>4, <2>5
<1>3. RegistryTypeOK'
  <2>1. reg' \subseteq Tasks /\ thread' \in [Tasks -> Thread]
    BY <1>1, <1>2 DEF RegistryTypeOK
  <2>2. snapshots' \in [Tasks -> Seq(Snapshot)]
    <3>1. DOMAIN snapshots' = Tasks /\ snapshots' = [t \in Tasks |-> snapshots'[t]]
      BY <1>1, <1>2 DEF RegistryTypeOK
    <3> QED
      BY <3>1, <1>h
  <2> QED
    BY <2>1, <2>2, <1>f, <1>g DEF RegistryTypeOK
<1>4. RefsExact'
  <2>1. ASSUME NEW id \in Ids
        PROVE  /\ fdTables'[id].refs = Cardinality(FdUsers(id, reg)')
               /\ fsInfos'[id].refs = Cardinality(FsUsers(id, reg)')
    <3>1. /\ fdTables[id].refs = Cardinality(FdUsers(id, reg))
          /\ fsInfos[id].refs = Cardinality(FsUsers(id, reg))
      BY DEF RegistryInv, RefsExact
    <3>2. /\ Cardinality(FdUsers(id, reg)') =
               IF id = r.fdt THEN Cardinality(FdUsers(id, reg)) + 1
                             ELSE Cardinality(FdUsers(id, reg))
          /\ Cardinality(FsUsers(id, reg)') =
               IF id = r.fsi THEN Cardinality(FsUsers(id, reg)) + 1
                             ELSE Cardinality(FsUsers(id, reg))
      BY UsersAfterRegister, <1>1, <1>2
    <3> QED
      BY <3>1, <3>2, <1>f, <1>g
  <2>2. \A t \in reg' : thread'[t].fdt # NoId /\ thread'[t].fsi # NoId
    BY <1>1, <1>2, ConstantFacts DEF RegistryInv, RefsExact, RegistryTypeOK
  <2> QED
    BY <2>1, <2>2 DEF RefsExact
<1>5. IdsFresh'
  <2>1. \A t \in reg : /\ thread[t].fdt \in Nat /\ thread[t].fsi \in Nat
                       /\ thread[t].fdt < nextFdt /\ thread[t].fsi < nextFsi
    BY <1>2, ThreadIds DEF RegistryInv, IdsFresh
  <2>2. r.fdt \in Nat /\ r.fsi \in Nat /\ r.fdt < nextFdt' /\ r.fsi < nextFsi'
    BY <2>1, <1>1, <1>c, <1>f, <1>g, ConstantFacts
  <2>3. \A t \in reg' : \/ t \in reg /\ thread'[t] = thread[t]
                        \/ thread'[t] = r
    BY <1>1, <1>2 DEF RegistryTypeOK
  <2>4. \A t \in reg' : thread'[t].fdt < nextFdt' /\ thread'[t].fsi < nextFsi'
    BY <2>1, <2>2, <2>3, <1>c, <1>f, <1>g
  <2>5. nextFdt' >= 1 /\ nextFsi' >= 1
    BY <1>c, <1>f, <1>g DEF RegistryInv, IdsFresh
  <2> QED
    BY <2>4, <2>5 DEF IdsFresh
<1>6. SnapshotsOwned'
  <2>1. \A t \in Tasks : Len(snapshots[t]) \in Nat /\ Len(snapshots'[t]) \in Nat
    BY <1>2, <1>3 DEF RegistryTypeOK
  <2> QED
    BY <2>1, <1>h, <1>1, ThreadsAssumption DEF RegistryInv, SnapshotsOwned
<1>7. ParentsKnown'
  BY <1>1, <1>2 DEF RegistryInv, ParentsKnown, RegistryTypeOK
<1>8. NoOutsiders'
  BY <1>1, ThreadsAssumption DEF RegistryInv, NoOutsiders
<1> QED
  BY <1>1, <1>3, <1>4, <1>5, <1>6, <1>7, <1>8 DEF RegistryInv

-----------------------------------------------------------------------------
(* handle_thread_exit and handle_group_exit.                               *)

\* A slot loses exactly the references of the threads that leave.
LEMMA ReleaseRefs ==
  ASSUME NEW slot, NEW all, NEW users, IsFiniteSet(all), users \subseteq all,
         NEW S, slot \in Slot(S), slot.refs = Cardinality(all),
         NEW free, free \in Slot(S), free.refs = 0
  PROVE  /\ release(slot, users, free) \in Slot(S)
         /\ release(slot, users, free).refs = Cardinality(all \ users)
<1>1. IsFiniteSet(users) /\ IsFiniteSet(all \ users)
  BY FS_Subset
<1>2. Cardinality(all) = Cardinality(users) + Cardinality(all \ users)
  <2>1. all = users \cup (all \ users) /\ users \cap (all \ users) = {}
    OBVIOUS
  <2>2. Cardinality(users \cup (all \ users)) = Cardinality(users)
          + Cardinality(all \ users) - Cardinality(users \cap (all \ users))
    BY <1>1, FS_Union
  <2>3. Cardinality(users) \in Nat /\ Cardinality(all \ users) \in Nat
    BY <1>1, FS_CardinalityType
  <2> QED
    <3>1. Cardinality(users \cap (all \ users)) = 0
      BY <2>1, FS_EmptySet
    <3>2. Cardinality(users \cup (all \ users)) = Cardinality(all)
      BY <2>1, Zenon
    <3> QED
      BY <2>2, <2>3, <3>1, <3>2
<1>3. Cardinality(users) \in Nat /\ Cardinality(all \ users) \in Nat
  BY <1>1, FS_CardinalityType
<1>4. CASE users = {}
  BY <1>4 DEF release
<1>5. CASE users # {}
  <2>1. slot.refs - Cardinality(users) = Cardinality(all \ users)
    BY <1>2, <1>3
  <2>2. CASE Cardinality(all \ users) = 0
    BY <2>1, <2>2, <1>5 DEF release
  <2>3. CASE Cardinality(all \ users) # 0
    BY <2>1, <2>3, <1>3, <1>5 DEF release, Slot
  <2> QED
    BY <2>2, <2>3
<1> QED
  BY <1>4, <1>5

\* Removing a set of registered threads keeps the registry sound.
LEMMA HandleExitInv ==
  ASSUME RegistryInv, NEW V \in SUBSET reg, handle_exit(V)
  PROVE  RegistryInv' /\ reg' \subseteq reg
<1>1. RegistryTypeOK /\ V \subseteq Tasks
  BY DEF RegistryInv, RegistryTypeOK
<1>2. reg' = reg \ V
  BY DEF handle_exit
<1>3. \A t \in Tasks \ V : /\ thread'[t].fdt = thread[t].fdt
                           /\ thread'[t].fsi = thread[t].fsi
                           /\ thread'[t] \in Thread
  BY <1>1, ConstantFacts DEF handle_exit, RegistryTypeOK, Thread
<1>4. thread' \in [Tasks -> Thread]
  BY <1>1, <1>3, ConstantFacts DEF handle_exit, RegistryTypeOK
<1>5. ASSUME NEW id \in Ids
      PROVE  /\ fdTables'[id] \in Slot(Tables)
             /\ fdTables'[id].refs = Cardinality(FdUsers(id, reg)')
             /\ fsInfos'[id] \in Slot(Cwds)
             /\ fsInfos'[id].refs = Cardinality(FsUsers(id, reg)')
  <2>1. /\ FdUsers(id, reg)' = FdUsers(id, reg) \ FdUsers(id, V)
        /\ FsUsers(id, reg)' = FsUsers(id, reg) \ FsUsers(id, V)
    BY <1>1, <1>2, <1>3 DEF FdUsers, FsUsers, RegistryTypeOK
  <2>2. FdUsers(id, V) \subseteq FdUsers(id, reg) /\ FsUsers(id, V) \subseteq FsUsers(id, reg)
    BY DEF FdUsers, FsUsers
  <2>3. /\ fdTables'[id] = release(fdTables[id], FdUsers(id, V), FreeTable)
        /\ fsInfos'[id] = release(fsInfos[id], FsUsers(id, V), FreeInfo)
    BY <1>5 DEF handle_exit
  <2>4. IsFiniteSet(FdUsers(id, reg)) /\ IsFiniteSet(FsUsers(id, reg))
    BY <1>1, UsersFinite DEF RegistryTypeOK
  <2>5. /\ fdTables[id] \in Slot(Tables)
        /\ fdTables[id].refs = Cardinality(FdUsers(id, reg))
        /\ fsInfos[id] \in Slot(Cwds)
        /\ fsInfos[id].refs = Cardinality(FsUsers(id, reg))
    BY <1>1 DEF RegistryTypeOK, RegistryInv, RefsExact
  <2>6. /\ FreeTable \in Slot(Tables) /\ FreeTable.refs = 0
        /\ FreeInfo \in Slot(Cwds) /\ FreeInfo.refs = 0
    BY ConstantFacts DEF FreeTable, FreeInfo
  <2>7. /\ fdTables'[id] \in Slot(Tables)
        /\ fdTables'[id].refs = Cardinality(FdUsers(id, reg) \ FdUsers(id, V))
    BY <2>2, <2>3, <2>4, <2>5, <2>6, ReleaseRefs
  <2>8. /\ fsInfos'[id] \in Slot(Cwds)
        /\ fsInfos'[id].refs = Cardinality(FsUsers(id, reg) \ FsUsers(id, V))
    BY <2>2, <2>3, <2>4, <2>5, <2>6, ReleaseRefs
  <2> QED
    BY <2>1, <2>7, <2>8
<1>6. RegistryTypeOK'
  <2>1. fdTables' \in [Ids -> Slot(Tables)]
    BY <1>5 DEF handle_exit
  <2>2. fsInfos' \in [Ids -> Slot(Cwds)]
    BY <1>5 DEF handle_exit
  <2>3. snapshots' \in [Tasks -> Seq(Snapshot)]
    BY <1>1 DEF handle_exit, RegistryTypeOK
  <2> QED
    BY <1>1, <1>2, <1>4, <2>1, <2>2, <2>3 DEF RegistryTypeOK, handle_exit
<1>7. RefsExact'
  BY <1>1, <1>2, <1>3, <1>5 DEF RefsExact, RegistryInv, RegistryTypeOK
<1>8. IdsFresh'
  BY <1>1, <1>2, <1>3 DEF IdsFresh, RegistryInv, RegistryTypeOK, handle_exit
<1>9. SnapshotsOwned'
  <2>1. \A t \in Tasks : snapshots'[t] = IF t \in V THEN <<>> ELSE snapshots[t]
    BY DEF handle_exit
  <2> QED
    BY <2>1, <1>2, ThreadsAssumption DEF SnapshotsOwned, RegistryInv
<1>10. ParentsKnown'
  <2>1. ASSUME NEW t \in reg', t # InitTid
        PROVE  thread'[t].parent \in reg' \cup {InitTid}
    <3>1. t \in reg /\ t \notin V /\ t \in Tasks /\ thread[t] \in Thread
      BY <2>1, <1>1, <1>2 DEF RegistryTypeOK
    <3>2. thread'[t].parent = IF thread[t].parent \in V THEN InitTid
                                                        ELSE thread[t].parent
      BY <3>1 DEF handle_exit, Thread
    <3> QED
      BY <3>1, <3>2, <2>1, <1>2 DEF RegistryInv, ParentsKnown
  <2> QED
    BY <2>1 DEF ParentsKnown
<1>11. NoOutsiders'
  BY <1>2 DEF NoOutsiders, RegistryInv
<1> QED
  BY <1>2, <1>6, <1>7, <1>8, <1>9, <1>10, <1>11 DEF RegistryInv

-----------------------------------------------------------------------------
(* The recursion of ensure_registered.                                     *)

(* The stack part of StackOrdered, for any stack s and registered set R.   *)
GoodStack(s, R) ==
  /\ s \in Seq(Activation)
  /\ \A i \in 1..Len(s) :
       /\ s[i].tid \notin R
       /\ s[i].ptid = Host \/ s[i].ptid < s[i].tid
       /\ s[i].tid \in Outsiders => s[i].ptid = Host /\ ~s[i].adopt
  /\ \A i, j \in 1..Len(s) : i < j => s[j].tid < s[i].tid

(* The lock part of the invariant.                                         *)
LockInv == LockTypeOK /\ GoodStack(stack, reg) /\ (mode = "sync" => todo \subseteq Tids)

(* The kernel part of the invariant.                                       *)
KernelInv == KernelTypeOK /\ TreeOrdered

\* The invariant is the conjunction of its three parts.
LEMMA IInvParts == IInv <=> KernelInv /\ RegistryInv /\ LockInv
BY DEF IInv, TypeOK, KernelInv, RegistryInv, LockInv, LockTypeOK, GoodStack, StackOrdered

\* So it is after a step.
LEMMA IInvNext == KernelInv' /\ RegistryInv' /\ LockInv' => IInv'
BY DEF IInv, TypeOK, KernelInv, RegistryInv, LockInv, LockTypeOK, GoodStack, StackOrdered

\* An empty stack is in order.
LEMMA EmptyStack == \A R : GoodStack(<<>>, R)
BY DEF GoodStack

\* Activations name tasks, and tasks are numbers.
LEMMA ActivationIds ==
  ASSUME NEW s \in Seq(Activation), NEW i \in 1..Len(s)
  PROVE  s[i] \in Activation /\ s[i].tid \in Nat /\ s[i].tid \in Tasks
<1>1. s[i] \in Activation
  OBVIOUS
<1> QED
  BY <1>1, ConstantFacts DEF Activation

\* Calling ensure_registered for an older, unregistered task keeps the order.
LEMMA PushGood ==
  ASSUME NEW s, NEW R, GoodStack(s, R), NEW f \in Activation, f.tid \notin R,
         f.ptid = Host \/ f.ptid < f.tid,
         f.tid \in Outsiders => f.ptid = Host /\ ~f.adopt,
         \A i \in 1..Len(s) : f.tid < s[i].tid
  PROVE  GoodStack(Append(s, f), R)
<1>1. s \in Seq(Activation) /\ Len(s) \in Nat
  BY DEF GoodStack
<1>2. Append(s, f) \in Seq(Activation) /\ Len(Append(s, f)) = Len(s) + 1
  BY <1>1, AppendProperties
<1>3. \A i \in 1..Len(Append(s, f)) :
        Append(s, f)[i] = IF i <= Len(s) THEN s[i] ELSE f
  BY <1>1, <1>2, AppendProperties
<1>4. \A i \in 1..Len(s) + 1 : i \in 1..Len(s) \/ i = Len(s) + 1
  BY <1>1
<1>5. ASSUME NEW i \in 1..Len(Append(s, f))
      PROVE  LET a == Append(s, f)[i] IN
             /\ a.tid \notin R
             /\ a.ptid = Host \/ a.ptid < a.tid
             /\ a.tid \in Outsiders => a.ptid = Host /\ ~a.adopt
  <2>1. CASE i \in 1..Len(s)
    BY <2>1, <1>1, <1>3 DEF GoodStack
  <2>2. CASE i = Len(s) + 1
    BY <2>2, <1>1, <1>3
  <2> QED
    BY <2>1, <2>2, <1>2, <1>4
<1>6. ASSUME NEW i \in 1..Len(Append(s, f)), NEW j \in 1..Len(Append(s, f)), i < j
      PROVE  Append(s, f)[j].tid < Append(s, f)[i].tid
  <2>1. i \in 1..Len(s) /\ Append(s, f)[i] = s[i]
    BY <1>1, <1>2, <1>3, <1>6
  <2>2. CASE j \in 1..Len(s)
    BY <2>1, <2>2, <1>1, <1>3, <1>6 DEF GoodStack
  <2>3. CASE j = Len(s) + 1
    BY <2>1, <2>3, <1>1, <1>3
  <2> QED
    BY <2>2, <2>3, <1>2, <1>4
<1> QED
  BY <1>2, <1>5, <1>6 DEF GoodStack

\* Dropping the last element of a sequence.
LEMMA PrefixLength ==
  ASSUME NEW S, NEW s \in Seq(S), Len(s) \in Nat \ {0}
  PROVE  /\ SubSeq(s, 1, Len(s) - 1) \in Seq(S)
         /\ Len(SubSeq(s, 1, Len(s) - 1)) = Len(s) - 1
<1> DEFINE n == Len(s) - 1
<1>1. n \in Nat /\ n \in Int /\ 1 \in Int
  OBVIOUS
<1>2. \A i \in 1..n : s[i] \in S
  OBVIOUS
<1> HIDE DEF n
<1>3. /\ SubSeq(s, 1, n) \in Seq(S)
      /\ Len(SubSeq(s, 1, n)) = IF 1 <= n THEN n - 1 + 1 ELSE 0
  BY <1>1, <1>2, SubSeqProperties
<1>4. (IF 1 <= n THEN n - 1 + 1 ELSE 0) = n
  BY <1>1
<1>5. Len(SubSeq(s, 1, n)) = n
  BY <1>3, <1>4, Zenon
<1> QED
  BY <1>3, <1>5 DEF n

\* Returning from ensure_registered keeps the order, with or without the task
\* registered: no other activation is about it.
LEMMA PopGood ==
  ASSUME NEW s, NEW R, GoodStack(s, R), s # <<>>
  PROVE  LET rest == SubSeq(s, 1, Len(s) - 1) IN
         GoodStack(rest, R) /\ GoodStack(rest, R \cup {s[Len(s)].tid})
<1> DEFINE rest == SubSeq(s, 1, Len(s) - 1)
<1>1. s \in Seq(Activation) /\ Len(s) \in Nat \ {0}
  BY DEF GoodStack
<1>2. rest \in Seq(Activation) /\ Len(rest) = Len(s) - 1
  BY <1>1, PrefixLength
<1>3. \A i \in 1..Len(rest) : rest[i] = s[i] /\ i \in 1..Len(s) /\ i < Len(s)
  BY <1>1, <1>2
<1>4. \A i \in 1..Len(rest) : rest[i].tid # s[Len(s)].tid
  <2>1. Len(s) \in 1..Len(s)
    BY <1>1
  <2>2. \A i \in 1..Len(s) : s[i].tid \in Nat
    BY <1>1, ActivationIds
  <2> QED
    BY <2>1, <2>2, <1>3 DEF GoodStack
<1> HIDE DEF rest
<1>5. GoodStack(rest, R)
  BY <1>1, <1>2, <1>3 DEF GoodStack
<1>6. GoodStack(rest, R \cup {s[Len(s)].tid})
  BY <1>4, <1>5 DEF GoodStack
<1> QED
  BY <1>5, <1>6 DEF rest

\* Noting a failed parent changes no task of the stack.
LEMMA FailGood ==
  ASSUME NEW s, NEW R, GoodStack(s, R)
  PROVE  GoodStack(FailTop(s), R)
<1>1. CASE s = <<>>
  BY <1>1 DEF FailTop
<1>2. CASE s # <<>>
  <2>1. s \in Seq(Activation) /\ Len(s) \in Nat \ {0} /\ Len(s) \in 1..Len(s)
    BY <1>2 DEF GoodStack
  <2> DEFINE f == [s[Len(s)] EXCEPT !.up = "failed"]
  <2>2. s[Len(s)] \in Activation
    BY <2>1, ActivationIds
  <2>3. /\ f \in Activation /\ f.tid = s[Len(s)].tid /\ f.ptid = s[Len(s)].ptid
        /\ f.adopt = s[Len(s)].adopt
    BY <2>2 DEF Activation
  <2>4. FailTop(s) = [s EXCEPT ![Len(s)] = f]
    BY <1>2 DEF FailTop
  <2> HIDE DEF f
  <2>5. FailTop(s) \in Seq(Activation) /\ Len(FailTop(s)) = Len(s)
    BY <2>1, <2>3, <2>4, ExceptSeq
  <2>6. \A i \in 1..Len(s) : /\ FailTop(s)[i].tid = s[i].tid
                            /\ FailTop(s)[i].ptid = s[i].ptid
                            /\ FailTop(s)[i].adopt = s[i].adopt
    BY <2>1, <2>3, <2>4, ExceptSeq
  <2> QED
    BY <2>5, <2>6 DEF GoodStack
<1> QED
  BY <1>1, <1>2

-----------------------------------------------------------------------------
(* The kernel's steps keep the tree in order.                              *)

\* Tasks of the tree are tasks, and their parents and groups numbers.
LEMMA TaskIds ==
  ASSUME KernelTypeOK, NEW t \in Tasks
  PROVE  /\ task[t] \in Task /\ t \in Nat
         /\ task[t].ppid \in Nat /\ task[t].ppid \in Tids \cup {Host}
         /\ task[t].tgid \in Nat /\ task[t].tgid \in Tasks \cup {Host}
         /\ task[t].files \in Nat
<1>1. task[t] \in Task
  BY DEF KernelTypeOK
<1>2. Tasks \cup {Host} \subseteq Nat /\ Tids \subseteq Tasks
  BY ConstantFacts DEF Host
<1> QED
  BY <1>1, <1>2 DEF Task

(* A change of the tree that only touches what the order does not see:     *)
(* every entry is kept up to its pc and its files, or stops, and a parent  *)
(* may become the host.                                                    *)
Tamed(k) ==
  /\ k \in [Tasks -> Task]
  /\ \A t \in Tasks :
       /\ k[t].st \in {"live", "zombie"} => Visible(t) /\ k[t].tgid = task[t].tgid
       /\ k[t].ppid = Host \/ k[t].ppid = task[t].ppid
       /\ t \in Outsiders => k[t].tgid = task[t].tgid

\* Such a change keeps the order.
LEMMA TamedKeepsOrder ==
  ASSUME KernelInv, Tamed(task')
  PROVE  TreeOrdered'
<1>1. Tids \subseteq Tasks /\ Outsiders \subseteq Tasks
  BY ConstantFacts
<1> QED
  BY <1>1 DEF Tamed, TreeOrdered, KernelInv, Visible

\* Handing the children of a dead group to the host is such a change, after
\* one that is.
LEMMA OrphanedTamed ==
  ASSUME NEW k, NEW g, Tamed(k)
  PROVE  Tamed(Orphaned(k, g))
<1>1. CASE \E t \in Tids : k[t].st = "live" /\ k[t].tgid = g
  BY <1>1 DEF Orphaned
<1>2. CASE ~ \E t \in Tids : k[t].st = "live" /\ k[t].tgid = g
  <2> DEFINE o == [t \in Tasks |-> IF k[t].ppid = g THEN [k[t] EXCEPT !.ppid = Host]
                                                   ELSE k[t]]
  <2>1. Orphaned(k, g) = o
    BY <1>2 DEF Orphaned
  <2>2. ASSUME NEW t \in Tasks
        PROVE  /\ o[t] \in Task /\ o[t].st = k[t].st /\ o[t].tgid = k[t].tgid
               /\ o[t].ppid = Host \/ o[t].ppid = k[t].ppid
    <3>1. k[t] \in Task
      BY DEF Tamed
    <3>2. o[t] = IF k[t].ppid = g THEN [k[t] EXCEPT !.ppid = Host] ELSE k[t]
      OBVIOUS
    <3>3. [k[t] EXCEPT !.ppid = Host] \in Task
      BY <3>1 DEF Task
    <3> QED
      BY <3>1, <3>2, <3>3 DEF Task
  <2>3. o \in [Tasks -> Task]
    BY <2>2
  <2> HIDE DEF o
  <2>4. Tamed(o)
    BY <2>2, <2>3 DEF Tamed
  <2> QED
    BY <2>1, <2>4
<1> QED
  BY <1>1, <1>2

\* A task that becomes a zombie keeps its group and its parent.
LEMMA ZombieTask ==
  ASSUME NEW u \in Task
  PROVE  LET z == [u EXCEPT !.st = "zombie", !.pc = "user", !.files = 0] IN
         z \in Task /\ z.tgid = u.tgid /\ z.ppid = u.ppid
<1> DEFINE a == [u EXCEPT !.st = "zombie"]
           b == [a EXCEPT !.pc = "user"]
           z == [b EXCEPT !.files = 0]
<1>1. a \in Task /\ a.tgid = u.tgid /\ a.ppid = u.ppid
  BY DEF Task
<1> HIDE DEF a
<1>2. b \in Task /\ b.tgid = u.tgid /\ b.ppid = u.ppid
  BY <1>1 DEF Task
<1> HIDE DEF b
<1>3. z \in Task /\ z.tgid = u.tgid /\ z.ppid = u.ppid
  BY <1>2 DEF Task
<1>4. z = [u EXCEPT !.st = "zombie", !.pc = "user", !.files = 0]
  BY DEF a, b
<1> QED
  BY <1>3, <1>4

\* Tasks of the sandbox that stop leave the tree in order.
LEMMA StoppedTamed ==
  ASSUME KernelInv, NEW g, NEW V \in SUBSET Tids, \A t \in V : Visible(t)
  PROVE  Tamed(Stopped(g, V))
<1> DEFINE k == [t \in Tasks |->
                   IF t \notin V THEN task[t]
                   ELSE IF t = g THEN [task[t] EXCEPT !.st = "zombie", !.pc = "user",
                                                      !.files = 0]
                   ELSE Gone]
<1>1. ASSUME NEW t \in Tasks
      PROVE  /\ k[t] \in Task
             /\ k[t].st \in {"live", "zombie"} => Visible(t) /\ k[t].tgid = task[t].tgid
             /\ k[t].ppid = Host \/ k[t].ppid = task[t].ppid
             /\ t \in Outsiders => k[t].tgid = task[t].tgid
  <2>1. task[t] \in Task
    BY TaskIds DEF KernelInv
  <2>2. CASE t \notin V
    BY <2>1, <2>2 DEF Visible
  <2>3. CASE t \in V /\ t = g
    <3>1. k[t] = [task[t] EXCEPT !.st = "zombie", !.pc = "user", !.files = 0]
      BY <2>3
    <3>2. /\ k[t] \in Task /\ k[t].tgid = task[t].tgid /\ k[t].ppid = task[t].ppid
      BY <2>1, <3>1, ZombieTask
    <3>3. Visible(t)
      BY <2>3
    <3> HIDE DEF k
    <3> QED
      BY <3>2, <3>3
  <2>4. CASE t \in V /\ t # g
    <3>1. k[t] = Gone
      BY <2>4
    <3>2. Gone.st \notin {"live", "zombie"} /\ Gone.ppid = Host
      BY DEF Gone, NoTask
    <3>3. t \notin Outsiders
      BY <2>4, ThreadsAssumption
    <3> QED
      BY <3>1, <3>2, <3>3, ConstantFacts
  <2> QED
    BY <2>2, <2>3, <2>4
<1>2. Tamed(k)
  <2>1. k \in [Tasks -> Task]
    BY <1>1
  <2> HIDE DEF k
  <2> QED
    BY <1>1, <2>1 DEF Tamed
<1> QED
  BY <1>2, OrphanedTamed DEF Stopped

(* What a task may be doing.                                               *)
Pcs == {"user", "clone", "thread", "exit", "exit_group"}

\* A task that goes on keeps its place in the tree.
LEMMA ContinuedTamed ==
  ASSUME KernelInv, NEW t \in Tasks, NEW pc \in Pcs
  PROVE  /\ Continued(t, pc) \in Task
         /\ Continued(t, pc).st = task[t].st
         /\ Continued(t, pc).tgid = task[t].tgid
         /\ Continued(t, pc).ppid = task[t].ppid
         /\ Tamed([task EXCEPT ![t] = Continued(t, pc)])
<1>1. task[t] \in Task /\ task \in [Tasks -> Task]
  BY TaskIds DEF KernelInv, KernelTypeOK
<1>2. /\ Continued(t, pc) \in Task
      /\ Continued(t, pc).st = task[t].st
      /\ Continued(t, pc).tgid = task[t].tgid
      /\ Continued(t, pc).ppid = task[t].ppid
  BY <1>1 DEF Continued, Task, Pcs
<1>3. Tamed([task EXCEPT ![t] = Continued(t, pc)])
  BY <1>1, <1>2 DEF Tamed, Visible
<1> QED
  BY <1>2, <1>3

\* A new task is younger than its group and its parent.
LEMMA NewTaskOrdered ==
  ASSUME KernelInv, NEW p \in Tids, NEW c \in Tids, NEW kind, Alive(p), p < c
  PROVE  /\ NewTask(p, c, kind) \in Task
         /\ NewTask(p, c, kind).tgid \in Tids /\ NewTask(p, c, kind).tgid <= c
         /\ NewTask(p, c, kind).ppid = Host \/ NewTask(p, c, kind).ppid < c
<1>1. p \in Tasks /\ c \in Tasks /\ Tids \subseteq Nat
  BY ConstantFacts
<1>2. task[p].tgid \in Tids /\ task[p].tgid <= p
  BY DEF KernelInv, TreeOrdered, Visible, Alive
<1>3. task[p].ppid = Host \/ task[p].ppid < p
  BY DEF KernelInv, TreeOrdered
<1>4. /\ task[p].ppid \in Nat /\ task[p].ppid \in Tids \cup {Host}
      /\ task[p].files \in Nat
  BY <1>1, TaskIds DEF KernelInv
<1>5. clones + 2 \in Nat
  BY DEF KernelInv, KernelTypeOK
<1>6. CASE kind = "thread"
  <2> DEFINE n == [st |-> "live", tgid |-> task[p].tgid, ppid |-> task[p].ppid,
                   files |-> task[p].files, pc |-> "user"]
  <2>1. NewTask(p, c, kind) = n
    BY <1>6 DEF NewTask, NoTask
  <2>2. n \in Task /\ n.tgid = task[p].tgid /\ n.ppid = task[p].ppid
    BY <1>1, <1>2, <1>4, ConstantFacts DEF Task
  <2> HIDE DEF n
  <2> QED
    BY <2>1, <2>2, <1>1, <1>2, <1>3, <1>4
<1>7. CASE kind # "thread"
  <2> DEFINE n == [st |-> "live", tgid |-> c, ppid |-> task[p].tgid,
                   files |-> IF kind = "files" THEN task[p].files ELSE clones + 2,
                   pc |-> "user"]
  <2>1. NewTask(p, c, kind) = n
    BY <1>7 DEF NewTask, NoTask
  <2>2. n \in Task /\ n.tgid = c /\ n.ppid = task[p].tgid
    BY <1>1, <1>2, <1>4, <1>5, ConstantFacts DEF Task
  <2>3. task[p].tgid < c /\ c <= c
    <3>1. p \in Nat /\ c \in Nat /\ task[p].tgid \in Nat
      BY <1>1, <1>2
    <3> QED
      BY <3>1, <1>2
  <2> HIDE DEF n
  <2> QED
    BY <2>1, <2>2, <2>3, Zenon
<1> QED
  BY <1>6, <1>7

\* A step of the kernel keeps the tree in order and leaves the registry alone.
LEMMA KernelStep ==
  ASSUME TidReuse = FALSE, KernelInv, Kernel
  PROVE  KernelInv' /\ UNCHANGED <<registry, lock>>
<1>1. ASSUME NEW t \in Tids, Trap(t)
      PROVE  KernelInv' /\ UNCHANGED <<registry, lock>>
  BY <1>1 DEF Trap, KernelInv, KernelTypeOK, TreeOrdered, Visible, kernel
<1>2. ASSUME NEW p \in Tids, NEW c \in Tids, NEW kind \in CloneKinds,
             KernelClone(p, c, kind)
      PROVE  KernelInv' /\ UNCHANGED <<registry, lock>>
  <2>1. p \in Tasks /\ c \in Tasks /\ Tids \subseteq Nat /\ Tids \cap Outsiders = {}
        /\ Tids \subseteq Tasks /\ Outsiders \subseteq Tasks
    BY ConstantFacts, ThreadsAssumption
  <2>2. p < c /\ Alive(p)
    <3>1. Alive(p) /\ \A t \in Tids : task[t].st # "none" => t < c
      BY <1>2, Zenon DEF KernelClone, NewTid
    <3>2. task[p].st # "none"
      BY <3>1 DEF Alive
    <3> QED
      BY <3>1, <3>2
  <2>3. /\ task' = [task EXCEPT ![p] = Continued(p, "user"),
                                ![c] = NewTask(p, c, kind)]
        /\ clones' = clones + 1 /\ inflight' = inflight
        /\ UNCHANGED <<registry, lock>>
    BY <1>2 DEF KernelClone
  <2> DEFINE m == [task EXCEPT ![p] = Continued(p, "user")]
  <2>4. Tamed(m)
    BY <2>1, ContinuedTamed DEF Pcs
  <2>5. task' = [m EXCEPT ![c] = NewTask(p, c, kind)]
    BY <2>3
  <2> HIDE DEF m
  <2>6. /\ NewTask(p, c, kind) \in Task
        /\ NewTask(p, c, kind).tgid \in Tids /\ NewTask(p, c, kind).tgid <= c
        /\ NewTask(p, c, kind).ppid = Host \/ NewTask(p, c, kind).ppid < c
    BY <2>2, NewTaskOrdered
  <2>7. /\ task' \in [Tasks -> Task] /\ task'[c] = NewTask(p, c, kind)
        /\ \A t \in Tasks : t # c => task'[t] = m[t]
    BY <2>1, <2>4, <2>5, <2>6 DEF Tamed
  <2>8. TreeOrdered'
    <3>1. ASSUME NEW t \in Tids, Visible(t)'
          PROVE  task'[t].tgid \in Tids /\ task'[t].tgid <= t
      BY <3>1, <2>1, <2>4, <2>6, <2>7 DEF Tamed, KernelInv, TreeOrdered, Visible
    <3>2. ASSUME NEW t \in Tids PROVE task'[t].ppid = Host \/ task'[t].ppid < t
      BY <2>1, <2>4, <2>6, <2>7 DEF Tamed, KernelInv, TreeOrdered
    <3>3. ASSUME NEW t \in Outsiders PROVE task'[t].ppid = Host /\ task'[t].tgid = t
      BY <2>1, <2>4, <2>7 DEF Tamed, KernelInv, TreeOrdered
    <3> QED
      BY <3>1, <3>2, <3>3 DEF TreeOrdered
  <2> QED
    BY <2>3, <2>7, <2>8 DEF KernelInv, KernelTypeOK
<1>3. ASSUME NEW p \in Tids, KernelCloneFails(p)
      PROVE  KernelInv' /\ UNCHANGED <<registry, lock>>
  <2>1. p \in Tasks
    BY ConstantFacts
  <2>2. Tamed(task')
    BY <1>3, <2>1, ContinuedTamed DEF KernelCloneFails, Pcs
  <2> QED
    BY <1>3, <2>2, TamedKeepsOrder DEF KernelCloneFails, KernelInv, KernelTypeOK, Tamed
<1>4. ASSUME NEW t \in Tids, KernelExit(t)
      PROVE  KernelInv' /\ UNCHANGED <<registry, lock>>
  <2>1. Tamed(task')
    BY <1>4, StoppedTamed DEF KernelExit, Alive, Visible
  <2> QED
    BY <1>4, <2>1, TamedKeepsOrder DEF KernelExit, KernelInv, KernelTypeOK, Tamed
<1>5. ASSUME NEW t \in Tids, KernelExitGroup(t)
      PROVE  KernelInv' /\ UNCHANGED <<registry, lock>>
  <2>1. Tamed(task')
    BY <1>5, StoppedTamed DEF KernelExitGroup, Group
  <2>2. inflight' \subseteq Tids
    BY <1>5 DEF KernelExitGroup, InFlightAfter, KernelInv, KernelTypeOK
  <2> QED
    BY <1>5, <2>1, <2>2, TamedKeepsOrder DEF KernelExitGroup, KernelInv, KernelTypeOK, Tamed
<1>6. ASSUME NEW g \in Tids, KernelKill(g)
      PROVE  KernelInv' /\ UNCHANGED <<registry, lock>>
  <2>1. Tamed(task')
    BY <1>6, StoppedTamed DEF KernelKill, Group
  <2>2. inflight' \subseteq Tids
    BY <1>6 DEF KernelKill, InFlightAfter, KernelInv, KernelTypeOK
  <2> QED
    BY <1>6, <2>1, <2>2, TamedKeepsOrder DEF KernelKill, KernelInv, KernelTypeOK, Tamed
<1>7. ASSUME NEW g \in Tids, KernelReap(g)
      PROVE  KernelInv' /\ UNCHANGED <<registry, lock>>
  <2>1. task' = [task EXCEPT ![g] = Gone]
    BY <1>7 DEF KernelReap
  <2>2. Gone \in Task /\ Gone.st \notin {"live", "zombie"} /\ Gone.ppid = Host
    BY ConstantFacts DEF Gone, NoTask
  <2>3. g \notin Outsiders /\ g \in Tasks
    BY ThreadsAssumption, ConstantFacts
  <2>4. Tamed(task')
    BY <2>1, <2>2, <2>3 DEF Tamed, KernelInv, KernelTypeOK, Visible
  <2> QED
    BY <1>7, <2>4, TamedKeepsOrder DEF KernelReap, KernelInv, KernelTypeOK, Tamed
<1> QED
  BY <1>1, <1>2, <1>3, <1>4, <1>5, <1>6, <1>7 DEF Kernel

-----------------------------------------------------------------------------
(* The handler's steps.                                                    *)

\* The activation on top of the stack, and the stack without it.
LEMMA TopFacts ==
  ASSUME LockInv, stack # <<>>
  PROVE  /\ stack \in Seq(Activation) /\ Depth \in Nat \ {0} /\ Depth \in 1..Len(stack)
         /\ Top \in Activation /\ Top.tid \in Tasks /\ Top.tid \in Nat
         /\ Top.ptid \in Nat /\ Top.ptid \in Tids \cup {Host} /\ Top.tgid \in Tasks
         /\ Top.tid \notin reg /\ (Top.ptid = Host \/ Top.ptid < Top.tid)
         /\ Top.tid \in Outsiders => Top.ptid = Host /\ ~Top.adopt
         /\ \A i \in 1..Len(stack) : Top.tid <= stack[i].tid
         /\ GoodStack(Pop, reg) /\ GoodStack(Pop, reg \cup {Top.tid})
<1>1. stack \in Seq(Activation) /\ GoodStack(stack, reg)
  BY DEF LockInv, GoodStack
<1>2. Depth \in Nat \ {0} /\ Depth \in 1..Len(stack)
  BY <1>1 DEF Depth
<1>3. Top \in Activation /\ Top.tid \in Tasks /\ Top.tid \in Nat
  BY <1>1, <1>2, ActivationIds DEF Top
<1>4. Tids \cup {Host} \subseteq Nat
  BY ConstantFacts DEF Host
<1>5. Top.ptid \in Nat /\ Top.ptid \in Tids \cup {Host} /\ Top.tgid \in Tasks
  BY <1>3, <1>4 DEF Activation
<1>6. /\ Top.tid \notin reg /\ (Top.ptid = Host \/ Top.ptid < Top.tid)
      /\ Top.tid \in Outsiders => Top.ptid = Host /\ ~Top.adopt
  BY <1>1, <1>2 DEF GoodStack, Top
<1>7. ASSUME NEW i \in 1..Len(stack) PROVE Top.tid <= stack[i].tid
  <2>1. i < Depth \/ i = Depth
    BY <1>1 DEF Depth
  <2>2. stack[i].tid \in Nat
    BY <1>1, ActivationIds
  <2>3. CASE i < Depth
    <3>1. stack[Depth].tid < stack[i].tid
      BY <2>3, <1>1, <1>2 DEF GoodStack
    <3> QED
      BY <3>1, <2>2, <1>3 DEF Top
  <2>4. CASE i = Depth
    BY <2>4, <1>3 DEF Top
  <2> QED
    BY <2>1, <2>3, <2>4
<1>8. GoodStack(Pop, reg) /\ GoodStack(Pop, reg \cup {Top.tid})
  BY <1>1, PopGood DEF Pop, Top, Depth
<1> QED
  BY <1>1, <1>2, <1>3, <1>5, <1>6, <1>7, <1>8

\* What an activation reads of a task that exists.
LEMMA FrameFacts ==
  ASSUME KernelInv, NEW t \in Tasks, Visible(t), NEW adopt \in BOOLEAN
  PROVE  /\ Frame(t, adopt) \in Activation
         /\ Frame(t, adopt).tid = t /\ Frame(t, adopt).adopt = adopt
         /\ Frame(t, adopt).ptid = Host \/ Frame(t, adopt).ptid < t
         /\ t \in Outsiders => Frame(t, adopt).ptid = Host
<1>1. t \in Tids \/ t \in Outsiders
  BY DEF Tasks
<1>2. task[t].ppid \in Tids \cup {Host}
  BY TaskIds DEF KernelInv
<1>3. task[t].tgid \in Tasks
  BY <1>1, ConstantFacts DEF KernelInv, TreeOrdered
<1>4. /\ task[t].ppid = Host \/ task[t].ppid < t
      /\ t \in Outsiders => task[t].ppid = Host
  BY <1>1 DEF KernelInv, TreeOrdered
<1>5. Frame(t, adopt) \in Activation
  BY <1>2, <1>3 DEF Frame, Activation
<1> QED
  BY <1>4, <1>5 DEF Frame

\* The steps that only move the recursion.
LEMMA RecursionStep ==
  ASSUME IInv,
         \/ \E t \in Tids : Begin(t)
         \/ \E t \in Tasks : ensure_registered(t)
         \/ ensure_parent \/ not_in_sandbox \/ sync_new_threads
  PROVE  IInv'
<1>0. KernelInv /\ RegistryInv /\ LockInv /\ Tids \subseteq Tasks
  BY IInvParts, ConstantFacts
<1>1. ASSUME UNCHANGED <<kernel, inflight, registry>> PROVE KernelInv' /\ RegistryInv'
  BY <1>0, <1>1 DEF kernel, registry, arenas, KernelInv, KernelTypeOK, TreeOrdered, Visible,
     RegistryInv, RegistryTypeOK, RefsExact, IdsFresh, SnapshotsOwned, ParentsKnown,
     NoOutsiders, FdUsers, FsUsers
<1>2. ASSUME NEW t \in Tids, Begin(t) PROVE IInv'
  <2>1. LockInv'
    BY <1>0, <1>2, EmptyStack DEF Begin, LockInv, LockTypeOK, GoodStack
  <2> QED
    BY <1>1, <1>2, <2>1, IInvNext DEF Begin
<1>3. ASSUME NEW t \in Tasks, ensure_registered(t) PROVE IInv'
  <2>1. reg' = reg /\ mode' = mode /\ caller' = caller /\ todo' = todo \ {t}
    BY <1>3 DEF ensure_registered, EnsureWith, registry
  <2>2. GoodStack(stack', reg)
    <3>1. CASE t \notin reg /\ Visible(t)
      <4> DEFINE f == Frame(t, mode = "sync")
      <4>1. (mode = "sync") \in BOOLEAN
        OBVIOUS
      <4>2. /\ f \in Activation /\ f.tid = t /\ f.adopt = (mode = "sync")
            /\ f.ptid = Host \/ f.ptid < t
            /\ t \in Outsiders => f.ptid = Host
        BY <4>1, <1>0, <3>1, FrameFacts
      <4>3. stack' = <<f>>
        BY <1>3, <3>1 DEF ensure_registered, EnsureWith
      <4>4. t \in Outsiders => mode # "sync"
        BY <1>0, <1>3, ThreadsAssumption DEF LockInv, ensure_registered, EnsureWith
      <4> HIDE DEF f
      <4>5. GoodStack(Append(<<>>, f), reg)
        <5>1. \A i \in 1..Len(<<>>) : f.tid < <<>>[i].tid
          OBVIOUS
        <5>2. f.tid \in Outsiders => f.ptid = Host /\ ~f.adopt
          BY <4>2, <4>4
        <5>3. GoodStack(<<>>, reg) /\ f.tid \notin reg /\ (f.ptid = Host \/ f.ptid < f.tid)
          BY <4>2, <3>1, EmptyStack
        <5> QED
          BY <4>2, <5>1, <5>2, <5>3, PushGood
      <4> QED
        BY <4>3, <4>5
    <3>2. CASE ~(t \notin reg /\ Visible(t))
      BY <1>3, <3>2, EmptyStack DEF ensure_registered, EnsureWith
    <3> QED
      BY <3>1, <3>2
  <2>3. LockInv'
    BY <2>1, <2>2, <1>0 DEF LockInv, LockTypeOK, GoodStack
  <2> QED
    BY <1>1, <1>3, <2>3, IInvNext DEF ensure_registered, EnsureWith
<1>4. ASSUME ensure_parent PROVE IInv'
  <2>1. stack # <<>> /\ Top.ptid \notin reg
    BY <1>4 DEF ensure_parent
  <2>2. reg' = reg /\ mode' = mode /\ caller' = caller /\ todo' = todo
    BY <1>4 DEF ensure_parent, registry
  <2>3. GoodStack(stack, reg)
    BY <1>0 DEF LockInv
  <2>4. GoodStack(stack', reg)
    <3>1. CASE Top.ptid # Host /\ Visible(Top.ptid)
      <4> DEFINE f == Frame(Top.ptid, FALSE)
      <4>1. /\ Top.ptid \in Tids /\ Top.ptid \in Tasks /\ Top.ptid \notin Outsiders
            /\ Top.ptid < Top.tid
        BY <1>0, <2>1, <3>1, TopFacts, ThreadsAssumption
      <4>2. f \in Activation /\ f.tid = Top.ptid /\ (f.ptid = Host \/ f.ptid < Top.ptid)
        BY <1>0, <3>1, <4>1, FrameFacts
      <4>3. \A i \in 1..Len(stack) : Top.ptid < stack[i].tid
        <5>1. \A i \in 1..Len(stack) : stack[i].tid \in Nat /\ Top.tid <= stack[i].tid
          BY <1>0, <2>1, TopFacts, ActivationIds
        <5> QED
          BY <5>1, <4>1, <1>0, <2>1, TopFacts
      <4>4. stack' = Append(stack, f)
        BY <1>4, <3>1 DEF ensure_parent
      <4> HIDE DEF f
      <4>5. GoodStack(Append(stack, f), reg)
        BY <2>1, <2>3, <4>1, <4>2, <4>3, PushGood
      <4> QED
        BY <4>4, <4>5
    <3>2. CASE ~(Top.ptid # Host /\ Visible(Top.ptid))
      BY <1>4, <2>3, <3>2, FailGood DEF ensure_parent
    <3> QED
      BY <3>1, <3>2
  <2>5. LockInv'
    BY <2>2, <2>4, <1>0 DEF LockInv, LockTypeOK, GoodStack
  <2> QED
    BY <1>1, <1>4, <2>5, IInvNext DEF ensure_parent
<1>5. ASSUME not_in_sandbox PROVE IInv'
  <2>1. stack # <<>> /\ stack' = FailTop(Pop)
    BY <1>5 DEF not_in_sandbox
  <2>2. reg' = reg /\ mode' = mode /\ caller' = caller /\ todo' = todo
    BY <1>5 DEF not_in_sandbox, registry
  <2>3. GoodStack(stack', reg)
    BY <1>0, <2>1, TopFacts, FailGood
  <2>4. LockInv'
    BY <2>2, <2>3, <1>0 DEF LockInv, LockTypeOK, GoodStack
  <2> QED
    BY <1>1, <1>5, <2>4, IInvNext DEF not_in_sandbox
<1>6. ASSUME sync_new_threads PROVE IInv'
  <2>1. LockInv'
    BY <1>0, <1>6, EmptyStack DEF sync_new_threads, Ready, registry, LockInv, LockTypeOK
  <2> QED
    BY <1>1, <1>6, <2>1, IInvNext DEF sync_new_threads
<1> QED
  BY <1>2, <1>3, <1>4, <1>5, <1>6

\* The steps that end an activation by registering its task.
LEMMA RegistrationStep ==
  ASSUME IInv, register_known \/ adopt_orphan
  PROVE  IInv'
<1>0. KernelInv /\ RegistryInv /\ LockInv
  BY IInvParts
<1>1. /\ stack # <<>> /\ stack' = Pop
      /\ UNCHANGED <<kernel, inflight, mode, caller, todo>>
  BY DEF register_known, adopt_orphan
<1>2. KernelInv'
  BY <1>0, <1>1 DEF kernel, KernelInv, KernelTypeOK, TreeOrdered, Visible
<1>3. RegistryInv' /\ (reg' = reg \/ reg' = reg \cup {Top.tid})
  <2>1. CASE register_known
    <3>1. Top.ptid \in reg /\ Top.ptid # Host
      BY <2>1, <1>0, ConstantFacts DEF register_known, RegistryInv, RegistryTypeOK
    <3>2. Top.tid \in Tids /\ Top.tid \notin reg
      BY <3>1, <1>0, <1>1, TopFacts DEF Tasks
    <3>3. register_child(Top.ptid, Top.tid, Top.tgid # Top.tid,
                         shares_fd_table(Top.ptid, Top.tid), TRUE)
      BY <2>1 DEF register_known
    <3> QED
      BY <3>1, <3>2, <3>3, <1>0, RegisterChildInv
  <2>2. CASE adopt_orphan
    <3>1. Top.tid \in Tids /\ Top.tid \notin reg
      <4>1. Top.adopt
        BY <2>2 DEF adopt_orphan
      <4> QED
        BY <4>1, <1>0, <1>1, TopFacts DEF Tasks
    <3>2. CASE Top.tgid \in reg /\ register_child(Top.tgid, Top.tid, TRUE, FALSE, TRUE)
      BY <3>1, <3>2, <1>0, RegisterChildInv
    <3>3. CASE InitTid \in reg /\ register_child(InitTid, Top.tid, FALSE, FALSE, FALSE)
      BY <3>1, <3>3, <1>0, RegisterChildInv
    <3>4. CASE UNCHANGED registry
      BY <1>0, <3>4 DEF registry, arenas, RegistryInv, RegistryTypeOK, RefsExact, IdsFresh,
         SnapshotsOwned, ParentsKnown, NoOutsiders, FdUsers, FsUsers
    <3> QED
      BY <2>2, <3>2, <3>3, <3>4 DEF adopt_orphan
  <2> QED
    BY <2>1, <2>2
<1>4. GoodStack(stack', reg')
  BY <1>0, <1>1, <1>3, TopFacts
<1>5. LockInv'
  BY <1>0, <1>1, <1>4 DEF LockInv, LockTypeOK, GoodStack
<1> QED
  BY <1>2, <1>3, <1>5, IInvNext

\* Replying keeps the tree in order and leaves the mutex free.
LEMMA AnswerStep ==
  ASSUME IInv, NEW pc \in Pcs, Answer(pc)
  PROVE  KernelInv' /\ LockInv'
<1>0. KernelInv /\ LockInv /\ caller \in Tids /\ caller \in Tasks
  BY IInvParts, ConstantFacts DEF LockInv, LockTypeOK
<1>1. Tamed(task')
  <2>1. CASE Alive(caller)
    BY <2>1, <1>0, ContinuedTamed DEF Answer
  <2>2. CASE ~Alive(caller)
    BY <2>2, <1>0 DEF Answer, Tamed, KernelInv, KernelTypeOK, Visible
  <2> QED
    BY <2>1, <2>2
<1>2. KernelInv'
  BY <1>0, <1>1, TamedKeepsOrder DEF Answer, KernelInv, KernelTypeOK, Tamed
<1>3. LockInv'
  <2>1. /\ mode' = "free" /\ caller' = InitTid /\ todo' = {} /\ stack' = <<>>
    BY DEF Answer
  <2>2. GoodStack(stack', reg')
    BY <2>1, EmptyStack
  <2> QED
    BY <2>1, <2>2, ConstantFacts DEF LockInv, LockTypeOK, GoodStack
<1> QED
  BY <1>2, <1>3

\* Changing the value of a slot, or a queue within its bound, keeps the
\* registry sound.
LEMMA ValueChangeInv ==
  ASSUME RegistryInv,
         UNCHANGED <<reg, thread, nextFdt, nextFsi>>,
         fdTables' \in [Ids -> Slot(Tables)], fsInfos' \in [Ids -> Slot(Cwds)],
         \A id \in Ids : /\ fdTables'[id].refs = fdTables[id].refs
                         /\ fsInfos'[id].refs = fsInfos[id].refs,
         snapshots' \in [Tasks -> Seq(Snapshot)],
         SnapshotsOwned'
  PROVE  RegistryInv'
BY DEF RegistryInv, RegistryTypeOK, RefsExact, IdsFresh, ParentsKnown, NoOutsiders,
   FdUsers, FsUsers

\* Writing the value of one slot keeps every count.
LEMMA WriteSlot ==
  ASSUME NEW S, NEW arena \in [Ids -> Slot(S)], NEW id \in Ids, NEW v \in S
  PROVE  /\ [arena EXCEPT ![id].value = v] \in [Ids -> Slot(S)]
         /\ \A j \in Ids : [arena EXCEPT ![id].value = v][j].refs = arena[j].refs
<1>1. [arena[id] EXCEPT !.value = v] \in Slot(S)
  BY DEF Slot
<1>2. [arena[id] EXCEPT !.value = v].refs = arena[id].refs
  BY DEF Slot
<1>3. [arena EXCEPT ![id].value = v] = [arena EXCEPT ![id] = [arena[id] EXCEPT !.value = v]]
  OBVIOUS
<1> DEFINE w == [arena[id] EXCEPT !.value = v]
<1> HIDE DEF w
<1>4. w \in Slot(S) /\ w.refs = arena[id].refs
  BY <1>1, <1>2 DEF w
<1>5. /\ [arena EXCEPT ![id] = w] \in [Ids -> Slot(S)]
      /\ \A j \in Ids : [arena EXCEPT ![id] = w][j].refs = arena[j].refs
  BY <1>4
<1> QED
  BY <1>3, <1>5 DEF w

\* Queueing a snapshot for a registered parent stays within the bound.
LEMMA SnapshotForkInv ==
  ASSUME RegistryInv, NEW p \in reg, NEW table \in Tables, snapshot_fork(p, table),
         reg' = reg
  PROVE  snapshots' \in [Tasks -> Seq(Snapshot)] /\ SnapshotsOwned'
<1>1. /\ snapshots \in [Tasks -> Seq(Snapshot)] /\ p \in Tasks
      /\ snapshots[p] \in Seq(Snapshot) /\ QueueBound \in Nat
      /\ Len(snapshots[p]) <= QueueBound /\ Len(snapshots[p]) \in Nat
  BY ThreadsAssumption DEF RegistryInv, RegistryTypeOK, SnapshotsOwned
<1>2. thread[p].fsi \in Ids
  BY <1>1 DEF RegistryInv, RegistryTypeOK, RefsExact, Thread
<1> DEFINE x == [fd |-> table, cwd |-> fsInfos[thread[p].fsi].value]
           q == Append(snapshots[p], x)
           b == Bounded(q)
<1>3. x \in Snapshot
  <2>1. fsInfos[thread[p].fsi].value \in Cwds
    BY <1>2 DEF RegistryInv, RegistryTypeOK, Slot
  <2> QED
    BY <2>1 DEF Snapshot
<1>4. snapshots' = [snapshots EXCEPT ![p] = b]
  BY DEF snapshot_fork
<1> HIDE DEF x
<1>5. q \in Seq(Snapshot) /\ Len(q) = Len(snapshots[p]) + 1 /\ q # <<>>
  BY <1>1, <1>3, AppendProperties
<1> HIDE DEF q
<1>6. b \in Seq(Snapshot) /\ Len(b) <= QueueBound
  <2>1. CASE Len(q) > QueueBound
    <3>1. b = Tail(q) /\ Tail(q) \in Seq(Snapshot) /\ Len(Tail(q)) = Len(q) - 1
      BY <2>1, <1>5, HeadTailProperties DEF Bounded
    <3> QED
      BY <3>1, <1>1, <1>5
  <2>2. CASE ~(Len(q) > QueueBound)
    BY <2>2, <1>1, <1>5 DEF Bounded
  <2> QED
    BY <2>1, <2>2
<1> HIDE DEF b
<1>7. snapshots' \in [Tasks -> Seq(Snapshot)]
  BY <1>1, <1>4, <1>6
<1>8. SnapshotsOwned'
  BY <1>1, <1>4, <1>6 DEF SnapshotsOwned, RegistryInv
<1> QED
  BY <1>7, <1>8

\* The handlers that reply.
LEMMA ReplyStep ==
  ASSUME IInv,
         \/ sys_query
         \/ \E table \in Tables : sys_fd(table)
         \/ \E d \in Cwds : sys_chdir(d)
         \/ \E kind \in CloneKinds : sys_clone(kind)
  PROVE  IInv'
<1>0. /\ KernelInv /\ RegistryInv /\ LockInv /\ RegistryTypeOK
      /\ fdTables \in [Ids -> Slot(Tables)] /\ fsInfos \in [Ids -> Slot(Cwds)]
      /\ snapshots \in [Tasks -> Seq(Snapshot)]
  BY IInvParts DEF RegistryInv, RegistryTypeOK
<1>1. ASSUME UNCHANGED registry PROVE RegistryInv'
  BY <1>0, <1>1 DEF registry, arenas, RegistryInv, RegistryTypeOK, RefsExact, IdsFresh,
     SnapshotsOwned, ParentsKnown, NoOutsiders, FdUsers, FsUsers
<1>3. ASSUME UNCHANGED <<reg, snapshots>> PROVE SnapshotsOwned'
  BY <1>0, <1>3 DEF RegistryInv, SnapshotsOwned
<1>4. ASSUME NEW t \in reg PROVE thread[t].fdt \in Ids /\ thread[t].fsi \in Ids
  BY <1>0 DEF RegistryInv, RegistryTypeOK, RefsExact, Thread
<1>5. CASE sys_query
  BY <1>1, <1>5, AnswerStep, IInvNext DEF sys_query, Pcs
<1>6. ASSUME NEW table \in Tables, sys_fd(table) PROVE IInv'
  <2>1. /\ caller \in reg /\ Answer("user")
        /\ fdTables' = [fdTables EXCEPT ![thread[caller].fdt].value = table]
        /\ UNCHANGED <<reg, thread, fsInfos, snapshots, nextFdt, nextFsi>>
    BY <1>6 DEF sys_fd
  <2>2. /\ fdTables' \in [Ids -> Slot(Tables)]
        /\ \A id \in Ids : fdTables'[id].refs = fdTables[id].refs
    BY <1>0, <1>4, <2>1, WriteSlot
  <2>3. RegistryInv'
    BY <1>0, <1>3, <2>1, <2>2, ValueChangeInv
  <2> QED
    BY <2>1, <2>3, AnswerStep, IInvNext DEF Pcs
<1>7. ASSUME NEW d \in Cwds, sys_chdir(d) PROVE IInv'
  <2>1. /\ caller \in reg /\ Answer("user")
        /\ fsInfos' = [fsInfos EXCEPT ![thread[caller].fsi].value = d]
        /\ UNCHANGED <<reg, thread, fdTables, snapshots, nextFdt, nextFsi>>
    BY <1>7 DEF sys_chdir
  <2>2. /\ fsInfos' \in [Ids -> Slot(Cwds)]
        /\ \A id \in Ids : fsInfos'[id].refs = fsInfos[id].refs
    BY <1>0, <1>4, <2>1, WriteSlot
  <2>3. RegistryInv'
    BY <1>0, <1>3, <2>1, <2>2, ValueChangeInv
  <2> QED
    BY <2>1, <2>3, AnswerStep, IInvNext DEF Pcs
<1>8. ASSUME NEW kind \in CloneKinds, sys_clone(kind) PROVE IInv'
  <2>0. \E pc \in Pcs : Answer(pc)
    <3>1. Answer(IF kind = "thread" THEN "thread" ELSE "clone")
      BY <1>8 DEF sys_clone
    <3>2. (IF kind = "thread" THEN "thread" ELSE "clone") \in Pcs
      BY DEF Pcs
    <3> QED
      BY <3>1, <3>2
  <2>1. UNCHANGED <<reg, thread, fdTables, fsInfos, nextFdt, nextFsi>>
    BY <1>8 DEF sys_clone, arenas
  <2>2. CASE kind = "thread" \/ caller \notin reg
    <3>1. UNCHANGED snapshots
      BY <1>8, <2>2 DEF sys_clone
    <3>2. RegistryInv'
      BY <1>1, <2>1, <3>1 DEF registry, arenas
    <3> QED
      BY <2>0, <3>2, AnswerStep, IInvNext
  <2>3. CASE ~(kind = "thread" \/ caller \notin reg)
    <3>1. PICK table \in deep_clone(fdTables[thread[caller].fdt].value) :
            snapshot_fork(caller, table)
      BY <1>8, <2>3 DEF sys_clone
    <3>2. fdTables[thread[caller].fdt].value \in Tables /\ fsInfos[thread[caller].fsi].value \in Cwds
      BY <1>0, <1>4, <2>3 DEF Slot
    <3>3. table \in Tables
      BY <3>1, <3>2 DEF deep_clone, Tables
    <3>4. snapshots' \in [Tasks -> Seq(Snapshot)] /\ SnapshotsOwned'
      BY <1>0, <2>1, <2>3, <3>1, <3>3, SnapshotForkInv
    <3>5. RegistryInv'
      BY <1>0, <2>1, <3>4, ValueChangeInv
    <3> QED
      BY <2>0, <3>5, AnswerStep, IInvNext
  <2> QED
    BY <2>2, <2>3
<1> QED
  BY <1>5, <1>6, <1>7, <1>8

\* exit and exit_group.
LEMMA ExitStep ==
  ASSUME IInv, NEW t \in Tids, sys_exit(t) \/ sys_exit_group(t)
  PROVE  IInv'
<1>0. KernelInv /\ RegistryInv /\ LockInv /\ t \in Tasks
  BY IInvParts, ConstantFacts
<1>1. PICK pc \in {"exit", "exit_group"}, V \in SUBSET reg : Exit(t, pc, V)
  <2>1. CASE sys_exit(t)
    <3>1. {t} \cap reg \in SUBSET reg
      OBVIOUS
    <3> QED
      BY <2>1, <3>1 DEF sys_exit
  <2>2. CASE sys_exit_group(t)
    <3> DEFINE V == IF t \in reg THEN {u \in reg : thread[u].tgid = thread[t].tgid} ELSE {}
    <3>1. V \in SUBSET reg
      OBVIOUS
    <3>2. Exit(t, "exit_group", V)
      BY <2>2 DEF sys_exit_group
    <3> HIDE DEF V
    <3> QED
      BY <3>1, <3>2
  <2> QED
    BY <2>1, <2>2
<1>2. RegistryInv' /\ reg' \subseteq reg
  BY <1>0, <1>1, HandleExitInv DEF Exit
<1>3. Tamed(task')
  <2>1. CASE Alive(t)
    <3>1. task' = [task EXCEPT ![t] = Continued(t, pc)]
      BY <1>1, <2>1 DEF Exit
    <3>2. pc \in Pcs
      BY <1>1 DEF Pcs
    <3> QED
      BY <3>1, <3>2, <1>0, ContinuedTamed
  <2>2. CASE ~Alive(t)
    BY <1>0, <1>1, <2>2 DEF Exit, Tamed, KernelInv, KernelTypeOK, Visible
  <2> QED
    BY <2>1, <2>2
<1>4. KernelInv'
  BY <1>0, <1>1, <1>3, TamedKeepsOrder DEF Exit, KernelInv, KernelTypeOK, Tamed
<1>5. LockInv'
  BY <1>0, <1>1, <1>2 DEF Exit, lock, LockInv, LockTypeOK, GoodStack
<1> QED
  BY <1>2, <1>4, <1>5, IInvNext

-----------------------------------------------------------------------------
(* The theorems.                                                           *)

\* The first state satisfies the invariant.
LEMMA InitInv == Init => IInv
<1> SUFFICES ASSUME Init PROVE IInv
  OBVIOUS
<1>1. KernelInv
  <2>1. ASSUME NEW t \in Tasks
        PROVE  /\ task[t] \in Task /\ task[t].ppid = Host
               /\ t \in Outsiders => task[t].tgid = t
               /\ t \in Tids /\ Visible(t) => task[t].tgid = t
    <3> DEFINE live == [NoTask EXCEPT !.st = "live", !.tgid = t, !.files = 1]
    <3>1. NoTask \in Task /\ NoTask.ppid = Host
      BY ConstantFacts DEF NoTask
    <3>2. live \in Task /\ live.tgid = t /\ live.ppid = Host
      <4> DEFINE a == [NoTask EXCEPT !.st = "live"]
                 b == [a EXCEPT !.tgid = t]
                 l == [b EXCEPT !.files = 1]
      <4>1. a \in Task /\ a.ppid = Host
        BY <3>1 DEF Task
      <4> HIDE DEF a
      <4>2. b \in Task /\ b.ppid = Host /\ b.tgid = t
        BY <4>1 DEF Task
      <4> HIDE DEF b
      <4>3. l \in Task /\ l.ppid = Host /\ l.tgid = t
        BY <4>2 DEF Task
      <4>4. l = live
        BY DEF a, b
      <4> QED
        BY <4>3, <4>4
    <3>3. NoTask \in Task /\ NoTask.st = "none" /\ NoTask.ppid = Host
      BY ConstantFacts DEF NoTask
    <3>4. task[t] = IF t = InitTid \/ t \in Outsiders THEN live ELSE NoTask
      BY DEF Init, KernelInit
    <3> HIDE DEF live
    <3> QED
      BY <3>2, <3>3, <3>4 DEF Visible
  <2>2. task \in [Tasks -> Task]
    BY <2>1 DEF Init, KernelInit
  <2>3. KernelTypeOK
    BY <2>2 DEF Init, KernelInit, KernelTypeOK
  <2>4. TreeOrdered
    <3>1. \A t \in Tids : t \in Tasks /\ t <= t
      BY ConstantFacts
    <3>2. \A t \in Outsiders : t \in Tasks
      BY ConstantFacts
    <3> QED
      BY <2>1, <3>1, <3>2 DEF TreeOrdered
  <2> QED
    BY <2>3, <2>4 DEF KernelInv
<1>2. RegistryInv
  <2>1. /\ InitTid \in Tasks /\ InitTid \notin Outsiders /\ 1 \in Ids /\ NoId \notin Ids
        /\ NoThread \in Thread /\ FreeTable \in Slot(Tables) /\ FreeInfo \in Slot(Cwds)
    BY ConstantFacts
  <2> DEFINE first == [tgid |-> InitTid, parent |-> Host, fdt |-> 1, fsi |-> 1]
  <2>2. first \in Thread /\ first.fdt = 1 /\ first.fsi = 1
    BY <2>1 DEF Thread
  <2>3. thread = [t \in Tasks |-> IF t = InitTid THEN first ELSE NoThread]
    BY DEF Init
  <2> HIDE DEF first
  <2>4. /\ reg = {InitTid} /\ thread[InitTid].fdt = 1 /\ thread[InitTid].fsi = 1
        /\ thread \in [Tasks -> Thread]
    BY <2>1, <2>2, <2>3 DEF Init
  <2>5. ASSUME NEW id \in Ids
        PROVE  /\ FdUsers(id, reg) = IF id = 1 THEN {InitTid} ELSE {}
               /\ FsUsers(id, reg) = IF id = 1 THEN {InitTid} ELSE {}
    BY <2>4 DEF FdUsers, FsUsers
  <2>6. Cardinality({InitTid}) = 1 /\ Cardinality({}) = 0
    BY FS_Singleton, FS_EmptySet
  <2>7. ASSUME NEW id \in Ids
        PROVE  /\ fdTables[id] \in Slot(Tables) /\ fsInfos[id] \in Slot(Cwds)
               /\ fdTables[id].refs = IF id = 1 THEN 1 ELSE 0
               /\ fsInfos[id].refs = IF id = 1 THEN 1 ELSE 0
    BY <2>1, ThreadsAssumption DEF Init, Slot, Tables, FreeTable, FreeInfo
  <2>8. fdTables \in [Ids -> Slot(Tables)] /\ fsInfos \in [Ids -> Slot(Cwds)]
    BY <2>7 DEF Init
  <2>9. RegistryTypeOK
    BY <2>1, <2>4, <2>8 DEF Init, RegistryTypeOK
  <2>10. RefsExact
    <3>1. ASSUME NEW id \in Ids
          PROVE  /\ fdTables[id].refs = Cardinality(FdUsers(id, reg))
                 /\ fsInfos[id].refs = Cardinality(FsUsers(id, reg))
      BY <2>5, <2>6, <2>7
    <3>2. \A t \in reg : thread[t].fdt # NoId /\ thread[t].fsi # NoId
      BY <2>1, <2>4
    <3> QED
      BY <3>1, <3>2 DEF RefsExact
  <2>11. IdsFresh /\ ParentsKnown /\ NoOutsiders
    BY <2>1, <2>4 DEF Init, IdsFresh, ParentsKnown, NoOutsiders
  <2>12. SnapshotsOwned
    BY ThreadsAssumption DEF Init, SnapshotsOwned
  <2> QED
    BY <2>9, <2>10, <2>11, <2>12 DEF RegistryInv
<1>3. LockInv
  BY EmptyStack, ConstantFacts DEF Init, LockInv, LockTypeOK
<1> QED
  BY <1>1, <1>2, <1>3, IInvParts

\* Every step keeps the invariant when tids are not reused.
LEMMA NextInv ==
  ASSUME TidReuse = FALSE, IInv, [Next]_vars
  PROVE  IInv'
<1>0. KernelInv /\ RegistryInv /\ LockInv
  BY IInvParts
<1>1. ASSUME UNCHANGED <<registry, lock>> PROVE RegistryInv' /\ LockInv'
  BY <1>0, <1>1 DEF registry, arenas, lock, RegistryInv, RegistryTypeOK, RefsExact, IdsFresh,
     SnapshotsOwned, ParentsKnown, NoOutsiders, FdUsers, FsUsers, LockInv, LockTypeOK, GoodStack
<1>2. CASE UNCHANGED vars
  <2>1. KernelInv'
    BY <1>0, <1>2 DEF vars, kernel, KernelInv, KernelTypeOK, TreeOrdered, Visible
  <2> QED
    BY <1>1, <1>2, <2>1, IInvNext DEF vars
<1>3. CASE Kernel
  BY <1>0, <1>1, <1>3, KernelStep, IInvNext
<1>4. CASE Handler
  BY <1>4, RecursionStep, RegistrationStep, ReplyStep DEF Handler
<1>5. CASE \E t \in Tids : Begin(t) \/ sys_exit(t) \/ sys_exit_group(t)
  BY <1>5, RecursionStep, ExitStep
<1> QED
  BY <1>2, <1>3, <1>4, <1>5 DEF Next

\* The inductive invariant holds in every behaviour: types, ordered tree,
\* exact counts, fresh ids, ordered recursion, owned snapshots, known parents.
THEOREM Inductive ==
  ASSUME TidReuse = FALSE
  PROVE  Spec => []IInv
<1>1. Init => IInv
  BY InitInv
<1>2. IInv /\ [Next]_vars => IInv'
  BY NextInv
<1> QED
  BY <1>1, <1>2, PTL DEF Spec

\* The counts of the arenas are exact, whatever the guest's tasks do while a
\* handler reads /proc: no table is freed under a registered thread and none
\* is kept without one.
THEOREM RefsAlwaysExact ==
  ASSUME TidReuse = FALSE
  PROVE  Spec => []RefsExact
<1>1. IInv => RefsExact
  BY DEF IInv
<1> QED
  BY <1>1, Inductive, PTL

\* A scan of /proc never registers a task of the host.
THEOREM NeverOutsiders ==
  ASSUME TidReuse = FALSE
  PROVE  Spec => []NoOutsiders
<1>1. IInv => NoOutsiders
  BY DEF IInv
<1> QED
  BY <1>1, Inductive, PTL

\* Fork snapshots belong to registered parents and stay within their bound.
THEOREM SnapshotsAlwaysOwned ==
  ASSUME TidReuse = FALSE
  PROVE  Spec => []SnapshotsOwned
<1>1. IInv => SnapshotsOwned
  BY DEF IInv
<1> QED
  BY <1>1, Inductive, PTL

\* A registered thread's parent is registered or is init.
THEOREM ParentsAlwaysKnown ==
  ASSUME TidReuse = FALSE
  PROVE  Spec => []ParentsKnown
<1>1. IInv => ParentsKnown
  BY DEF IInv
<1> QED
  BY <1>1, Inductive, PTL

\* ensure_registered never recurses into a task it is already registering.
THEOREM RecursionAlwaysWellFounded ==
  ASSUME TidReuse = FALSE
  PROVE  Spec => []RecursionWellFounded
<1>1. IInv => RecursionWellFounded
  <2> SUFFICES ASSUME IInv, NEW i \in 1..Depth, NEW j \in 1..Depth,
                      stack[i].tid = stack[j].tid
               PROVE  i = j
    BY DEF RecursionWellFounded
  <2>1. GoodStack(stack, reg) /\ stack \in Seq(Activation)
    BY IInvParts DEF LockInv, GoodStack
  <2>2. stack[i].tid \in Nat /\ stack[j].tid \in Nat /\ i \in Int /\ j \in Int
    BY <2>1, ActivationIds DEF Depth
  <2>3. ~(i < j) /\ ~(j < i)
    BY <2>1, <2>2 DEF GoodStack, Depth
  <2> QED
    BY <2>2, <2>3
<1> QED
  BY <1>1, Inductive, PTL

-----------------------------------------------------------------------------
(* What the kernel does to a task.                                         *)

\* Tasks stay as they are, become zombies without a table, or are gone.
Fading(k) ==
  \A t \in Tasks :
    \/ k[t].st = task[t].st /\ k[t].tgid = task[t].tgid /\ k[t].files = task[t].files
    \/ k[t].st = "zombie" /\ k[t].files = 0 /\ k[t].tgid = task[t].tgid /\ Visible(t)
    \/ k[t].st = "gone"

LEMMA ZombieFiles ==
  ASSUME NEW u \in Task
  PROVE  LET z == [u EXCEPT !.st = "zombie", !.pc = "user", !.files = 0] IN
         z.st = "zombie" /\ z.files = 0 /\ z.tgid = u.tgid
BY DEF Task

LEMMA OrphanedFades ==
  ASSUME NEW k \in [Tasks -> Task], NEW g, Fading(k)
  PROVE  Fading(Orphaned(k, g))
<1>1. CASE \E t \in Tids : k[t].st = "live" /\ k[t].tgid = g
  BY <1>1 DEF Orphaned
<1>2. CASE ~ \E t \in Tids : k[t].st = "live" /\ k[t].tgid = g
  <2> DEFINE o == [t \in Tasks |-> IF k[t].ppid = g THEN [k[t] EXCEPT !.ppid = Host]
                                                   ELSE k[t]]
  <2>1. Orphaned(k, g) = o
    BY <1>2 DEF Orphaned
  <2>2. ASSUME NEW t \in Tasks
        PROVE  o[t].st = k[t].st /\ o[t].tgid = k[t].tgid /\ o[t].files = k[t].files
    <3>1. k[t] \in Task
      OBVIOUS
    <3>2. o[t] = IF k[t].ppid = g THEN [k[t] EXCEPT !.ppid = Host] ELSE k[t]
      OBVIOUS
    <3> QED
      BY <3>1, <3>2 DEF Task
  <2> HIDE DEF o
  <2>3. Fading(o)
    BY <2>2 DEF Fading
  <2> QED
    BY <2>1, <2>3
<1> QED
  BY <1>1, <1>2

LEMMA StoppedFades ==
  ASSUME TidReuse = FALSE, KernelInv, NEW g, NEW V \in SUBSET Tids, \A t \in V : Visible(t)
  PROVE  Fading(Stopped(g, V))
<1> DEFINE k == [t \in Tasks |->
                   IF t \notin V THEN task[t]
                   ELSE IF t = g THEN [task[t] EXCEPT !.st = "zombie", !.pc = "user",
                                                      !.files = 0]
                   ELSE Gone]
<1>1. ASSUME NEW t \in Tasks
      PROVE  /\ k[t] \in Task
             /\ \/ k[t] = task[t]
                \/ k[t].st = "zombie" /\ k[t].files = 0 /\ k[t].tgid = task[t].tgid /\ Visible(t)
                \/ k[t].st = "gone"
  <2>1. task[t] \in Task
    BY TaskIds DEF KernelInv
  <2>2. CASE t \notin V
    BY <2>1, <2>2
  <2>3. CASE t \in V /\ t = g
    <3>1. k[t] = [task[t] EXCEPT !.st = "zombie", !.pc = "user", !.files = 0]
      BY <2>3
    <3>2. Visible(t)
      BY <2>3
    <3> HIDE DEF k
    <3> QED
      BY <2>1, <3>1, <3>2, ZombieTask, ZombieFiles
  <2>4. CASE t \in V /\ t # g
    <3>1. k[t] = Gone
      BY <2>4
    <3>2. Gone.st = "gone"
      BY DEF Gone, NoTask
    <3> HIDE DEF k
    <3> QED
      BY <3>1, <3>2, ConstantFacts
  <2> QED
    BY <2>2, <2>3, <2>4
<1>2. k \in [Tasks -> Task]
  BY <1>1
<1>3. Stopped(g, V) = Orphaned(k, g)
  BY DEF Stopped
<1> HIDE DEF k
<1>4. Fading(k)
  BY <1>1 DEF Fading
<1> QED
  BY <1>2, <1>3, <1>4, OrphanedFades

\* A task that goes on keeps its state, its group and its table.
LEMMA ContinuedSame ==
  ASSUME KernelInv, NEW t \in Tasks, NEW pc
  PROVE  /\ Continued(t, pc).st = task[t].st /\ Continued(t, pc).tgid = task[t].tgid
         /\ Continued(t, pc).files = task[t].files /\ Continued(t, pc).pc = pc
         /\ Fading([task EXCEPT ![t] = Continued(t, pc)])
         /\ [task EXCEPT ![t] = Continued(t, pc)][t] = Continued(t, pc)
<1>1. task[t] \in Task /\ task \in [Tasks -> Task]
  BY TaskIds DEF KernelInv, KernelTypeOK
<1>2. /\ Continued(t, pc).st = task[t].st /\ Continued(t, pc).tgid = task[t].tgid
      /\ Continued(t, pc).files = task[t].files /\ Continued(t, pc).pc = pc
  BY <1>1 DEF Continued, Task
<1> QED
  BY <1>1, <1>2 DEF Fading

LEMMA KernelFades ==
  ASSUME TidReuse = FALSE, KernelInv, Kernel
  PROVE  \/ Fading(task')
         \/ \E p \in Tids, c \in Tids, kind \in CloneKinds : KernelClone(p, c, kind)
<1>1. Tids \subseteq Tasks
  BY ConstantFacts
<1>2. CASE \E t \in Tids : Trap(t)
  BY <1>2 DEF Trap, kernel, Fading
<1>3. CASE \E p \in Tids : KernelCloneFails(p)
  <2>1. PICK p \in Tids : task' = [task EXCEPT ![p] = Continued(p, "user")]
    BY <1>3 DEF KernelCloneFails
  <2>2. p \in Tasks /\ task \in [Tasks -> Task] /\ task[p] \in Task
    BY <1>1 DEF KernelInv, KernelTypeOK
  <2> QED
    BY <2>1, <2>2, ContinuedSame DEF Fading
<1>4. ASSUME NEW t \in Tids, KernelExit(t) PROVE Fading(task')
  <2>1. {t} \in SUBSET Tids /\ Visible(t) /\ task' = Stopped(task[t].tgid, {t})
    BY <1>4 DEF KernelExit, Alive, Visible
  <2> QED
    BY <2>1, StoppedFades
<1>5. ASSUME NEW g \in Tids, KernelKill(g) PROVE Fading(task')
  <2>1. Group(g) \in SUBSET Tids /\ (\A t \in Group(g) : Visible(t)) /\ task' = Stopped(g, Group(g))
    BY <1>5 DEF KernelKill, Group
  <2> QED
    BY <2>1, StoppedFades
<1>6. ASSUME NEW t \in Tids, KernelExitGroup(t) PROVE Fading(task')
  <2>1. PICK g : g = task[t].tgid
    OBVIOUS
  <2>2. Group(g) \in SUBSET Tids /\ (\A u \in Group(g) : Visible(u)) /\ task' = Stopped(g, Group(g))
    BY <1>6, <2>1 DEF KernelExitGroup, Group
  <2> QED
    BY <2>2, StoppedFades
<1>7. ASSUME NEW g \in Tids, KernelReap(g) PROVE Fading(task')
  <2>1. task' = [task EXCEPT ![g] = Gone] /\ Gone.st = "gone"
    BY <1>7 DEF KernelReap, Gone, NoTask
  <2> QED
    BY <1>1, <2>1 DEF Fading, KernelInv, KernelTypeOK
<1> QED
  BY <1>2, <1>3, <1>4, <1>5, <1>6, <1>7 DEF Kernel

\* A clone adds one task.
LEMMA CloneAdds ==
  ASSUME TidReuse = FALSE, KernelInv, NEW p \in Tids, NEW c \in Tids, NEW kind \in CloneKinds,
         KernelClone(p, c, kind)
  PROVE  /\ task[c].st = "none" /\ Alive(p) /\ p # c /\ c \notin inflight /\ inflight' = inflight
         /\ task'[c] = NewTask(p, c, kind)
         /\ \A t \in Tasks \ {c} : /\ task'[t].st = task[t].st /\ task'[t].tgid = task[t].tgid
                                   /\ task'[t].files = task[t].files
<1>1. p \in Tasks /\ c \in Tasks /\ task \in [Tasks -> Task]
  BY ConstantFacts DEF KernelInv, KernelTypeOK
<1>2. task[c].st = "none" /\ Alive(p) /\ p # c /\ c \notin inflight /\ inflight' = inflight
  BY DEF KernelClone, NewTid, Alive
<1>3. task' = [task EXCEPT ![p] = Continued(p, "user"), ![c] = NewTask(p, c, kind)]
  BY DEF KernelClone
<1> DEFINE k == NewTask(p, c, kind)
           q == Continued(p, "user")
<1>4. q.st = task[p].st /\ q.tgid = task[p].tgid /\ q.files = task[p].files
  BY <1>1, ContinuedSame
<1>5. task' = [task EXCEPT ![p] = q, ![c] = k]
  BY <1>3
<1> HIDE DEF k, q
<1>6. \A t \in Tasks : task'[t] = IF t = c THEN k ELSE IF t = p THEN q ELSE task[t]
  BY <1>1, <1>2, <1>5
<1> QED
  BY <1>1, <1>2, <1>4, <1>6 DEF k

-----------------------------------------------------------------------------
(* The notifier is served.                                                 *)

\* Task c is registered, or about to be: it is to be looked up, or it is at the root
\* of the recursion and adoptable.  Otherwise no init is left to adopt it.
ServedBy(c, R, T, s) ==
  \/ c \in R \cup T
  \/ s # <<>> /\ s[1].tid = c /\ s[1].adopt
  \/ T = {} /\ s = <<>> /\ InitTid \notin R

\* What the worker that holds the mutex owes its caller.
ServedInv ==
  /\ mode # "free" => caller \in inflight
  /\ mode = "sync" => todo \subseteq {caller}
  /\ mode = "sync" /\ Alive(caller) => ServedBy(caller, reg, todo, stack)

\* Noting a failed parent keeps the tasks of the activations.
LEMMA FailSame ==
  ASSUME NEW s \in Seq(Activation)
  PROVE  /\ Len(FailTop(s)) = Len(s) /\ FailTop(s) \in Seq(Activation)
         /\ \A i \in 1..Len(s) : /\ FailTop(s)[i].tid = s[i].tid
                                 /\ FailTop(s)[i].tgid = s[i].tgid
                                 /\ FailTop(s)[i].adopt = s[i].adopt
<1>1. CASE s = <<>>
  BY <1>1 DEF FailTop
<1>2. CASE s # <<>>
  <2>1. Len(s) \in Nat \ {0} /\ Len(s) \in 1..Len(s)
    BY <1>2
  <2> DEFINE f == [s[Len(s)] EXCEPT !.up = "failed"]
  <2>2. s[Len(s)] \in Activation
    BY <2>1, ActivationIds
  <2>3. /\ f \in Activation /\ f.tid = s[Len(s)].tid /\ f.tgid = s[Len(s)].tgid
        /\ f.adopt = s[Len(s)].adopt
    BY <2>2 DEF Activation
  <2>4. FailTop(s) = [s EXCEPT ![Len(s)] = f]
    BY <1>2 DEF FailTop
  <2> HIDE DEF f
  <2>5. FailTop(s) \in Seq(Activation) /\ Len(FailTop(s)) = Len(s)
    BY <2>1, <2>3, <2>4, ExceptSeq
  <2>6. \A i \in 1..Len(s) : FailTop(s)[i] = IF i = Len(s) THEN f ELSE s[i]
    BY <2>1, <2>3, <2>4, ExceptSeq
  <2> QED
    BY <2>1, <2>3, <2>5, <2>6
<1> QED
  BY <1>1, <1>2

\* The stack below its top.
LEMMA PopSame ==
  ASSUME LockInv, stack # <<>>
  PROVE  /\ Pop \in Seq(Activation) /\ Depth \in Nat \ {0} /\ Len(Pop) = Depth - 1
         /\ Len(stack) = Depth /\ Top = stack[Depth]
         /\ \A i \in 1..Len(Pop) : Pop[i] = stack[i] /\ i \in 1..Len(stack) /\ i < Depth
<1>1. stack \in Seq(Activation) /\ Len(stack) \in Nat \ {0} /\ Depth = Len(stack)
  BY DEF LockInv, GoodStack, Depth
<1>2. Pop \in Seq(Activation) /\ Len(Pop) = Depth - 1
  BY <1>1, PrefixLength DEF Pop
<1>3. \A i \in 1..Len(Pop) : Pop[i] = stack[i] /\ i \in 1..Len(stack) /\ i < Depth
  BY <1>1, <1>2 DEF Pop
<1> QED
  BY <1>1, <1>2, <1>3 DEF Top

\* Registering or refusing the top of the stack leaves its caller served.
LEMMA ServedAfterPop ==
  ASSUME LockInv, stack # <<>>, NEW R, reg \subseteq R, todo \subseteq {caller},
         ServedBy(caller, reg, todo, stack),
         \/ Top.tid \in R
         \/ InitTid \notin R
         \/ ~Top.adopt
  PROVE  ServedBy(caller, R, todo, Pop) /\ ServedBy(caller, R, todo, FailTop(Pop))
<1>1. /\ Pop \in Seq(Activation) /\ Depth \in Nat \ {0} /\ Len(Pop) = Depth - 1
      /\ Top = stack[Depth]
      /\ \A i \in 1..Len(Pop) : Pop[i] = stack[i]
  BY PopSame
<1>2. CASE caller \in R \cup todo
  BY <1>2 DEF ServedBy
<1>3. CASE caller \notin R \cup todo
  <2>1. stack[1].tid = caller /\ stack[1].adopt /\ todo = {}
    BY <1>3 DEF ServedBy
  <2>2. CASE Depth = 1
    <3>1. Pop = <<>> /\ FailTop(Pop) = <<>>
      BY <1>1, <2>2 DEF FailTop
    <3>2. InitTid \notin R
      BY <1>1, <1>3, <2>1, <2>2
    <3> QED
      BY <2>1, <3>1, <3>2 DEF ServedBy
  <2>3. CASE Depth # 1
    <3>1. 1 \in 1..Len(Pop) /\ Pop # <<>> /\ Pop[1] = stack[1]
      BY <1>1, <2>3
    <3>2. Len(FailTop(Pop)) = Len(Pop) /\ FailTop(Pop) # <<>>
      BY <1>1, <3>1, FailSame
    <3>3. FailTop(Pop)[1].tid = caller /\ FailTop(Pop)[1].adopt
      BY <1>1, <2>1, <3>1, FailSame
    <3> QED
      BY <2>1, <3>1, <3>2, <3>3 DEF ServedBy
  <2> QED
    BY <2>2, <2>3
<1> QED
  BY <1>2, <1>3

\* Whatever the kernel does, the served notification stays with its worker, and no
\* other task comes to live under the caller's tid.
LEMMA CallerStays ==
  ASSUME TidReuse = FALSE, KernelInv, LockInv, Kernel, mode # "free", caller \in inflight
  PROVE  /\ UNCHANGED <<registry, lock>>
         /\ caller \in inflight'
         /\ Alive(caller)' => Alive(caller)
<1>1. caller \in Tids /\ caller \in Tasks
  BY ConstantFacts DEF LockInv, LockTypeOK
<1>2. UNCHANGED <<registry, lock>>
  BY DEF Kernel, Trap, KernelClone, KernelCloneFails, KernelExit, KernelExitGroup,
     KernelKill, KernelReap
<1>3. ASSUME NEW V, InFlightAfter(V) PROVE caller \in inflight'
  BY <1>3 DEF InFlightAfter
<1>4. caller \in inflight'
  <2>1. CASE inflight' = inflight
    BY <2>1
  <2>2. CASE \E V \in SUBSET Tids : InFlightAfter(V)
    BY <2>2, <1>3
  <2>3. CASE \E t \in Tids : inflight' = inflight \cup {t}
    BY <2>3
  <2>4. \A g : Group(g) \in SUBSET Tids
    BY DEF Group
  <2> QED
    BY <2>1, <2>2, <2>3, <2>4 DEF Kernel, Trap, KernelClone, KernelCloneFails, KernelExit,
       KernelExitGroup, KernelKill, KernelReap
<1>5. ASSUME Alive(caller)' PROVE Alive(caller)
  <2>0. task'[caller].st = "live"
    BY <1>2, <1>5 DEF Alive, lock
  <2>1. CASE Fading(task')
    BY <1>1, <2>0, <2>1 DEF Fading, Alive
  <2>2. ASSUME NEW p \in Tids, NEW c \in Tids, NEW kind \in CloneKinds, KernelClone(p, c, kind)
        PROVE  Alive(caller)
    <3>1. caller # c /\ task'[caller].st = task[caller].st
      BY <1>1, <2>2, CloneAdds
    <3> QED
      BY <2>0, <3>1 DEF Alive
  <2> QED
    BY <2>1, <2>2, KernelFades
<1> QED
  BY <1>2, <1>4, <1>5

\* The recursion and the registrations keep the caller served.
LEMMA ServedHandler ==
  ASSUME IInv, ServedInv,
         \/ \E t \in Tasks : ensure_registered(t)
         \/ ensure_parent \/ not_in_sandbox \/ register_known \/ adopt_orphan
  PROVE  ServedInv'
<1>0. KernelInv /\ RegistryInv /\ LockInv
  BY IInvParts
<1>1. UNCHANGED <<kernel, inflight, mode, caller>> /\ todo' \subseteq todo
  BY DEF ensure_registered, EnsureWith, ensure_parent, not_in_sandbox, register_known,
     adopt_orphan
<1>2. /\ mode' # "free" => caller' \in inflight'
      /\ mode' = "sync" => todo' \subseteq {caller'}
  BY <1>1 DEF ServedInv
<1>3. SUFFICES ASSUME mode = "sync", Alive(caller)
               PROVE  ServedBy(caller, reg', todo', stack')
  BY <1>1, <1>2 DEF ServedInv, Alive, kernel
<1>4. ServedBy(caller, reg, todo, stack) /\ todo \subseteq {caller}
  BY <1>3 DEF ServedInv
<1>5. ASSUME NEW t \in Tasks, ensure_registered(t)
      PROVE  ServedBy(caller, reg', todo', stack')
  <2>1. t = caller /\ UNCHANGED registry
    BY <1>4, <1>5 DEF ensure_registered, EnsureWith
  <2>2. CASE caller \in reg
    BY <2>1, <2>2 DEF ServedBy, registry
  <2>3. CASE caller \notin reg
    <3> DEFINE f == Frame(caller, TRUE)
    <3>1. Visible(caller)
      BY <1>3 DEF Alive, Visible
    <3>2. stack' = <<Frame(t, mode = "sync")>>
      BY <1>5, <2>1, <2>3, <3>1 DEF ensure_registered, EnsureWith
    <3>3. (mode = "sync") = TRUE
      BY <1>3
    <3>4. stack' = <<f>>
      BY <2>1, <3>2, <3>3
    <3>5. f.tid = caller /\ f.adopt
      BY DEF Frame
    <3> HIDE DEF f
    <3>6. <<f>> # <<>> /\ <<f>>[1] = f
      OBVIOUS
    <3> QED
      BY <3>4, <3>5, <3>6 DEF ServedBy
  <2> QED
    BY <2>2, <2>3
<1>6. ASSUME ensure_parent PROVE ServedBy(caller, reg', todo', stack')
  <2>1. stack # <<>> /\ reg' = reg /\ todo' = todo
    BY <1>6 DEF ensure_parent, registry
  <2>2. stack \in Seq(Activation) /\ Len(stack) \in Nat \ {0} /\ 1 \in 1..Len(stack)
    BY <1>0, <2>1 DEF LockInv, GoodStack
  <2>3. CASE stack' = FailTop(stack)
    <3>1. /\ FailTop(stack) # <<>> /\ FailTop(stack)[1].tid = stack[1].tid
          /\ FailTop(stack)[1].adopt = stack[1].adopt
      BY <2>2, FailSame
    <3> QED
      BY <1>4, <2>1, <2>3, <3>1 DEF ServedBy
  <2>4. ASSUME NEW f, stack' = Append(stack, f) PROVE ServedBy(caller, reg', todo', stack')
    <3>1. Append(stack, f) # <<>> /\ Append(stack, f)[1] = stack[1]
      BY <2>2
    <3> QED
      BY <1>4, <2>1, <2>4, <3>1 DEF ServedBy
  <2> QED
    BY <1>6, <2>3, <2>4 DEF ensure_parent
<1>7. CASE not_in_sandbox
  <2>1. stack # <<>> /\ ~Top.adopt /\ UNCHANGED <<reg, todo>> /\ stack' = FailTop(Pop)
    BY <1>7 DEF not_in_sandbox, registry
  <2> QED
    BY <1>0, <1>4, <2>1, ServedAfterPop
<1>8. CASE register_known \/ adopt_orphan
  <2>1. stack # <<>> /\ todo' = todo /\ stack' = Pop
    BY <1>8 DEF register_known, adopt_orphan
  <2>2. \/ reg' = reg \cup {Top.tid}
        \/ reg' = reg /\ InitTid \notin reg
    BY <1>8 DEF register_known, adopt_orphan, register_child, registry
  <2> QED
    BY <1>0, <1>4, <2>1, <2>2, ServedAfterPop
<1> QED
  BY <1>5, <1>6, <1>7, <1>8

\* Every step keeps what the worker owes its caller.
LEMMA ServedStep ==
  ASSUME TidReuse = FALSE, IInv, ServedInv, [Next]_vars
  PROVE  ServedInv'
<1>0. KernelInv /\ RegistryInv /\ LockInv
  BY IInvParts
<1>1. CASE UNCHANGED vars
  BY <1>1 DEF vars, lock, kernel, registry, ServedInv, ServedBy, Alive
<1>2. CASE Kernel
  <2>1. CASE mode = "free"
    BY <1>2, <2>1 DEF ServedInv, Kernel, Trap, KernelClone, KernelCloneFails, KernelExit,
       KernelExitGroup, KernelKill, KernelReap, lock
  <2>2. CASE mode # "free"
    <3>1. /\ UNCHANGED <<registry, lock>> /\ caller \in inflight'
          /\ Alive(caller)' => Alive(caller)
      BY <1>0, <1>2, <2>2, CallerStays DEF ServedInv
    <3> QED
      BY <3>1 DEF ServedInv, ServedBy, registry, lock
  <2> QED
    BY <2>1, <2>2
<1>3. ASSUME NEW t \in Tids, Begin(t) PROVE ServedInv'
  <2>1. /\ caller' = t /\ t \in inflight /\ inflight' = inflight /\ reg' = reg
        /\ todo' = {t} \ reg
    BY <1>3 DEF Begin, registry
  <2> QED
    BY <2>1 DEF ServedInv, ServedBy
<1>4. CASE sync_new_threads
  BY <1>4 DEF sync_new_threads, Ready, ServedInv
<1>5. CASE \/ sys_query
           \/ \E table \in Tables : sys_fd(table)
           \/ \E d \in Cwds : sys_chdir(d)
           \/ \E kind \in CloneKinds : sys_clone(kind)
  <2>1. mode' = "free"
    BY <1>5 DEF sys_query, sys_fd, sys_chdir, sys_clone, Answer
  <2> QED
    BY <2>1 DEF ServedInv
<1>6. ASSUME NEW t \in Tids, sys_exit(t) \/ sys_exit_group(t) PROVE ServedInv'
  <2>1. mode' = "free"
    BY <1>6 DEF sys_exit, sys_exit_group, Exit, lock
  <2> QED
    BY <2>1 DEF ServedInv
<1> QED
  BY <1>1, <1>2, <1>3, <1>4, <1>5, <1>6, ServedHandler DEF Next, Handler

\* A task that notified and still runs is registered by the time its handler goes on,
\* orphan or not, as long as init is registered: no syscall of a guest task is refused
\* with ESRCH.
THEOREM NotifierAlwaysServed ==
  ASSUME TidReuse = FALSE
  PROVE  Spec => []NotifierServed
<1>1. Init => ServedInv
  BY DEF Init, ServedInv
<1>2. IInv /\ ServedInv /\ [Next]_vars => ServedInv'
  BY ServedStep
<1>3. ServedInv => NotifierServed
  BY DEF ServedInv, ServedBy, NotifierServed, Ready
<1> QED
  BY <1>1, <1>2, <1>3, Inductive, PTL DEF Spec

-----------------------------------------------------------------------------
(* The registry follows the kernel: a guest of processes only.             *)

\* Tasks that are their own group hold a table while they live.
TasksPlain ==
  \A t \in Tasks : /\ Visible(t) => task[t].tgid = t
                   /\ Alive(t) => task[t].files # 0
                   /\ task[t].st = "zombie" => task[t].files = 0

\* What is registered, or about to be, was once a task, and its own group.
EntriesPlain ==
  /\ \A t \in reg : task[t].st # "none" /\ thread[t].tgid = t
  /\ \A i \in 1..Len(stack) :
       task[stack[i].tid].st # "none" /\ stack[i].tgid = stack[i].tid

\* Tids stand for the tasks they were read of, so that a table shared by two entries
\* was shared by two tasks.
TruthInv == TasksPlain /\ EntriesPlain /\ TablesIsolated

\* Tasks that fade, and entries that leave, falsify nothing.
LEMMA FadingTruth ==
  ASSUME IInv, TruthInv, Fading(task'), reg' \subseteq reg,
         \A t \in reg' : thread'[t].tgid = thread[t].tgid /\ thread'[t].fdt = thread[t].fdt,
         stack' = stack \/ stack' = <<>>
  PROVE  TruthInv'
<1>1. reg \subseteq Tasks /\ \A i \in 1..Len(stack) : stack[i].tid \in Tasks
  BY IInvParts, ActivationIds DEF RegistryInv, RegistryTypeOK, LockInv, GoodStack
<1>2. TasksPlain'
  BY DEF TruthInv, TasksPlain, Fading, Visible, Alive
<1>3. EntriesPlain'
  <2>1. \A t \in Tasks : task[t].st # "none" => task'[t].st # "none"
    BY DEF Fading
  <2>2. \A t \in reg' : task'[t].st # "none" /\ thread'[t].tgid = t
    BY <1>1, <2>1 DEF TruthInv, EntriesPlain
  <2>3. CASE stack' = stack
    BY <1>1, <2>1, <2>2, <2>3 DEF TruthInv, EntriesPlain
  <2>4. CASE stack' = <<>>
    BY <2>2, <2>4 DEF EntriesPlain
  <2> QED
    BY <2>3, <2>4
<1>4. TablesIsolated'
  <2>1. \A t \in Tasks : task'[t].st = "live" => Alive(t) /\ task'[t].files = task[t].files
    BY DEF Fading, Alive
  <2> QED
    BY <1>1, <2>1 DEF TruthInv, TablesIsolated, Alive
<1> QED
  BY <1>2, <1>3, <1>4 DEF TruthInv

\* A new process is its own group, and nothing knows it yet.
LEMMA CloneTruth ==
  ASSUME TidReuse = FALSE, "thread" \notin CloneKinds, IInv, TruthInv,
         NEW p \in Tids, NEW c \in Tids, NEW kind \in CloneKinds, KernelClone(p, c, kind)
  PROVE  TruthInv'
<1>0. KernelInv /\ RegistryInv /\ LockInv /\ kind # "thread" /\ p \in Tasks /\ c \in Tasks
  BY IInvParts, ConstantFacts
<1>1. /\ task[c].st = "none" /\ Alive(p) /\ p # c
      /\ task'[c] = NewTask(p, c, kind)
      /\ \A t \in Tasks \ {c} : /\ task'[t].st = task[t].st /\ task'[t].tgid = task[t].tgid
                                /\ task'[t].files = task[t].files
  BY <1>0, CloneAdds
<1>2. UNCHANGED <<reg, thread, stack>>
  BY DEF KernelClone, registry, lock
<1>3. reg \subseteq Tasks /\ \A i \in 1..Len(stack) : stack[i].tid \in Tasks
  BY IInvParts, ActivationIds DEF RegistryInv, RegistryTypeOK, LockInv, GoodStack
<1>4. task'[c].st = "live" /\ task'[c].tgid = c /\ task'[c].files # 0
  <2> DEFINE files == IF kind = "files" THEN task[p].files ELSE clones + 2
             n == [NoTask EXCEPT !.st = "live", !.tgid = c, !.ppid = task[p].tgid,
                                 !.files = files]
  <2>1. files # 0
    BY <1>0, <1>1 DEF TruthInv, TasksPlain, KernelInv, KernelTypeOK
  <2>2. NewTask(p, c, kind) = n
    BY <1>0 DEF NewTask
  <2> HIDE DEF files
  <2>3. n.st = "live" /\ n.tgid = c /\ n.files = files
    BY DEF NoTask
  <2> QED
    BY <1>1, <2>1, <2>2, <2>3
<1>5. TasksPlain'
  BY <1>0, <1>1, <1>4 DEF TruthInv, TasksPlain, Visible, Alive
<1>6. c \notin reg /\ \A i \in 1..Len(stack) : stack[i].tid # c
  BY <1>1 DEF TruthInv, EntriesPlain
<1>7. EntriesPlain'
  BY <1>1, <1>2, <1>3, <1>6 DEF TruthInv, EntriesPlain
<1>8. TablesIsolated'
  BY <1>1, <1>2, <1>3, <1>6 DEF TruthInv, TablesIsolated, Alive
<1> QED
  BY <1>5, <1>7, <1>8 DEF TruthInv

\* The entry register_child makes for a process.
LEMMA PlainChild ==
  ASSUME RegistryInv, NEW p \in reg, NEW c \in Tids, NEW shares, NEW useSnapshots,
         register_child(p, c, FALSE, shares, useSnapshots)
  PROVE  /\ reg' = reg \cup {c} /\ thread'[c].tgid = c
         /\ thread'[c].fdt = IF shares THEN thread[p].fdt ELSE nextFdt
         /\ \A t \in Tasks \ {c} : thread'[t] = thread[t]
<1>1. c \in Tasks /\ thread \in [Tasks -> Thread]
  BY ConstantFacts DEF RegistryInv, RegistryTypeOK
<1>2. PICK fdt, fsi : /\ fdt = (IF shares THEN thread[p].fdt ELSE nextFdt)
                      /\ fsi = nextFsi
  OBVIOUS
<1>3. thread' = [thread EXCEPT ![c] = [tgid |-> c, parent |-> p, fdt |-> fdt, fsi |-> fsi]]
  BY <1>2 DEF register_child
<1> QED
  BY <1>1, <1>2, <1>3 DEF register_child

\* A process is registered with a table of its own, or with its parent's if it shares
\* that one in the kernel.
LEMMA RegisterTruth ==
  ASSUME IInv, TruthInv, stack # <<>>, NEW p \in reg, NEW shares, NEW useSnapshots,
         Top.tid \in Tids, shares => shares_fd_table(p, Top.tid),
         register_child(p, Top.tid, FALSE, shares, useSnapshots),
         stack' = Pop, task' = task
  PROVE  TruthInv'
<1> DEFINE c == Top.tid
<1>0. RegistryInv /\ LockInv /\ reg \subseteq Tasks /\ c \in Tasks
  BY IInvParts, ConstantFacts DEF RegistryInv, RegistryTypeOK
<1>1. /\ reg' = reg \cup {c} /\ thread'[c].tgid = c
      /\ thread'[c].fdt = IF shares THEN thread[p].fdt ELSE nextFdt
      /\ \A t \in Tasks \ {c} : thread'[t] = thread[t]
  BY <1>0, PlainChild
<1>2. c \notin reg
  BY <1>0, TopFacts
<1>3. TasksPlain'
  BY DEF TruthInv, TasksPlain, Visible, Alive
<1>4. /\ Depth \in 1..Len(stack) /\ Top = stack[Depth]
      /\ \A i \in 1..Len(Pop) : Pop[i] = stack[i] /\ i \in 1..Len(stack)
  BY <1>0, PopSame, TopFacts
<1>5. EntriesPlain'
  <2>1. task[c].st # "none"
    BY <1>4 DEF TruthInv, EntriesPlain
  <2>2. \A t \in reg' : task'[t].st # "none" /\ thread'[t].tgid = t
    BY <1>0, <1>1, <2>1 DEF TruthInv, EntriesPlain
  <2>3. \A i \in 1..Len(stack') :
          task'[stack'[i].tid].st # "none" /\ stack'[i].tgid = stack'[i].tid
    BY <1>4 DEF TruthInv, EntriesPlain
  <2> QED
    BY <2>2, <2>3 DEF EntriesPlain
<1> HIDE DEF c
<1>6. ASSUME NEW u \in reg, Alive(u), Alive(c), thread[u].fdt = thread'[c].fdt
      PROVE  task[u].files = task[c].files
  <2>1. CASE shares
    <3>1. Visible(p) /\ task[p].files = task[c].files
      BY <2>1 DEF shares_fd_table, c
    <3>2. task[p].files # 0 /\ p \in Tasks
      BY <1>0, <1>6, <3>1 DEF TruthInv, TasksPlain
    <3>3. Alive(p)
      BY <3>1, <3>2 DEF TruthInv, TasksPlain, Visible, Alive
    <3> QED
      BY <1>1, <1>6, <2>1, <3>1, <3>3 DEF TruthInv, TablesIsolated
  <2>2. CASE ~shares
    <3>1. thread[u].fdt < nextFdt /\ thread[u].fdt = nextFdt
      BY <1>0, <1>1, <1>6, <2>2 DEF RegistryInv, IdsFresh
    <3>2. thread[u].fdt \in Nat /\ nextFdt \in Nat
      BY <1>0, ThreadIds DEF RegistryInv, RegistryTypeOK
    <3> QED
      BY <3>1, <3>2
  <2> QED
    BY <2>1, <2>2
<1>7. TablesIsolated'
  <2>1. SUFFICES ASSUME NEW t \in reg \cup {c}, NEW u \in reg \cup {c}, Alive(t), Alive(u),
                        thread'[t].fdt = thread'[u].fdt
                 PROVE  task[t].files = task[u].files
    BY <1>1 DEF TablesIsolated, Alive
  <2>2. \A v \in reg : thread'[v] = thread[v]
    BY <1>0, <1>1, <1>2
  <2>3. CASE t \in reg /\ u \in reg
    BY <2>1, <2>2, <2>3 DEF TruthInv, TablesIsolated
  <2>4. CASE t \in reg /\ u = c
    BY <1>6, <2>1, <2>2, <2>4
  <2>5. CASE t = c /\ u \in reg
    BY <1>6, <2>1, <2>2, <2>5
  <2>6. CASE t = c /\ u = c
    BY <2>6
  <2> QED
    BY <2>3, <2>4, <2>5, <2>6
<1> QED
  BY <1>3, <1>5, <1>7 DEF TruthInv

\* The first task is its own group.
LEMMA TruthInit == Init => TruthInv
<1> SUFFICES ASSUME Init PROVE TruthInv
  OBVIOUS
<1>1. InitTid \in Tasks
  BY ConstantFacts
<1>2. ASSUME NEW t \in Tasks
      PROVE  /\ Visible(t) => task[t].tgid = t
             /\ Alive(t) => task[t].files # 0
             /\ task[t].st = "zombie" => task[t].files = 0
             /\ t = InitTid => task[t].st # "none"
  <2> DEFINE n == [NoTask EXCEPT !.st = "live", !.tgid = t, !.files = 1]
  <2>1. n.st = "live" /\ n.tgid = t /\ n.files = 1 /\ NoTask.st = "none"
    BY DEF NoTask
  <2>2. task[t] = IF t = InitTid \/ t \in Outsiders THEN n ELSE NoTask
    BY DEF Init, KernelInit
  <2> HIDE DEF n
  <2> QED
    BY <2>1, <2>2 DEF Visible, Alive
<1>3. reg = {InitTid} /\ thread[InitTid].tgid = InitTid /\ stack = <<>>
  BY <1>1 DEF Init
<1> QED
  BY <1>1, <1>2, <1>3 DEF TruthInv, TasksPlain, EntriesPlain, TablesIsolated

\* A task that goes on fades into itself.
LEMMA AnswerFades ==
  ASSUME KernelInv, NEW t \in Tids, NEW pc,
         task' = IF Alive(t) THEN [task EXCEPT ![t] = Continued(t, pc)] ELSE task
  PROVE  Fading(task')
<1>1. Fading(task)
  BY DEF Fading
<1>2. t \in Tasks
  BY ConstantFacts
<1> QED
  BY <1>1, <1>2, ContinuedSame

\* The steps of the handler keep the registry true.
LEMMA TruthHandler ==
  ASSUME IInv, TruthInv, Handler
  PROVE  TruthInv'
<1>0. KernelInv /\ RegistryInv /\ LockInv /\ Tids \subseteq Tasks
  BY IInvParts, ConstantFacts
<1>1. Fading(task)
  BY DEF Fading
<1>2. ASSUME NEW t \in Tasks, Visible(t), NEW adopt,
             UNCHANGED <<task, reg, thread>>,
             stack' = <<Frame(t, adopt)>> \/ stack' = Append(stack, Frame(t, adopt))
      PROVE  TruthInv'
  <2>1. Frame(t, adopt).tid = t /\ Frame(t, adopt).tgid = t /\ task[t].st # "none"
    BY <1>2 DEF Frame, TruthInv, TasksPlain, Visible
  <2> DEFINE f == Frame(t, adopt)
  <2> HIDE DEF f
  <2>2. stack \in Seq(Activation)
    BY <1>0 DEF LockInv, GoodStack
  <2>3. \A i \in 1..Len(stack') : stack'[i] = f \/ (i \in 1..Len(stack) /\ stack'[i] = stack[i])
    <3>1. CASE stack' = <<f>>
      BY <3>1
    <3>2. CASE stack' = Append(stack, f)
      <4>1. /\ Len(stack') = Len(stack) + 1 /\ Len(stack) \in Nat
            /\ \A i \in 1..Len(stack) : stack'[i] = stack[i]
            /\ stack'[Len(stack) + 1] = f
        BY <2>2, <3>2
      <4> QED
        BY <4>1
    <3> QED
      BY <1>2, <3>1, <3>2 DEF f
  <2>4. TasksPlain' /\ TablesIsolated'
    BY <1>2 DEF TruthInv, TasksPlain, TablesIsolated, Visible, Alive
  <2>5. EntriesPlain'
    <3>1. f.tid = t /\ f.tgid = t
      BY <2>1 DEF f
    <3>2. ASSUME NEW i \in 1..Len(stack')
          PROVE  task'[stack'[i].tid].st # "none" /\ stack'[i].tgid = stack'[i].tid
      <4>1. CASE stack'[i] = f
        BY <1>2, <2>1, <3>1, <4>1
      <4>2. CASE i \in 1..Len(stack) /\ stack'[i] = stack[i]
        BY <1>2, <4>2 DEF TruthInv, EntriesPlain
      <4> QED
        BY <2>3, <4>1, <4>2
    <3> QED
      BY <1>2, <3>2 DEF TruthInv, EntriesPlain
  <2> QED
    BY <2>4, <2>5 DEF TruthInv
<1>3. ASSUME task' = task, UNCHANGED <<reg, thread>>, stack' = stack \/ stack' = <<>>
      PROVE  TruthInv'
  BY <1>1, <1>3, FadingTruth
<1>4. ASSUME NEW s \in Seq(Activation), stack' = FailTop(s),
             \A i \in 1..Len(s) : i \in 1..Len(stack) /\ s[i] = stack[i],
             task' = task, UNCHANGED <<reg, thread>>
      PROVE  TruthInv'
  <2>1. /\ Len(stack') = Len(s)
        /\ \A i \in 1..Len(s) : stack'[i].tid = stack[i].tid /\ stack'[i].tgid = stack[i].tgid
    BY <1>4, FailSame
  <2> QED
    BY <1>4, <2>1 DEF TruthInv, TasksPlain, EntriesPlain, TablesIsolated, Visible, Alive
<1>5. ASSUME NEW t \in Tasks, ensure_registered(t) PROVE TruthInv'
  <2>1. UNCHANGED <<task, reg, thread>>
    BY <1>5 DEF ensure_registered, EnsureWith, kernel, registry
  <2>2. CASE t \notin reg /\ Visible(t)
    BY <1>2, <1>5, <2>1, <2>2 DEF ensure_registered, EnsureWith
  <2>3. CASE ~(t \notin reg /\ Visible(t))
    BY <1>3, <1>5, <2>1, <2>3 DEF ensure_registered, EnsureWith
  <2> QED
    BY <2>2, <2>3
<1>6. CASE ensure_parent
  <2>1. UNCHANGED <<task, reg, thread>> /\ stack # <<>> /\ stack \in Seq(Activation)
    BY <1>0, <1>6 DEF ensure_parent, kernel, registry, LockInv, GoodStack
  <2>2. CASE Top.ptid # Host /\ Visible(Top.ptid)
    <3>1. Top.ptid \in Tasks
      BY <1>0, <2>1, <2>2, TopFacts
    <3> QED
      BY <1>2, <1>6, <2>1, <2>2, <3>1 DEF ensure_parent
  <2>3. CASE ~(Top.ptid # Host /\ Visible(Top.ptid))
    BY <1>4, <1>6, <2>1, <2>3 DEF ensure_parent
  <2> QED
    BY <2>2, <2>3
<1>7. CASE not_in_sandbox
  <2>1. UNCHANGED <<task, reg, thread>> /\ stack # <<>> /\ stack' = FailTop(Pop)
    BY <1>7 DEF not_in_sandbox, kernel, registry
  <2> QED
    BY <1>0, <1>4, <2>1, PopSame
<1>8. CASE register_known \/ adopt_orphan
  <2>1. stack # <<>> /\ stack' = Pop /\ task' = task
    BY <1>8 DEF register_known, adopt_orphan, kernel
  <2>2. Top.tgid = Top.tid
    BY <1>0, <2>1, TopFacts DEF TruthInv, EntriesPlain, Top, Depth
  <2>3. CASE register_known
    <3>1. (Top.tgid # Top.tid) = FALSE
      BY <2>2
    <3>2. Top.ptid \in reg /\ Top.ptid # Host
      BY <2>3, <1>0, ConstantFacts DEF register_known, RegistryInv, RegistryTypeOK
    <3>3. Top.tid \in Tids
      BY <1>0, <2>1, <3>2, TopFacts DEF Tasks
    <3>4. register_child(Top.ptid, Top.tid, FALSE, shares_fd_table(Top.ptid, Top.tid), TRUE)
      BY <2>3, <3>1 DEF register_known
    <3> DEFINE shares == shares_fd_table(Top.ptid, Top.tid)
    <3>5. /\ register_child(Top.ptid, Top.tid, FALSE, shares, TRUE)
          /\ shares => shares_fd_table(Top.ptid, Top.tid)
      BY <3>4
    <3> HIDE DEF shares
    <3> QED
      BY <2>1, <3>2, <3>3, <3>5, RegisterTruth
  <2>4. CASE adopt_orphan
    <3>1. Top.tid \in Tids
      BY <1>0, <2>1, <2>4, TopFacts DEF adopt_orphan, Tasks
    <3>2. \/ InitTid \in reg /\ register_child(InitTid, Top.tid, FALSE, FALSE, FALSE)
          \/ UNCHANGED registry
      BY <2>2, <2>4 DEF adopt_orphan
    <3>3. CASE UNCHANGED registry
      <4>1. UNCHANGED <<reg, thread>>
        BY <3>3 DEF registry
      <4>2. /\ Pop \in Seq(Activation)
            /\ \A i \in 1..Len(Pop) : i \in 1..Len(stack) /\ Pop[i] = stack[i]
        BY <1>0, <2>1, PopSame
      <4> QED
        BY <2>1, <4>1, <4>2 DEF TruthInv, TasksPlain, EntriesPlain, TablesIsolated, Visible, Alive
    <3> QED
      BY <2>1, <3>1, <3>2, <3>3, RegisterTruth
  <2> QED
    BY <1>8, <2>3, <2>4
<1>9. CASE sync_new_threads
  BY <1>3, <1>9 DEF sync_new_threads, kernel, registry
<1>10. ASSUME NEW pc, Answer(pc), UNCHANGED <<reg, thread>> PROVE TruthInv'
  <2>1. Fading(task')
    BY <1>0, <1>10, AnswerFades DEF Answer, LockInv, LockTypeOK
  <2> QED
    BY <1>10, <2>1, FadingTruth DEF Answer
<1>11. CASE \/ sys_query
            \/ \E table \in Tables : sys_fd(table)
            \/ \E d \in Cwds : sys_chdir(d)
            \/ \E kind \in CloneKinds : sys_clone(kind)
  BY <1>10, <1>11 DEF sys_query, sys_fd, sys_chdir, sys_clone, registry
<1> QED
  BY <1>5, <1>6, <1>7, <1>8, <1>9, <1>11 DEF Handler

\* Every step keeps the registry true.
LEMMA TruthStep ==
  ASSUME TidReuse = FALSE, "thread" \notin CloneKinds, IInv, TruthInv, [Next]_vars
  PROVE  TruthInv'
<1>0. KernelInv /\ RegistryInv /\ LockInv
  BY IInvParts
<1>1. Fading(task)
  BY DEF Fading
<1>2. ASSUME Fading(task'), UNCHANGED <<reg, thread>>, stack' = stack \/ stack' = <<>>
      PROVE  TruthInv'
  BY <1>2, FadingTruth
<1>3. CASE UNCHANGED vars
  BY <1>1, <1>2, <1>3 DEF vars, kernel, registry, lock
<1>4. CASE Kernel
  <2>1. UNCHANGED <<reg, thread, stack>>
    BY <1>4 DEF Kernel, Trap, KernelClone, KernelCloneFails, KernelExit, KernelExitGroup,
       KernelKill, KernelReap, registry, lock
  <2> QED
    BY <1>0, <1>2, <1>4, <2>1, KernelFades, CloneTruth
<1>5. ASSUME NEW t \in Tids, Begin(t) PROVE TruthInv'
  <2>1. task' = task /\ UNCHANGED <<reg, thread>> /\ stack' = <<>>
    BY <1>5 DEF Begin, kernel, registry
  <2> QED
    BY <1>1, <1>2, <2>1
<1>6. ASSUME NEW t \in Tids, sys_exit(t) \/ sys_exit_group(t) PROVE TruthInv'
  <2>1. PICK pc \in {"exit", "exit_group"}, V \in SUBSET reg : Exit(t, pc, V)
    <3>1. CASE sys_exit(t)
      <4>1. {t} \cap reg \in SUBSET reg
        OBVIOUS
      <4> QED
        BY <3>1, <4>1 DEF sys_exit
    <3>2. CASE sys_exit_group(t)
      <4> DEFINE V == IF t \in reg THEN {u \in reg : thread[u].tgid = thread[t].tgid} ELSE {}
      <4>1. V \in SUBSET reg
        OBVIOUS
      <4>2. Exit(t, "exit_group", V)
        BY <3>2 DEF sys_exit_group
      <4> HIDE DEF V
      <4> QED
        BY <4>1, <4>2
    <3> QED
      BY <1>6, <3>1, <3>2
  <2>2. Fading(task')
    BY <1>0, <2>1, AnswerFades DEF Exit
  <2>3. reg' = reg \ V /\ stack' = stack
    BY <2>1 DEF Exit, handle_exit, lock
  <2>4. ASSUME NEW u \in reg'
        PROVE  thread'[u].tgid = thread[u].tgid /\ thread'[u].fdt = thread[u].fdt
    <3>1. u \in reg /\ u \notin V /\ u \in Tasks /\ thread[u] \in Thread
      BY <1>0, <2>3, <2>4 DEF RegistryInv, RegistryTypeOK
    <3>2. thread'[u] = thread[u] \/ thread'[u] = [thread[u] EXCEPT !.parent = InitTid]
      BY <2>1, <3>1 DEF Exit, handle_exit
    <3> QED
      BY <3>1, <3>2 DEF Thread
  <2> QED
    BY <2>2, <2>3, <2>4, FadingTruth
<1> QED
  BY <1>3, <1>4, <1>5, <1>6, TruthHandler DEF Next

\* A sandbox of processes: what the registry says of groups and shared tables is what
\* the kernel does, although it is read while tasks come and go.
THEOREM KernelAlwaysTrue ==
  ASSUME TidReuse = FALSE, "thread" \notin CloneKinds
  PROVE  Spec => []KernelTruth
<1>1. Init => TruthInv
  BY TruthInit
<1>2. IInv /\ TruthInv /\ [Next]_vars => TruthInv'
  BY TruthStep
<1>3. IInv /\ TruthInv => KernelTruth
  <2>1. IInv => reg \subseteq Tasks
    BY DEF IInv, TypeOK, RegistryTypeOK
  <2> QED
    BY <2>1 DEF TruthInv, TasksPlain, EntriesPlain, KernelTruth, GroupTruth, Alive, Visible
<1> QED
  BY <1>1, <1>2, <1>3, Inductive, PTL DEF Spec

\* Only the exit of a process takes its entry away.
LEMMA LeavingExits ==
  ASSUME TidReuse = FALSE, IInv, TruthInv, Next, NEW t \in reg, t \notin reg', Alive(t)
  PROVE  task'[t].pc \in {"exit", "exit_group"}
<1>0. KernelInv /\ RegistryInv /\ LockInv /\ reg \subseteq Tasks
  BY IInvParts DEF RegistryInv, RegistryTypeOK
<1>1. CASE Kernel
  BY <1>1 DEF Kernel, Trap, KernelClone, KernelCloneFails, KernelExit, KernelExitGroup,
     KernelKill, KernelReap, registry
<1>2. CASE Handler
  BY <1>2 DEF Handler, ensure_registered, EnsureWith, ensure_parent, register_known,
     adopt_orphan, register_child, not_in_sandbox, sync_new_threads, sys_query, sys_fd,
     sys_chdir, sys_clone, registry
<1>3. ASSUME NEW x \in Tids, Begin(x) PROVE FALSE
  BY <1>3 DEF Begin, registry
<1>4. ASSUME NEW x \in Tids, sys_exit(x) \/ sys_exit_group(x)
      PROVE  task'[t].pc \in {"exit", "exit_group"}
  <2>1. PICK pc \in {"exit", "exit_group"}, V \in SUBSET {x} : Exit(x, pc, V)
    <3>1. CASE sys_exit(x)
      <4>1. {x} \cap reg \in SUBSET {x}
        OBVIOUS
      <4> QED
        BY <3>1, <4>1 DEF sys_exit
    <3>2. CASE sys_exit_group(x)
      <4> DEFINE V == IF x \in reg THEN {u \in reg : thread[u].tgid = thread[x].tgid} ELSE {}
      <4>1. V \in SUBSET {x}
        BY DEF TruthInv, EntriesPlain
      <4>2. Exit(x, "exit_group", V)
        BY <3>2 DEF sys_exit_group
      <4> HIDE DEF V
      <4> QED
        BY <4>1, <4>2
    <3> QED
      BY <1>4, <3>1, <3>2
  <2>2. t = x
    BY <2>1 DEF Exit, handle_exit
  <2>3. task' = [task EXCEPT ![t] = Continued(t, pc)]
    BY <2>1, <2>2 DEF Exit
  <2>4. task'[t].pc = pc
    BY <1>0, <2>3, ContinuedSame
  <2> QED
    BY <2>1, <2>4
<1> QED
  BY <1>1, <1>2, <1>3, <1>4 DEF Next

\* A process that lives and has not asked to exit keeps its entry: no exit of another
\* one, and no failure of the recursion, takes it away.
THEOREM EntriesKept ==
  ASSUME TidReuse = FALSE, "thread" \notin CloneKinds
  PROVE  Spec => LiveKeepsEntry
<1>1. Init => TruthInv
  BY TruthInit
<1>2. IInv /\ TruthInv /\ [Next]_vars => TruthInv'
  BY TruthStep
<1>3. IInv /\ TruthInv /\ [Next]_vars =>
        [\A t \in reg : t \notin reg' =>
           ~Alive(t) \/ task'[t].pc \in {"exit", "exit_group"}]_vars
  BY LeavingExits
<1> QED
  BY <1>1, <1>2, <1>3, Inductive, PTL DEF Spec, LiveKeepsEntry
=============================================================================
