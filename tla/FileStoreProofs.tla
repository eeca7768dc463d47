--------------------------- MODULE FileStoreProofs ---------------------------
(***************************************************************************)
(* The store file is what AtomicStore promises, for any number of          *)
(* processes, updates and crashes.                                         *)
(***************************************************************************)
EXTENDS FileStore, TLAPS

USE DEF procs, disk, Goto

----------------------------------------------------------------------------
(* The inductive invariant. *)

(* Who is past "lock" holds the lock: nobody else is. *)
LockInv == \A p \in Procs : pc[p] \notin {"idle", "lock"} => holder = p

(* The temporary file of an update is on its way to hold what was loaded   *)
(* with the update, and nobody changes the file meanwhile.                 *)
TempInv ==
    \A p \in Procs :
        /\ pc[p] \in {"create", "write", "sync", "rename"}
            => loaded[p] = visible.data \cup {op[p]}
        /\ pc[p] \in {"write", "sync", "rename"} => Temp(p) \in DOMAIN temps
        /\ pc[p] \in {"sync", "rename"}
            => temps[Temp(p)].data = loaded[p] /\ temps[Temp(p)].whole
        /\ pc[p] = "rename" => temps[Temp(p)].synced

(* The file reflects every file it may come back to, all of which are      *)
(* complete and reflect the updates reported as saved.                     *)
DiskInv ==
    /\ NeverTorn /\ SavedStays
    /\ visible \in entries
    /\ \A f \in entries : f.data \subseteq visible.data
    /\ \A p \in Procs : pc[p] \in {"syncdir", "done"} => op[p] \in visible.data
    /\ \A p \in Procs : pc[p] = "done" => \A f \in entries : op[p] \in f.data

Inv == TypeOK /\ LockInv /\ TempInv /\ DiskInv

LEMMA InitInv == Init => Inv
<1> SUFFICES ASSUME Init PROVE Inv
  OBVIOUS
<1>1. DOMAIN <<>> = {}
  OBVIOUS
<1>2. TypeOK
  BY <1>1, CrashesAssumption DEF Init, TypeOK, File, NewFile
<1>3. LockInv /\ TempInv
  BY DEF Init, LockInv, TempInv
<1>4. DiskInv
  BY DEF Init, DiskInv, NeverTorn, SavedStays, NewFile
<1> QED
  BY <1>2, <1>3, <1>4 DEF Inv

----------------------------------------------------------------------------
(* Facts about the temporary files. *)

LEMMA PutType ==
    ASSUME NEW f, DOMAIN f \subseteq Procs \X Nat, f \in [DOMAIN f -> File],
           NEW k \in Procs \X Nat, NEW v \in File
    PROVE  /\ DOMAIN Put(f, k, v) = DOMAIN f \cup {k}
           /\ DOMAIN Put(f, k, v) \subseteq Procs \X Nat
           /\ Put(f, k, v) \in [DOMAIN Put(f, k, v) -> File]
BY DEF Put

LEMMA WithoutType ==
    ASSUME NEW f, DOMAIN f \subseteq Procs \X Nat, f \in [DOMAIN f -> File], NEW k
    PROVE  /\ DOMAIN Without(f, k) \subseteq Procs \X Nat
           /\ Without(f, k) \in [DOMAIN Without(f, k) -> File]
BY DEF Without, Restrict

LEMMA TempType == ASSUME TypeOK, NEW p \in Procs PROVE Temp(p) \in Procs \X Nat
BY DEF Temp, TypeOK

(* Only one process is past "lock". *)
LEMMA Alone ==
    ASSUME LockInv, NEW p \in Procs, pc[p] \notin {"idle", "lock"},
           NEW q \in Procs, q # p
    PROVE  pc[q] \in {"idle", "lock"}
BY DEF LockInv

----------------------------------------------------------------------------
(* The steps of a process. *)

LEMMA BeginInv ==
    ASSUME Inv, NEW p \in Procs, NEW u \in Updates, Begin(p, u)
    PROVE  Inv'
<1>1. TypeOK'
  BY ProcsAssumption DEF Inv, Begin, TypeOK
<1>2. LockInv'
  BY DEF Inv, Begin, TypeOK, LockInv
<1>3. TempInv'
  BY DEF Inv, Begin, TypeOK, TempInv, Temp
<1>4. DiskInv'
  BY DEF Inv, Begin, TypeOK, DiskInv, NeverTorn, SavedStays
<1> QED
  BY <1>1, <1>2, <1>3, <1>4 DEF Inv

LEMMA LockStepInv == ASSUME Inv, NEW p \in Procs, Lock(p) PROVE Inv'
<1>1. TypeOK'
  BY DEF Inv, Lock, TypeOK
<1>2. LockInv'
  BY ProcsAssumption DEF Inv, Lock, TypeOK, LockInv
<1>3. TempInv'
  BY DEF Inv, Lock, TypeOK, TempInv, Temp
<1>4. DiskInv'
  BY DEF Inv, Lock, TypeOK, DiskInv, NeverTorn, SavedStays
<1> QED
  BY <1>1, <1>2, <1>3, <1>4 DEF Inv

LEMMA LoadInv == ASSUME Inv, NEW p \in Procs, Load(p) PROVE Inv'
<1>1. loaded' \in [Procs -> SUBSET Updates]
  BY DEF Inv, Load, TypeOK, File
<1>2. TypeOK'
  BY <1>1 DEF Inv, Load, TypeOK
<1>3. LockInv'
  BY DEF Inv, Load, TypeOK, LockInv
<1>4. TempInv'
  BY DEF Inv, Load, TypeOK, TempInv, Temp
<1>5. DiskInv'
  BY DEF Inv, Load, TypeOK, DiskInv, NeverTorn, SavedStays
<1> QED
  BY <1>2, <1>3, <1>4, <1>5 DEF Inv

LEMMA EndsInv == ASSUME Inv, NEW p \in Procs, LoadEnds(p) \/ SyncDirFails(p) PROVE Inv'
<1>1. TypeOK'
  BY DEF Inv, LoadEnds, SyncDirFails, TypeOK
<1>2. LockInv'
  BY DEF Inv, LoadEnds, SyncDirFails, TypeOK, LockInv
<1>3. TempInv'
  BY DEF Inv, LoadEnds, SyncDirFails, TypeOK, TempInv, Temp
<1>4. DiskInv'
  BY DEF Inv, LoadEnds, SyncDirFails, TypeOK, DiskInv, NeverTorn, SavedStays
<1> QED
  BY <1>1, <1>2, <1>3, <1>4 DEF Inv

LEMMA CreateInv == ASSUME Inv, NEW p \in Procs, Create(p) PROVE Inv'
<1> DEFINE new == [data |-> {}, whole |-> FALSE, synced |-> FALSE]
<1>1. new \in File /\ Temp(p) \in Procs \X Nat /\ temps' = Put(temps, Temp(p), new)
  BY TempType DEF Inv, File, Create
<1> HIDE DEF new
<1>2. /\ DOMAIN temps' \subseteq Procs \X Nat /\ temps' \in [DOMAIN temps' -> File]
      /\ DOMAIN temps' = DOMAIN temps \cup {Temp(p)}
  BY <1>1, PutType DEF Inv, TypeOK
<1>3. TypeOK'
  BY <1>2 DEF Inv, Create, TypeOK
<1>4. LockInv'
  BY DEF Inv, Create, TypeOK, LockInv
<1>5. TempInv'
  BY <1>2, Alone DEF Inv, Create, TypeOK, TempInv, Temp
<1>6. DiskInv'
  BY DEF Inv, Create, TypeOK, DiskInv, NeverTorn, SavedStays
<1> QED
  BY <1>3, <1>4, <1>5, <1>6 DEF Inv

LEMMA WriteInv == ASSUME Inv, NEW p \in Procs, Write(p) PROVE Inv'
<1> DEFINE new == [data |-> loaded[p], whole |-> TRUE, synced |-> FALSE]
<1>1. new \in File /\ Temp(p) \in DOMAIN temps /\ temps' = [temps EXCEPT ![Temp(p)] = new]
  BY DEF Inv, File, Write, TempInv, TypeOK
<1>2. temps'[Temp(p)] = new /\ DOMAIN temps' = DOMAIN temps
  BY <1>1 DEF Inv, TypeOK
<1>3. temps' \in [DOMAIN temps' -> File]
  <2> HIDE DEF new
  <2> QED
    BY <1>1, <1>2 DEF Inv, TypeOK
<1>4. TypeOK'
  BY <1>2, <1>3 DEF Inv, Write, TypeOK
<1>5. LockInv'
  BY DEF Inv, Write, TypeOK, LockInv
<1>6. TempInv'
  <2>1. temps'[Temp(p)].data = loaded[p] /\ temps'[Temp(p)].whole
    BY <1>2
  <2>2. Temp(p)' = Temp(p) /\ loaded' = loaded /\ visible' = visible /\ op' = op
    BY DEF Write, Temp
  <2>3. pc' = [pc EXCEPT ![p] = "sync"] /\ pc[p] = "write"
    BY DEF Write
  <2> QED
    BY <1>1, <1>2, <2>1, <2>2, <2>3, Alone DEF Inv, TypeOK, TempInv
<1>7. DiskInv'
  BY DEF Inv, Write, TypeOK, DiskInv, NeverTorn, SavedStays
<1> QED
  BY <1>4, <1>5, <1>6, <1>7 DEF Inv

LEMMA SyncInv == ASSUME Inv, NEW p \in Procs, Sync(p) PROVE Inv'
<1> DEFINE old == temps[Temp(p)]
           new == [old EXCEPT !.synced = TRUE]
<1>1. /\ Temp(p) \in DOMAIN temps /\ old \in File
      /\ old.data = loaded[p] /\ old.whole /\ loaded[p] = visible.data \cup {op[p]}
  BY DEF Inv, Sync, TempInv, TypeOK
<1>2. new \in File /\ new.data = old.data /\ new.whole = old.whole /\ new.synced
  BY <1>1 DEF File
<1>3. temps' = [temps EXCEPT ![Temp(p)] = new]
  BY DEF Sync
<1> HIDE DEF old, new
<1>4. temps'[Temp(p)] = new /\ DOMAIN temps' = DOMAIN temps
  BY <1>1, <1>3
<1>5. temps' \in [DOMAIN temps' -> File]
  BY <1>2, <1>3, <1>4 DEF Inv, TypeOK
<1>6. TypeOK'
  BY <1>4, <1>5 DEF Inv, Sync, TypeOK
<1>7. LockInv'
  BY DEF Inv, Sync, TypeOK, LockInv
<1>8. TempInv'
  <2>1. Temp(p)' = Temp(p) /\ loaded' = loaded /\ visible' = visible /\ op' = op
    BY DEF Sync, Temp
  <2>2. pc' = [pc EXCEPT ![p] = "rename"] /\ pc[p] = "sync"
    BY DEF Sync
  <2> QED
    BY <1>1, <1>2, <1>4, <2>1, <2>2, Alone DEF Inv, TypeOK, TempInv
<1>9. DiskInv'
  BY DEF Inv, Sync, TypeOK, DiskInv, NeverTorn, SavedStays
<1> QED
  BY <1>6, <1>7, <1>8, <1>9 DEF Inv

LEMMA RenameInv == ASSUME Inv, NEW p \in Procs, Rename(p) PROVE Inv'
<1>1. /\ visible' \in File /\ visible'.whole /\ visible'.synced
      /\ visible'.data = visible.data \cup {op[p]}
      /\ entries' = entries \cup {visible'}
  BY DEF Inv, Rename, TempInv, TypeOK
<1>2. /\ DOMAIN temps' \subseteq Procs \X Nat /\ temps' \in [DOMAIN temps' -> File]
  BY WithoutType DEF Inv, Rename, TypeOK
<1>3. TypeOK'
  BY <1>1, <1>2 DEF Inv, Rename, TypeOK
<1>4. LockInv'
  BY DEF Inv, Rename, TypeOK, LockInv
<1>5. TempInv'
  <2>1. pc' = [pc EXCEPT ![p] = "syncdir"] /\ pc[p] = "rename"
    BY DEF Rename
  <2> QED
    BY <2>1, Alone DEF Inv, TypeOK, TempInv
<1>6. DiskInv'
  <2>1. pc' = [pc EXCEPT ![p] = "syncdir"] /\ pc[p] = "rename" /\ op' = op /\ acked' = acked
    BY DEF Rename
  <2>2. NeverTorn' /\ SavedStays'
    BY <1>1, <2>1 DEF Inv, DiskInv, NeverTorn, SavedStays
  <2> QED
    BY <1>1, <2>1, <2>2, Alone DEF Inv, TypeOK, DiskInv
<1> QED
  BY <1>3, <1>4, <1>5, <1>6 DEF Inv

LEMMA SyncDirInv == ASSUME Inv, NEW p \in Procs, SyncDir(p) PROVE Inv'
<1>1. TypeOK'
  BY DEF Inv, SyncDir, TypeOK
<1>2. LockInv'
  BY DEF Inv, SyncDir, TypeOK, LockInv
<1>3. TempInv'
  BY DEF Inv, SyncDir, TypeOK, TempInv, Temp
<1>4. DiskInv'
  BY DEF Inv, SyncDir, TypeOK, DiskInv, NeverTorn, SavedStays
<1> QED
  BY <1>1, <1>2, <1>3, <1>4 DEF Inv

LEMMA WriteFailsInv == ASSUME Inv, NEW p \in Procs, WriteFails(p) PROVE Inv'
<1>1. /\ DOMAIN temps' \subseteq Procs \X Nat /\ temps' \in [DOMAIN temps' -> File]
  BY WithoutType DEF Inv, WriteFails, TypeOK
<1>2. TypeOK'
  BY <1>1 DEF Inv, WriteFails, TypeOK
<1>3. LockInv'
  BY DEF Inv, WriteFails, TypeOK, LockInv
<1>4. TempInv'
  <2>1. pc' = [pc EXCEPT ![p] = "fail"] /\ pc[p] \in {"create", "write", "sync", "rename"}
    BY DEF WriteFails
  <2> QED
    BY <2>1, Alone, SMTT(30) DEF Inv, TypeOK, TempInv
<1>5. DiskInv'
  BY DEF Inv, WriteFails, TypeOK, DiskInv, NeverTorn, SavedStays
<1> QED
  BY <1>2, <1>3, <1>4, <1>5 DEF Inv

LEMMA UnlockInv == ASSUME Inv, NEW p \in Procs, Unlock(p) PROVE Inv'
<1>1. pc[p] \in {"done", "fail"} /\ pc' = [pc EXCEPT ![p] = "idle"]
  BY DEF Unlock
<1>2. TypeOK'
  BY DEF Inv, Unlock, TypeOK
<1>3. LockInv'
  BY <1>1, Alone DEF Inv, TypeOK, LockInv
<1>4. TempInv'
  BY <1>1, Alone DEF Inv, TypeOK, TempInv
<1>5. DiskInv'
  <2>1. acked' \subseteq acked \cup {op[p]} /\ (pc[p] = "fail" => acked' = acked)
    BY DEF Unlock
  <2>2. visible' = visible /\ entries' = entries
    BY DEF Unlock
  <2>3. SavedStays'
    BY <1>1, <2>1, <2>2 DEF Inv, DiskInv, SavedStays
  <2> QED
    BY <1>1, <2>2, <2>3, Alone DEF Inv, TypeOK, DiskInv, NeverTorn
<1> QED
  BY <1>2, <1>3, <1>4, <1>5 DEF Inv

----------------------------------------------------------------------------
(* Deaths and losses of power. *)

LEMMA CrashInv == ASSUME Inv, NEW p \in Procs, Crash(p) PROVE Inv'
<1>1. pc' = [pc EXCEPT ![p] = "idle"] /\ op' = [op EXCEPT ![p] = NoUpdate]
  BY DEF Crash
<1>2. TypeOK'
  BY CrashesAssumption DEF Inv, Crash, TypeOK
<1>3. LockInv'
  BY <1>1 DEF Inv, Crash, TypeOK, LockInv
<1>4. TempInv'
  <2>1. \A q \in Procs : q # p => /\ Temp(q)' = Temp(q) /\ loaded'[q] = loaded[q]
                                  /\ op'[q] = op[q] /\ pc'[q] = pc[q]
    BY DEF Inv, Crash, TypeOK, Temp
  <2>2. temps' = temps /\ visible' = visible /\ pc'[p] = "idle"
    BY DEF Inv, Crash, TypeOK
  <2> QED
    BY <2>1, <2>2 DEF Inv, TempInv
<1>5. DiskInv'
  BY DEF Inv, Crash, TypeOK, DiskInv, NeverTorn, SavedStays
<1> QED
  BY <1>2, <1>3, <1>4, <1>5 DEF Inv

LEMMA PowerLossInv == ASSUME Inv, PowerLoss PROVE Inv'
<1>1. PICK f \in entries :
        visible' = [f EXCEPT !.whole = f.whole /\ f.synced, !.synced = TRUE]
  BY DEF PowerLoss
<1>2. /\ visible' \in File /\ visible'.data = f.data /\ visible'.whole /\ visible'.synced
      /\ entries' = {visible'}
  BY <1>1 DEF Inv, TypeOK, DiskInv, NeverTorn, PowerLoss, File
<1>3. \A p \in Procs : pc'[p] = "idle"
  BY DEF PowerLoss
<1>4. TypeOK'
  <2>1. DOMAIN <<>> = {}
    OBVIOUS
  <2>2. DOMAIN temps' \subseteq Procs \X Nat /\ temps' \in [DOMAIN temps' -> File]
    <3>1. CASE temps' = temps
      BY <3>1 DEF Inv, TypeOK
    <3>2. CASE temps' = <<>>
      <4>1. <<>> \in [{} -> File]
        OBVIOUS
      <4> QED
        BY <2>1, <3>2, <4>1
    <3> QED
      BY <3>1, <3>2 DEF PowerLoss
  <2>3. /\ holder' = NoProc /\ op' \in [Procs -> Updates \cup {NoUpdate}]
        /\ loaded' \in [Procs -> SUBSET Updates] /\ writes' \in [Procs -> Nat]
        /\ pc' \in [Procs -> {"idle"}] /\ begun' = begun /\ acked' = acked
    BY DEF PowerLoss
  <2>4. crashes' \in 0..MaxCrashes
    BY CrashesAssumption DEF Inv, TypeOK, PowerLoss
  <2>5. pc' \in [Procs -> {"idle", "lock", "load", "create", "write", "sync", "rename",
                          "syncdir", "done", "fail"}]
    BY <2>3
  <2> QED
    BY <1>2, <1>3, <2>2, <2>3, <2>4, <2>5 DEF Inv, TypeOK
<1>5. LockInv' /\ TempInv'
  BY <1>3 DEF LockInv, TempInv
<1>6. DiskInv'
  <2>1. acked' = acked
    BY DEF PowerLoss
  <2> QED
    BY <1>2, <1>3, <2>1 DEF Inv, DiskInv, NeverTorn, SavedStays
<1> QED
  BY <1>4, <1>5, <1>6 DEF Inv

----------------------------------------------------------------------------
(* The theorems. *)

LEMMA NextInv == Inv /\ [Next]_vars => Inv'
<1> SUFFICES ASSUME Inv, [Next]_vars PROVE Inv'
  OBVIOUS
<1>1. CASE \E p \in Procs : Step(p)
  BY <1>1, BeginInv, LockStepInv, LoadInv, EndsInv, CreateInv, WriteInv, SyncInv, RenameInv,
     SyncDirInv, WriteFailsInv, UnlockInv DEF Step
<1>2. CASE \E p \in Procs : Crash(p)
  BY <1>2, CrashInv
<1>3. CASE PowerLoss
  BY <1>3, PowerLossInv
<1>4. CASE UNCHANGED vars
  BY <1>4 DEF vars, Inv, TypeOK, LockInv, TempInv, Temp, DiskInv, NeverTorn, SavedStays
<1> QED
  BY <1>1, <1>2, <1>3, <1>4 DEF Next

LEMMA Invariance == SafetySpec => []Inv
BY InitInv, NextInv, PTL DEF SafetySpec

(* Every variable has its type. *)
THEOREM FileTypeCorrect == SafetySpec => []TypeOK
<1>1. Inv => TypeOK
  BY DEF Inv
<1> QED
  BY <1>1, Invariance, PTL

(* No reader ever finds an incomplete file, not even after a loss of power *)
(* (write_temp_and_rename).                                                *)
THEOREM FileNeverTorn == SafetySpec => []NeverTorn
<1>1. Inv => NeverTorn
  BY DEF Inv, DiskInv
<1> QED
  BY <1>1, Invariance, PTL

(* No update that was reported as saved is ever lost, neither to another   *)
(* process nor to a crash (with_exclusive_lock, atomic_write).             *)
THEOREM SavedUpdatesStay == SafetySpec => []SavedStays
<1>1. Inv => SavedStays
  BY DEF Inv, DiskInv
<1> QED
  BY <1>1, Invariance, PTL

----------------------------------------------------------------------------
(* The refinement. *)

(* Only these steps change what the abstract specification sees.           *)
LEMMA StepRefines ==
    ASSUME Inv, NEW p \in Procs, Step(p)
    PROVE  [Abstract!Next]_(Abstract!vars)
<1>1. CASE Rename(p)
  <2>1. /\ visible'.data = visible.data \cup {op[p]} /\ op[p] \in Updates
        /\ entries' = entries \cup {visible'} /\ acked' = acked
    BY <1>1 DEF Inv, Rename, TempInv, TypeOK
  <2>2. {u \in visible'.data : \A f \in entries' : u \in f.data}
          = {u \in visible.data : \A f \in entries : u \in f.data}
    BY <2>1 DEF Inv, DiskInv
  <2>3. Abstract!Apply(op[p])
    BY <2>1, <2>2 DEF Abstract!Apply
  <2> QED
    BY <2>1, <2>3 DEF Abstract!Next
<1>2. CASE SyncDir(p)
  <2>1. visible' = visible /\ entries' = {visible} /\ acked' = acked
    BY <1>2 DEF SyncDir
  <2>2. Abstract!Harden
    BY <2>1 DEF Abstract!Harden
  <2> QED
    BY <2>2 DEF Abstract!Next
<1>3. CASE Unlock(p) /\ pc[p] = "done"
  <2>1. /\ visible' = visible /\ entries' = entries /\ acked' = acked \cup {op[p]}
    BY <1>3 DEF Unlock
  <2>2. /\ op[p] \in visible.data /\ \A f \in entries : op[p] \in f.data
        /\ op[p] \in Updates
    BY <1>3 DEF Inv, DiskInv, TypeOK
  <2>3. Abstract!Acknowledge(op[p])
    BY <2>1, <2>2 DEF Abstract!Acknowledge
  <2> QED
    BY <2>2, <2>3 DEF Abstract!Next
<1>4. CASE visible' = visible /\ entries' = entries /\ acked' = acked
  BY <1>4 DEF Abstract!vars
<1> QED
  BY <1>1, <1>2, <1>3, <1>4 DEF Step, Begin, Lock, Load, LoadEnds, Create, Write, Sync,
     WriteFails, SyncDirFails, Unlock

LEMMA PowerLossRefines ==
    ASSUME Inv, PowerLoss
    PROVE  Abstract!PowerLoss
<1>1. PICK f \in entries :
        visible' = [f EXCEPT !.whole = f.whole /\ f.synced, !.synced = TRUE]
  BY DEF PowerLoss
<1>2. visible'.data = f.data /\ entries' = {visible'} /\ acked' = acked
  BY <1>1 DEF Inv, TypeOK, PowerLoss, File
<1>3. f.data \subseteq visible.data
  BY DEF Inv, DiskInv
<1> QED
  BY <1>2, <1>3 DEF Abstract!PowerLoss

(* The file implements AtomicStore: the initial states map to the initial  *)
(* state and every step to a step of AtomicStore or to none.               *)
THEOREM FileIsAtomic == SafetySpec => AtomicUpdates
<1>1. Init => Abstract!Init
  BY DEF Init, NewFile, Abstract!Init
<1>2. Inv /\ [Next]_vars => [Abstract!Next]_(Abstract!vars)
  <2> SUFFICES ASSUME Inv, [Next]_vars PROVE [Abstract!Next]_(Abstract!vars)
    OBVIOUS
  <2>1. CASE \E p \in Procs : Step(p)
    BY <2>1, StepRefines
  <2>2. CASE \E p \in Procs : Crash(p)
    BY <2>2 DEF Crash, Abstract!vars
  <2>3. CASE PowerLoss
    BY <2>3, PowerLossRefines DEF Abstract!Next
  <2>4. CASE UNCHANGED vars
    BY <2>4 DEF vars, Abstract!vars
  <2> QED
    BY <2>1, <2>2, <2>3, <2>4 DEF Next
<1> QED
  BY <1>1, <1>2, Invariance, PTL DEF SafetySpec, AtomicUpdates, Abstract!Spec
=============================================================================
