------------------------------ MODULE FileStore ------------------------------
(***************************************************************************)
(* How a store file is updated: with_exclusive_lock and atomic_write of    *)
(* crates/core/src/persistence.rs, as update_state (state.rs) and          *)
(* update_profiles_file (store/persistence.rs) use them.                   *)
(*                                                                         *)
(* The daemon and any number of commands update one file.  Each takes the  *)
(* lock of the file, loads it, changes what it loaded, and replaces the    *)
(* file: it writes a temporary file, syncs it, renames it over the old     *)
(* one and syncs the directory.  Every system call may fail, a process may *)
(* die between any two of them and start again, and the machine may lose   *)
(* power, after which the directory names any file it named since it was   *)
(* last synced and a file that was not synced is garbage.                  *)
(*                                                                         *)
(* The contents of a file are the set of updates that made it what it is.  *)
(* A load outside the lock reads `visible` in one step.                    *)
(***************************************************************************)
EXTENDS Naturals, Functions

CONSTANTS
    Procs,       \* the processes that update the file
    Updates,     \* the updates they make, each at most once
    NoProc,      \* nobody holds the lock
    NoUpdate,    \* a process that is not updating
    MaxCrashes   \* bound: deaths of processes and losses of power

ASSUME ProcsAssumption == NoProc \notin Procs /\ NoUpdate \notin Updates
ASSUME CrashesAssumption == MaxCrashes \in Nat

VARIABLES
    holder,    \* who holds the lock
    pc, op,    \* of each process: its next step, the update it makes
    loaded,    \* of each process: the contents it writes
    writes,    \* of each process: WRITE_COUNTER
    temps,     \* the temporary files, by the name temp_path_for gives them
    visible,   \* the file that the path names
    entries,   \* the files the path may name after a loss of power
    begun,     \* the updates that were begun
    acked,     \* the updates that were reported as saved
    crashes

procs == <<pc, op, loaded, writes>>
disk  == <<temps, visible, entries>>
vars  == <<holder, procs, disk, begun, acked, crashes>>

File == [data : SUBSET Updates, whole : BOOLEAN, synced : BOOLEAN]

NewFile == [data |-> {}, whole |-> TRUE, synced |-> TRUE]

Init ==
    /\ holder = NoProc
    /\ pc = [p \in Procs |-> "idle"] /\ op = [p \in Procs |-> NoUpdate]
    /\ loaded = [p \in Procs |-> {}] /\ writes = [p \in Procs |-> 0]
    /\ temps = <<>> /\ visible = NewFile /\ entries = {NewFile}
    /\ begun = {} /\ acked = {} /\ crashes = 0

(* temp_path_for: the process and how many files it has written.  A process *)
(* that starts again may have the number of the one that died.             *)
Temp(p) == <<p, writes[p]>>

Put(f, k, v) == [x \in DOMAIN f \cup {k} |-> IF x = k THEN v ELSE f[x]]
Without(f, k) == Restrict(f, DOMAIN f \ {k})

Goto(p, l) == pc' = [pc EXCEPT ![p] = l]
----------------------------------------------------------------------------
Begin(p, u) ==
    /\ pc[p] = "idle" /\ u \notin begun
    /\ op' = [op EXCEPT ![p] = u] /\ begun' = begun \cup {u}
    /\ Goto(p, "lock")
    /\ UNCHANGED <<holder, loaded, writes, disk, acked, crashes>>

(* Mutant: the lock is not waited for. *)
LockAnyway(p) ==
    /\ pc[p] = "lock"
    /\ holder' = p
    /\ Goto(p, "load")
    /\ UNCHANGED <<op, loaded, writes, disk, begun, acked, crashes>>

Lock(p) ==
    /\ pc[p] = "lock" /\ holder = NoProc
    /\ holder' = p
    /\ Goto(p, "load")
    /\ UNCHANGED <<op, loaded, writes, disk, begun, acked, crashes>>

Load(p) ==
    /\ pc[p] = "load" /\ visible.whole
    /\ loaded' = [loaded EXCEPT ![p] = visible.data \cup {op[p]}]
    /\ Goto(p, "create")
    /\ UNCHANGED <<holder, op, writes, disk, begun, acked, crashes>>

(* A file that does not parse is left as it is, and so is one that cannot  *)
(* be read or needs no change.                                             *)
LoadEnds(p) ==
    /\ pc[p] = "load"
    /\ Goto(p, "fail")
    /\ UNCHANGED <<holder, op, loaded, writes, disk, begun, acked, crashes>>

(* create_new: there is no file of that name. *)
Create(p) ==
    /\ pc[p] = "create" /\ Temp(p) \notin DOMAIN temps
    /\ temps' = Put(temps, Temp(p), [data |-> {}, whole |-> FALSE, synced |-> FALSE])
    /\ Goto(p, "write")
    /\ UNCHANGED <<holder, op, loaded, writes, visible, entries, begun, acked, crashes>>

Write(p) ==
    /\ pc[p] = "write"
    /\ temps' = [temps EXCEPT ![Temp(p)] = [data |-> loaded[p], whole |-> TRUE,
                                            synced |-> FALSE]]
    /\ Goto(p, "sync")
    /\ UNCHANGED <<holder, op, loaded, writes, visible, entries, begun, acked, crashes>>

(* Mutant: the temporary file is not synced. *)
SyncSkipped(p) ==
    /\ pc[p] = "sync"
    /\ Goto(p, "rename")
    /\ UNCHANGED <<holder, op, loaded, writes, disk, begun, acked, crashes>>

Sync(p) ==
    /\ pc[p] = "sync"
    /\ temps' = [temps EXCEPT ![Temp(p)].synced = TRUE]
    /\ Goto(p, "rename")
    /\ UNCHANGED <<holder, op, loaded, writes, visible, entries, begun, acked, crashes>>

Rename(p) ==
    /\ pc[p] = "rename"
    /\ visible' = temps[Temp(p)]
    /\ entries' = entries \cup {visible'}
    /\ temps' = Without(temps, Temp(p))
    /\ writes' = [writes EXCEPT ![p] = @ + 1]
    /\ Goto(p, "syncdir")
    /\ UNCHANGED <<holder, op, loaded, begun, acked, crashes>>

(* Mutant: the directory is not synced. *)
SyncDirSkipped(p) ==
    /\ pc[p] = "syncdir"
    /\ Goto(p, "done")
    /\ UNCHANGED <<holder, op, loaded, writes, disk, begun, acked, crashes>>

SyncDir(p) ==
    /\ pc[p] = "syncdir"
    /\ entries' = {visible}
    /\ Goto(p, "done")
    /\ UNCHANGED <<holder, op, loaded, writes, temps, visible, begun, acked, crashes>>

(* One of them fails: the name is taken, the disk is full, ...  The        *)
(* temporary file is removed, if there is one.                             *)
WriteFails(p) ==
    /\ pc[p] \in {"create", "write", "sync", "rename"}
    /\ temps' = Without(temps, Temp(p))
    /\ writes' = [writes EXCEPT ![p] = @ + 1]
    /\ Goto(p, "fail")
    /\ UNCHANGED <<holder, op, loaded, visible, entries, begun, acked, crashes>>

SyncDirFails(p) ==
    /\ pc[p] = "syncdir"
    /\ Goto(p, "fail")
    /\ UNCHANGED <<holder, op, loaded, writes, disk, begun, acked, crashes>>

(* Mutant: the update is forgotten before its caller is told. *)
UnlockForgetful(p) ==
    /\ pc[p] \in {"done", "fail"}
    /\ holder' = NoProc
    /\ op' = [op EXCEPT ![p] = NoUpdate]
    /\ acked' = IF pc[p] = "done" THEN acked \cup {op'[p]} ELSE acked
    /\ Goto(p, "idle") /\ loaded' = [loaded EXCEPT ![p] = {}]
    /\ UNCHANGED <<writes, disk, begun, crashes>>

(* Mutant: the lock is released where the update succeeds. *)
UnlockOnSuccess(p) ==
    /\ pc[p] \in {"done", "fail"}
    /\ holder' = IF pc[p] = "done" THEN NoProc ELSE holder
    /\ acked' = IF pc[p] = "done" THEN acked \cup {op[p]} ELSE acked
    /\ Goto(p, "idle") /\ op' = [op EXCEPT ![p] = NoUpdate]
    /\ loaded' = [loaded EXCEPT ![p] = {}]
    /\ UNCHANGED <<writes, disk, begun, crashes>>

(* The lock is released and the caller told how it went. *)
Unlock(p) ==
    /\ pc[p] \in {"done", "fail"}
    /\ holder' = NoProc
    /\ acked' = IF pc[p] = "done" THEN acked \cup {op[p]} ELSE acked
    /\ Goto(p, "idle") /\ op' = [op EXCEPT ![p] = NoUpdate]
    /\ loaded' = [loaded EXCEPT ![p] = {}]
    /\ UNCHANGED <<writes, disk, begun, crashes>>

Step(p) ==
    \/ \E u \in Updates : Begin(p, u)
    \/ Lock(p) \/ Load(p) \/ LoadEnds(p)
    \/ Create(p) \/ Write(p) \/ Sync(p) \/ Rename(p) \/ SyncDir(p)
    \/ WriteFails(p) \/ SyncDirFails(p) \/ Unlock(p)
----------------------------------------------------------------------------
(* The system drops the lock of a process that dies; its temporary file    *)
(* stays.                                                                  *)
Crash(p) ==
    /\ crashes < MaxCrashes /\ pc[p] # "idle"
    /\ crashes' = crashes + 1
    /\ holder' = IF holder = p THEN NoProc ELSE holder
    /\ Goto(p, "idle") /\ op' = [op EXCEPT ![p] = NoUpdate]
    /\ loaded' = [loaded EXCEPT ![p] = {}] /\ writes' = [writes EXCEPT ![p] = 0]
    /\ UNCHANGED <<disk, begun, acked>>

PowerLoss ==
    /\ crashes < MaxCrashes
    /\ crashes' = crashes + 1
    /\ holder' = NoProc
    /\ pc' = [p \in Procs |-> "idle"] /\ op' = [p \in Procs |-> NoUpdate]
    /\ loaded' = [p \in Procs |-> {}] /\ writes' = [p \in Procs |-> 0]
    /\ \E f \in entries : visible' = [f EXCEPT !.whole = f.whole /\ f.synced, !.synced = TRUE]
    /\ entries' = {visible'}
    /\ temps' \in {temps, <<>>}
    /\ UNCHANGED <<begun, acked>>

Next == (\E p \in Procs : Step(p) \/ Crash(p)) \/ PowerLoss

(* A process that has begun an update goes on, and the lock is given to    *)
(* one that waits for it; nobody has to begin an update.                   *)
Continue(p) == Step(p) /\ pc[p] # "idle"

SafetySpec == Init /\ [][Next]_vars
Spec == SafetySpec /\ \A p \in Procs : WF_vars(Continue(p))
----------------------------------------------------------------------------
TypeOK ==
    /\ holder \in Procs \cup {NoProc}
    /\ pc \in [Procs -> {"idle", "lock", "load", "create", "write", "sync", "rename",
                         "syncdir", "done", "fail"}]
    /\ op \in [Procs -> Updates \cup {NoUpdate}]
    /\ \A p \in Procs : pc[p] # "idle" => op[p] # NoUpdate
    /\ loaded \in [Procs -> SUBSET Updates] /\ writes \in [Procs -> Nat]
    /\ DOMAIN temps \subseteq Procs \X Nat /\ temps \in [DOMAIN temps -> File]
    /\ visible \in File /\ entries \subseteq File
    /\ begun \subseteq Updates /\ acked \subseteq Updates
    /\ crashes \in 0..MaxCrashes

(* Whoever reads the file, with or without the lock, now or after a loss   *)
(* of power, reads a complete one (write_temp_and_rename).                 *)
NeverTorn == visible.whole /\ \A f \in entries : f.whole /\ f.synced

(* An update that was reported as saved is in the file and stays there,    *)
(* whoever updates it later, crashes or loses power (with_exclusive_lock,  *)
(* atomic_write).                                                          *)
SavedStays == acked \subseteq visible.data /\ \A f \in entries : acked \subseteq f.data

(* Every update that was begun ends, although its predecessor may have     *)
(* died with the lock (with_exclusive_lock).                               *)
UpdatesEnd == \A p \in Procs : pc[p] = "lock" ~> pc[p] = "idle"

(* The file does what AtomicStore promises.  What a loss of power cannot   *)
(* undo is what every file the directory may come back to has.             *)
Abstract == INSTANCE AtomicStore WITH
    contents <- visible.data,
    safe     <- {u \in visible.data : \A f \in entries : u \in f.data},
    saved    <- acked

AtomicUpdates == Abstract!Spec
=============================================================================
