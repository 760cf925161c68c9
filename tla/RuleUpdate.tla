----------------------------- MODULE RuleUpdate -----------------------------
(***************************************************************************)
(* Installing rule bundles (src/rule_update.rs, the resolution of the      *)
(* traits directory in src/traits_repo.rs, and the choice of the channel   *)
(* in src/enriched.rs).                                                    *)
(*                                                                         *)
(* Several processes, each with several threads, update the same data      *)
(* directory.  Each channel has an installed tree, a staging tree and a    *)
(* backup next to it, and a lock file that is held from the moment the     *)
(* bundle is verified to the end of the swap, unless the file system has   *)
(* no locks: then the update goes on without.  Downloads fail and are      *)
(* retried, tokens are refused, disks fail and processes crash.            *)
(*                                                                         *)
(* A bundle is a channel and a version; a tree is the parts of bundles it  *)
(* holds and the bundle its sidecar names.                                 *)
(***************************************************************************)
EXTENDS Integers, FiniteSets

CONSTANTS
    Updaters,    \* threads that install or refresh rules
    Processes,
    ProcOf,      \* the process of each thread
    Insisting,   \* processes that were started with --uplink
    Holding,     \* those that hold a token, and so start on the enriched channel
    Calls,       \* what each thread calls: "refresh", "ensure", "pin"
    LockModes,   \* whether the file system may have locks, may have none, or both
    Checkouts,   \* channels whose directory is a git checkout at the start
    Preinstalled, \* channels that have their first bundle installed at the start
    None,
    Attempts,    \* ATTEMPTS of a download
    Entries,     \* number of entries in a bundle
    MaxVersion,  \* bound: versions of the bundles
    Publishing,  \* bound: channels that publish new versions meanwhile
    Runs,        \* bound: updates begun
    MaxFaults    \* bound: crashes, disk errors and failed downloads

Channels == {"oss", "enriched"}
Parts == 1..Entries
Bundles == [channel : Channels, version : 1..MaxVersion]
Trees == [files : SUBSET (Bundles \X Parts),
          side : Bundles \cup {None},
          git : BOOLEAN]

ASSUME UpdateAssumption ==
    /\ ProcOf \in [Updaters -> Processes]
    /\ Calls \in [Updaters -> SUBSET {"refresh", "ensure", "pin"}]
    /\ Insisting \subseteq Processes
    /\ Holding \subseteq Processes
    /\ LockModes \subseteq BOOLEAN
    /\ Checkouts \subseteq Channels
    /\ Preinstalled \subseteq Channels \ Checkouts
    /\ Publishing \subseteq Channels
    /\ {Attempts, Entries, MaxVersion} \subseteq Nat \ {0}
    /\ {Runs, MaxFaults} \subseteq Nat
    /\ None \notin Trees \cup Bundles \cup Updaters

VARIABLES
    published,  \* the version each channel's manifest points at
    dir,        \* the installed tree of each channel
    backup,     \* .traits-backup
    staging,    \* .traits-staging
    locking,    \* the file system has locks, chosen once
    lock,       \* who holds the lock file of each channel
    enabled,    \* ENABLED of each process: the enriched channel is in use
    op,         \* "refresh", "ensure", "pin"
    pc,
    target,     \* the channel whose directory the update installs into
    key,        \* the bundle the manifest resolved to
    attempt,    \* of the download under way
    entry,      \* the entry of the bundle to unpack next
    succeeded,  \* the last update of a thread returned Ok
    had,        \* ghost: channels that have had a complete installed tree
    pinned,     \* ghost: channels where a pin has replaced what was there
    overlapped, \* ghost: channels where two installs have been under way at once
    overtaken,  \* ghost: a process has left the channel an update had chosen
    budget      \* runs begun and faults that have happened

disk == <<dir, backup, staging>>
ghosts == <<had, pinned, overlapped>>
vars == <<published, disk, locking, lock, enabled, op, pc, target, key, attempt, entry,
          succeeded, ghosts, overtaken, budget>>

Empty == [files |-> {}, side |-> None, git |-> FALSE]
Checkout == [Empty EXCEPT !.git = TRUE]

\* The parts of a bundle, and a tree that has all of those its sidecar claims.
PartsOf(b) == {b} \X Parts
FirstBundle(c) == [channel |-> c, version |-> 1]
FirstTree(c) == [files |-> PartsOf(FirstBundle(c)), side |-> FirstBundle(c), git |-> FALSE]
Complete(t) == t # None /\ t.side # None /\ PartsOf(t.side) \subseteq t.files

\* installed, is_git_managed, has_traits
Installed(c) == IF dir[c] = None THEN None ELSE dir[c].side
GitManaged(c) == dir[c] # None /\ dir[c].git
HasTraits(c) == dir[c] # None /\ (dir[c].git \/ dir[c].files # {})

\* install_target and default_traits_dir follow the channel in use.
Target(u) == IF enabled[ProcOf[u]] THEN "enriched" ELSE "oss"

\* An update from the lock to the end of the swap, and whether one is at work
\* in u's directory besides u.
InSection == {"clear", "unpack", "mark", "drop", "retire", "install", "tidy"}
Crowded(u) == \E v \in Updaters \ {u} : pc[v] \in InSection /\ target[v] = target[u]

\* Every variable has its type; no download is tried more than ATTEMPTS times.
TypeOK ==
    /\ published \in [Channels -> 1..MaxVersion]
    /\ {dir, backup, staging} \subseteq [Channels -> Trees \cup {None}]
    /\ lock \in [Channels -> Updaters \cup {None}]
    /\ locking \in LockModes
    /\ enabled \in [Processes -> BOOLEAN]
    /\ op \in [Updaters -> {"none", "refresh", "ensure", "pin"}]
    /\ pc \in [Updaters -> {"idle", "start", "manifest", "check", "bundle", "lock"}
                            \cup InSection]
    /\ target \in [Updaters -> Channels]
    /\ key \in [Updaters -> Bundles \cup {None}]
    /\ attempt \in [Updaters -> 0..Attempts]
    /\ entry \in [Updaters -> Parts]
    /\ succeeded \in [Updaters -> BOOLEAN]
    /\ {had, pinned, overlapped} \subseteq SUBSET Channels
    /\ overtaken \in BOOLEAN
    /\ budget \in [runs : 0..Runs, faults : 0..MaxFaults]

Init ==
    /\ published = [c \in Channels |-> 1]
    /\ dir = [c \in Channels |-> IF c \in Checkouts THEN Checkout
                                 ELSE IF c \in Preinstalled THEN FirstTree(c) ELSE None]
    /\ backup = [c \in Channels |-> None]
    /\ staging = [c \in Channels |-> None]
    /\ lock = [c \in Channels |-> None]
    /\ locking \in LockModes
    /\ enabled = [p \in Processes |-> p \in Holding \cup Insisting]
    /\ op = [u \in Updaters |-> "none"]
    /\ pc = [u \in Updaters |-> "idle"]
    /\ target = [u \in Updaters |-> Target(u)]
    /\ key = [u \in Updaters |-> None]
    /\ attempt = [u \in Updaters |-> 0]
    /\ entry = [u \in Updaters |-> 1]
    /\ succeeded = [u \in Updaters |-> FALSE]
    /\ had = Preinstalled
    /\ pinned = {}
    /\ overlapped = {}
    /\ overtaken = FALSE
    /\ budget = [runs |-> 0, faults |-> 0]

Goto(u, l) == pc' = [pc EXCEPT ![u] = l]

\* A fault of the environment; the model allows MaxFaults of them.
Fault ==
    /\ budget.faults < MaxFaults
    /\ budget' = [budget EXCEPT !.faults = @ + 1]

\* A fault, or an error that another install in the same directory causes.
Slip(u) == Fault \/ (target[u] \in overlapped /\ UNCHANGED budget)

\* The lock file is closed when install returns, or when the process dies.
Unlock(u) == lock' = [c \in Channels |-> IF lock[c] = u THEN None ELSE lock[c]]

\* An update returns to its caller.
Return(u, ok) ==
    /\ Goto(u, "idle")
    /\ op' = [op EXCEPT ![u] = "none"]
    /\ key' = [key EXCEPT ![u] = None]
    /\ attempt' = [attempt EXCEPT ![u] = 0]
    /\ succeeded' = [succeeded EXCEPT ![u] = ok]

\* Other threads of the process that have chosen the enriched directory and not
\* yet asked for its manifest.
Overtakes(u) ==
    \E v \in Updaters \ {u} :
        /\ ProcOf[v] = ProcOf[u]
        /\ pc[v] \in {"start", "manifest"} /\ target[v] = "enriched"

\* Mutant: the fallback retries in the directory it started with.
FallBackInPlace(u) ==
    /\ enabled' = [enabled EXCEPT ![ProcOf[u]] = FALSE]
    /\ overtaken' = (overtaken \/ Overtakes(u))
    /\ Goto(u, "start")
    /\ key' = [key EXCEPT ![u] = None]
    /\ attempt' = [attempt EXCEPT ![u] = 0]
    /\ UNCHANGED <<op, target, succeeded>>

\* enriched::fall_back, for all threads of the process, and the second update:
\* its target moves along.
FallBack(u) ==
    /\ enabled' = [enabled EXCEPT ![ProcOf[u]] = FALSE]
    /\ overtaken' = (overtaken \/ Overtakes(u))
    /\ target' = [target EXCEPT ![u] = "oss"]
    /\ Goto(u, "start")
    /\ key' = [key EXCEPT ![u] = None]
    /\ attempt' = [attempt EXCEPT ![u] = 0]
    /\ UNCHANGED <<op, succeeded>>

\* refresh falls back when the token is refused, ensure_data_dir on any error.
MayFallBack(u, refused) ==
    /\ ProcOf[u] \notin Insisting
    /\ \/ op[u] = "refresh" /\ refused
       \/ op[u] = "ensure" /\ enabled[ProcOf[u]]

\* Mutant: an error path that keeps the lock.
FailLocked(u, refused) ==
    /\ IF MayFallBack(u, refused)
       THEN FallBack(u)
       ELSE Return(u, FALSE) /\ UNCHANGED <<enabled, overtaken, target>>
    /\ UNCHANGED <<locking, lock, entry>>

\* An error of the update: the lock goes, and the caller falls back or reports.
Fail(u, refused) ==
    /\ IF MayFallBack(u, refused)
       THEN FallBack(u)
       ELSE Return(u, FALSE) /\ UNCHANGED <<enabled, overtaken, target>>
    /\ Unlock(u)
    /\ UNCHANGED <<locking, entry>>

-----------------------------------------------------------------------------
(* The beginning of an update, and the manifest.                           *)

\* What the steps before the lock leave alone.
before == <<published, disk, locking, lock, enabled, entry, ghosts, overtaken>>

\* refresh, ensure_data_dir or pin is called.
Begin(u) ==
    /\ op[u] = "none" /\ budget.runs < Runs
    /\ budget' = [budget EXCEPT !.runs = @ + 1]
    /\ \E o \in Calls[u] : op' = [op EXCEPT ![u] = o]
    /\ target' = [target EXCEPT ![u] = Target(u)]
    /\ Goto(u, "start")
    /\ UNCHANGED <<before, key, attempt, succeeded>>

\* Mutant: a checkout is updated like an installed tree.
LeftAloneNot(u) == op[u] = "ensure" /\ HasTraits(target[u])

\* ensure_data_dir uses a tree that has traits, and update leaves a checkout
\* alone; pin looks at neither.
LeftAlone(u) ==
    \/ op[u] = "ensure" /\ HasTraits(target[u])
    \/ op[u] # "pin" /\ GitManaged(target[u])

Start(u) ==
    /\ pc[u] = "start"
    /\ IF LeftAlone(u)
       THEN Return(u, TRUE)
       ELSE /\ Goto(u, "manifest")
            /\ attempt' = [attempt EXCEPT ![u] = 1]
            /\ UNCHANGED <<op, key, succeeded>>
    /\ UNCHANGED <<before, target, budget>>

\* fetch_manifest and resolve, of the channel in use by now; pin may name any
\* published bundle.
ManifestOk(u) ==
    /\ pc[u] = "manifest"
    /\ \E v \in 1..published[Target(u)] :
          /\ op[u] = "pin" \/ v = published[Target(u)]
          /\ key' = [key EXCEPT ![u] = [channel |-> Target(u), version |-> v]]
    /\ Goto(u, "check")
    /\ UNCHANGED <<before, op, target, attempt, succeeded, budget>>

\* The Worker answers a token it does not honour with the public manifest.
Refused(u) ==
    /\ pc[u] = "manifest" /\ enabled[ProcOf[u]]
    /\ Fail(u, TRUE)
    /\ UNCHANGED <<published, disk, ghosts, budget>>

\* download: a transport error or a 5xx is asked again, ATTEMPTS times in all.
Retry(u) ==
    /\ pc[u] \in {"manifest", "bundle"} /\ attempt[u] < Attempts
    /\ Fault
    /\ attempt' = [attempt EXCEPT ![u] = @ + 1]
    /\ UNCHANGED <<before, op, pc, target, key, succeeded>>

\* The last attempt fails, the bundle is not published (404), or its sha256 is
\* not the manifest's.
DownloadFails(u) ==
    /\ pc[u] \in {"manifest", "bundle"}
    /\ Fault
    /\ Fail(u, FALSE)
    /\ UNCHANGED <<published, disk, ghosts>>

\* Already up to date (unless forced, which refresh may be), or install.
Check(u) ==
    /\ pc[u] = "check"
    /\ \/ /\ op[u] # "pin" /\ Installed(target[u]) = key[u]
          /\ Return(u, TRUE)
       \/ /\ op[u] = "ensure" => Installed(target[u]) # key[u]
          /\ Goto(u, "bundle")
          /\ attempt' = [attempt EXCEPT ![u] = 1]
          /\ UNCHANGED <<op, key, succeeded>>
    /\ UNCHANGED <<before, target, budget>>

-----------------------------------------------------------------------------
(* install, with the bytes of the bundle in memory.                        *)

\* What the update keeps between the manifest and its end, and what the steps
\* of an installation leave alone besides.
Self == <<op, target, key, attempt, succeeded>>
steady == <<published, locking, lock, enabled, Self, overtaken>>

BundleOk(u) ==
    /\ pc[u] = "bundle"
    /\ Goto(u, "lock")
    /\ UNCHANGED <<before, Self, budget>>

\* Mutant: the lock is not taken where there are locks.
LockSkipped(u) ==
    /\ pc[u] = "lock"
    /\ overlapped' = IF Crowded(u) THEN overlapped \cup {target[u]} ELSE overlapped
    /\ Goto(u, "clear")
    /\ UNCHANGED <<steady, disk, entry, had, pinned, budget>>

\* Without locks (ErrorKind::Unsupported) the installation goes on all the same.
Lock(u) ==
    /\ pc[u] = "lock"
    /\ IF locking
       THEN /\ lock[target[u]] = None
            /\ lock' = [lock EXCEPT ![target[u]] = u]
       ELSE UNCHANGED lock
    /\ overlapped' = IF Crowded(u) THEN overlapped \cup {target[u]} ELSE overlapped
    /\ Goto(u, "clear")
    /\ UNCHANGED <<published, disk, locking, enabled, Self, entry, had, pinned, overtaken,
                   budget>>

\* remove_any drops its errors: a removal that fails, or that a crash cuts short,
\* leaves some of the tree.
Remains(t) ==
    IF t = None THEN {None}
    ELSE {[t EXCEPT !.files = fs] : fs \in SUBSET t.files}

\* Mutant: what an interrupted update left behind is removed first.
ClearLeftovers(u) ==
    /\ pc[u] = "clear"
    /\ staging' = [staging EXCEPT ![target[u]] = Empty]
    /\ backup' = [backup EXCEPT ![target[u]] = None]
    /\ entry' = [entry EXCEPT ![u] = 1]
    /\ Goto(u, "unpack")
    /\ UNCHANGED <<steady, dir, ghosts, budget>>

\* What it could not remove of the staging tree is unpacked into.
Clear(u) ==
    /\ pc[u] = "clear"
    /\ \/ staging' = [staging EXCEPT ![target[u]] = Empty] /\ UNCHANGED budget
       \/ /\ staging[target[u]] # None /\ Fault
          /\ \E s \in Remains(staging[target[u]]) :
                staging' = [staging EXCEPT ![target[u]] = s]
    /\ entry' = [entry EXCEPT ![u] = 1]
    /\ Goto(u, "unpack")
    /\ UNCHANGED <<steady, dir, backup, ghosts>>

\* What is unpacked under the staging path creates it.
Staged(u) == IF staging[target[u]] = None THEN Empty ELSE staging[target[u]]

\* The entries of the bundle, one after the other.
Unpack(u) ==
    /\ pc[u] = "unpack"
    /\ staging' = [staging EXCEPT ![target[u]] =
                      [Staged(u) EXCEPT !.files = @ \cup {<<key[u], entry[u]>>}]]
    /\ IF entry[u] < Entries
       THEN entry' = [entry EXCEPT ![u] = @ + 1] /\ UNCHANGED pc
       ELSE Goto(u, "mark") /\ UNCHANGED entry
    /\ UNCHANGED <<steady, dir, backup, ghosts, budget>>

\* The sidecar is written last.
Mark(u) ==
    /\ pc[u] = "mark" /\ staging[target[u]] # None
    /\ staging' = [staging EXCEPT ![target[u]].side = key[u]]
    /\ Goto(u, "drop")
    /\ UNCHANGED <<steady, dir, backup, entry, ghosts, budget>>

-----------------------------------------------------------------------------
(* swap_into_place.                                                        *)

\* remove_any of the backup: all of it, or with an error only some.
RemoveBackup(u) ==
    \/ backup' = [backup EXCEPT ![target[u]] = None] /\ UNCHANGED budget
    \/ /\ backup[target[u]] # None /\ Fault
       /\ \E b \in Remains(backup[target[u]]) :
             backup' = [backup EXCEPT ![target[u]] = b]

DropBackup(u) ==
    /\ pc[u] = "drop"
    /\ RemoveBackup(u)
    /\ Goto(u, "retire")
    /\ UNCHANGED <<steady, dir, staging, entry, ghosts>>

\* A tree cannot be renamed onto what is left of a backup, nor a sidecar written
\* where another install has taken the staging tree away.
Blocked(u) ==
    /\ \/ pc[u] = "retire" /\ dir[target[u]] # None /\ backup[target[u]] # None
       \/ pc[u] = "mark" /\ staging[target[u]] = None
    /\ Fail(u, FALSE)
    /\ UNCHANGED <<published, disk, ghosts, budget>>

\* The old tree, a checkout too, becomes the backup.
Retire(u) ==
    /\ pc[u] = "retire"
    /\ dir[target[u]] = None \/ backup[target[u]] = None
    /\ dir[target[u]] # None =>
          backup' = [backup EXCEPT ![target[u]] = dir[target[u]]]
    /\ dir[target[u]] = None => UNCHANGED backup
    /\ dir' = [dir EXCEPT ![target[u]] = None]
    /\ pinned' = IF op[u] = "pin" THEN pinned \cup {target[u]} ELSE pinned
    /\ Goto(u, "install")
    /\ UNCHANGED <<steady, staging, entry, had, overlapped, budget>>

\* The staging tree can be renamed: it is there, and nothing is in its way.
Free(u) == staging[target[u]] # None /\ dir[target[u]] = None

Install(u) ==
    /\ pc[u] = "install" /\ Free(u)
    /\ dir' = [dir EXCEPT ![target[u]] = staging[target[u]]]
    /\ staging' = [staging EXCEPT ![target[u]] = None]
    /\ had' = IF Complete(dir'[target[u]]) THEN had \cup {target[u]} ELSE had
    /\ Goto(u, "tidy")
    /\ UNCHANGED <<steady, backup, entry, pinned, overlapped, budget>>

\* The rename fails: the backup is put back, unless another tree is there.
InstallFails(u) ==
    /\ pc[u] = "install"
    /\ IF Free(u) THEN Slip(u) ELSE UNCHANGED budget
    /\ IF backup[target[u]] # None /\ dir[target[u]] = None
       THEN /\ dir' = [dir EXCEPT ![target[u]] = backup[target[u]]]
            /\ backup' = [backup EXCEPT ![target[u]] = None]
       ELSE UNCHANGED <<dir, backup>>
    /\ Fail(u, FALSE)
    /\ UNCHANGED <<published, staging, ghosts>>

\* The backup cannot be put back either, and stays where it is.
RestoreFails(u) ==
    /\ pc[u] = "install"
    /\ backup[target[u]] # None
    /\ budget.faults + 2 <= MaxFaults
    /\ budget' = [budget EXCEPT !.faults = @ + 2]
    /\ Fail(u, FALSE)
    /\ UNCHANGED <<published, disk, ghosts>>

\* Opening, unpacking, writing or backing up fails.
DiskFails(u) ==
    /\ pc[u] \in {"lock", "clear", "unpack", "mark", "retire"}
    /\ Slip(u)
    /\ Fail(u, FALSE)
    /\ UNCHANGED <<published, disk, ghosts>>

\* The backup is removed, the lock released, and the rules compiled.
Tidy(u) ==
    /\ pc[u] = "tidy"
    /\ RemoveBackup(u)
    /\ Unlock(u)
    /\ Return(u, TRUE)
    /\ UNCHANGED <<published, dir, staging, locking, enabled, target, entry, ghosts,
                   overtaken>>

-----------------------------------------------------------------------------

Threads(p) == {u \in Updaters : ProcOf[u] = p}

\* What a crash may leave of a tree that threads of the process were removing.
CutShort(p, places, at, c) ==
    IF \E u \in Threads(p) : pc[u] \in at /\ target[u] = c
    THEN Remains(places[c]) ELSE {places[c]}

\* The process dies, with all its threads.  A new one may take its place.
Crash(p) ==
    /\ \E u \in Threads(p) : op[u] # "none"
    /\ Fault
    /\ lock' = [c \in Channels |-> IF lock[c] \in Threads(p) THEN None ELSE lock[c]]
    /\ enabled' = [enabled EXCEPT ![p] = p \in Holding \cup Insisting]
    /\ op' = [u \in Updaters |-> IF u \in Threads(p) THEN "none" ELSE op[u]]
    /\ pc' = [u \in Updaters |-> IF u \in Threads(p) THEN "idle" ELSE pc[u]]
    /\ key' = [u \in Updaters |-> IF u \in Threads(p) THEN None ELSE key[u]]
    /\ attempt' = [u \in Updaters |-> IF u \in Threads(p) THEN 0 ELSE attempt[u]]
    /\ succeeded' = [u \in Updaters |-> u \notin Threads(p) /\ succeeded[u]]
    /\ target' = [u \in Updaters |-> IF u \notin Threads(p) THEN target[u]
                                     ELSE IF enabled'[p] THEN "enriched" ELSE "oss"]
    /\ \E s1 \in CutShort(p, staging, {"clear"}, "oss"),
          s2 \in CutShort(p, staging, {"clear"}, "enriched") :
          staging' = [c \in Channels |-> IF c = "oss" THEN s1 ELSE s2]
    /\ \E b1 \in CutShort(p, backup, {"drop", "tidy"}, "oss"),
          b2 \in CutShort(p, backup, {"drop", "tidy"}, "enriched") :
          backup' = [c \in Channels |-> IF c = "oss" THEN b1 ELSE b2]
    /\ UNCHANGED <<published, dir, locking, entry, ghosts, overtaken>>

\* A channel publishes a new version.
Publish ==
    /\ \E c \in Publishing :
          /\ published[c] < MaxVersion
          /\ published' = [published EXCEPT ![c] = @ + 1]
    /\ UNCHANGED <<disk, locking, lock, enabled, Self, pc, entry, ghosts, overtaken, budget>>

Work(u) ==
    \/ Start(u) \/ ManifestOk(u) \/ Check(u) \/ BundleOk(u) \/ Lock(u) \/ Clear(u)
    \/ Unpack(u) \/ Mark(u) \/ DropBackup(u) \/ Blocked(u) \/ Retire(u)
    \/ Install(u) \/ InstallFails(u) \/ Tidy(u)

Next ==
    \/ \E u \in Updaters :
          \/ Begin(u) \/ Work(u) \/ Refused(u) \/ Retry(u) \/ DownloadFails(u)
          \/ RestoreFails(u) \/ DiskFails(u)
    \/ \E p \in Processes : Crash(p)
    \/ Publish

Spec == Init /\ [][Next]_vars

\* A thread that runs makes progress.  Nobody has to begin an update, and no
\* fault has to happen.
FairSpec == Spec /\ \A u \in Updaters : WF_vars(Work(u))

-----------------------------------------------------------------------------
(* Properties.                                                             *)

\* install, "Held until the swap is done": where the file system has locks, two
\* installs never share a staging path.  Where it has none they may: the code
\* installs all the same, and then promises nothing of the directory any more.
\* Until that happens, a tree in place whose sidecar names a bundle has every
\* file of that bundle, whoever crashes or runs out of disk.  It takes three
\* faults to break it: a crash between the two renames, a removal that leaves
\* half of the only backup, and an install that fails and puts that half back.
NoPartialTree ==
    /\ locking => overlapped = {}
    /\ budget.faults <= 2 =>
          \A c \in Channels \ overlapped : Installed(c) # None => Complete(dir[c])

\* swap_into_place: after one complete install, one crash or one failed step
\* always leaves a complete tree on the disk, installed, staged or backed up,
\* unless installs have overlapped without a lock.
CopySurvives ==
    \A c \in had \ overlapped :
        budget.faults <= 1 => \E t \in {dir[c], backup[c], staging[c]} : Complete(t)

\* traits_repo, "the open-source tree is never overwritten by, or mistaken for,
\* the paid one": the directory oss never holds an enriched bundle.
OssHoldsOss == Installed("oss") # None => Installed("oss").channel = "oss"

\* "The directory name is the channel": not so of the directory enriched.  It
\* gets the bundle of the other channel when a thread falls back for the whole
\* process while another one has chosen the directory and not yet read the
\* channel for the manifest.  Without that, a fallback in the middle of an
\* update included, it holds what it is named for.
DirectoryNamesChannel ==
    ~overtaken => \A c \in Channels : Installed(c) # None => Installed(c).channel = c

\* enriched: a process that was started with --uplink and whose update succeeds
\* has not been moved to the open-source rules.
NeverQuietDowngrade ==
    \A u \in Updaters : ProcOf[u] \in Insisting /\ succeeded[u] => target[u] = "enriched"

ChannelsKept == OssHoldsOss /\ DirectoryNamesChannel /\ NeverQuietDowngrade

\* is_git_managed, "a dev tree we must never overwrite": pin does overwrite it,
\* without a look.  Nothing else does, whatever falls back, fails, crashes or
\* runs without a lock: a checkout stays until the first pin replaces it.
CheckoutGoesByPin == \A c \in Checkouts \ pinned : dir[c] = Checkout

\* Every update ends, also when another one crashed with the lock, and when two
\* take each other's trees away: Runs updates are begun, and all of them end.
EveryUpdateEnds == []<>(\A u \in Updaters : op[u] = "none")
=============================================================================
