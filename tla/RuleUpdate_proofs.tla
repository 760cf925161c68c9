------------------------- MODULE RuleUpdate_proofs --------------------------
(***************************************************************************)
(* Proofs about the installation of rule bundles: for any number of        *)
(* processes, threads, versions, updates and faults, and on file systems   *)
(* with locks and without.                                                 *)
(***************************************************************************)
EXTENDS RuleUpdate, TLAPS

\* Where an update has a bundle to install, and where it has looked at its
\* directory.
Keyed == {"check", "bundle", "lock"} \cup InSection
Going == {"manifest"} \cup Keyed
Pcs == {"idle", "start"} \cup Going
Places == Trees \cup {None}
Ops == {"none", "refresh", "ensure", "pin"}
Budgets == [runs : 0..Runs, faults : 0..MaxFaults]

Types ==
    /\ published \in [Channels -> 1..MaxVersion]
    /\ dir \in [Channels -> Places]
    /\ backup \in [Channels -> Places]
    /\ staging \in [Channels -> Places]
    /\ locking \in LockModes
    /\ lock \in [Channels -> Updaters \cup {None}]
    /\ enabled \in [Processes -> BOOLEAN]
    /\ op \in [Updaters -> Ops]
    /\ pc \in [Updaters -> Pcs]
    /\ target \in [Updaters -> Channels]
    /\ key \in [Updaters -> Bundles \cup {None}]
    /\ attempt \in [Updaters -> 0..Attempts]
    /\ entry \in [Updaters -> Parts]
    /\ succeeded \in [Updaters -> BOOLEAN]
    /\ had \subseteq Channels
    /\ pinned \subseteq Channels
    /\ overlapped \subseteq Channels
    /\ overtaken \in BOOLEAN
    /\ budget \in Budgets

LEMMA Basics ==
  /\ Channels = {"oss", "enriched"}
  /\ \A u \in Updaters : Target(u) \in Channels /\ ProcOf[u] \in Processes
  /\ Empty \in Trees /\ Empty.files = {} /\ Empty.side = None
  /\ Checkout \in Trees /\ Checkout.side = None /\ Checkout.git = TRUE
  /\ \A c \in Channels : FirstBundle(c) \in Bundles /\ FirstTree(c) \in Trees
  /\ None \notin Trees /\ None \notin Bundles /\ None \notin Updaters
<1>1. 1 \in 1..MaxVersion
  BY UpdateAssumption
<1>2. \A c \in Channels : FirstBundle(c) \in Bundles
  BY <1>1 DEF FirstBundle, Bundles
<1>3. \A c \in Channels : FirstTree(c) \in Trees
  BY <1>2 DEF FirstTree, Trees, PartsOf
<1>4. Empty \in Trees /\ Checkout \in Trees
  BY DEF Empty, Checkout, Trees
<1>5. QED
  BY <1>2, <1>3, <1>4, UpdateAssumption DEF Channels, Target, Empty, Checkout

\* What is left of a tree after a removal that failed.
LEMMA RemainsFacts ==
  ASSUME NEW t \in Places, NEW r \in Remains(t)
  PROVE  /\ r \in Places
         /\ t = None <=> r = None
         /\ t # None => r.side = t.side /\ r.files \subseteq t.files
<1>1. CASE t = None
  BY <1>1 DEF Remains, Places
<1>2. CASE t # None
  <2>1. t \in Trees
    BY <1>2 DEF Places
  <2>2. PICK fs \in SUBSET t.files : r = [t EXCEPT !.files = fs]
    BY <1>2 DEF Remains
  <2>3. t.files \subseteq Bundles \X Parts
    BY <2>1 DEF Trees
  <2>4. r \in Trees /\ r.side = t.side /\ r.files = fs
    BY <2>1, <2>2, <2>3 DEF Trees
  <2>5. QED
    BY <1>2, <2>2, <2>4, Basics DEF Places
<1>3. QED
  BY <1>1, <1>2

LEMMA FaultTypes ==
  ASSUME Types, Fault
  PROVE  budget' \in Budgets /\ budget'.faults = budget.faults + 1
<1>1. budget \in Budgets /\ MaxFaults \in Nat
  BY UpdateAssumption DEF Types
<1>2. budget.faults \in 0..MaxFaults /\ budget.faults + 1 \in 0..MaxFaults
  BY <1>1 DEF Fault, Budgets
<1>3. QED
  BY <1>1, <1>2 DEF Fault, Budgets

\* An error is a fault, unless installs have overlapped in the directory.
LEMMA SlipTypes ==
  ASSUME Types, NEW u \in Updaters, Slip(u)
  PROVE  /\ budget' \in Budgets
         /\ target[u] \notin overlapped => budget'.faults = budget.faults + 1
         /\ budget'.faults \in {budget.faults, budget.faults + 1}
BY FaultTypes DEF Types, Slip

\* A return, with its lock given back or not.
LEMMA ReturnFacts ==
  ASSUME Types, NEW u \in Updaters, NEW ok \in BOOLEAN, Return(u, ok)
  PROVE  /\ pc' = [pc EXCEPT ![u] = "idle"]
         /\ op' = [op EXCEPT ![u] = "none"]
         /\ key' = [key EXCEPT ![u] = None]
         /\ pc' \in [Updaters -> Pcs]
         /\ op' \in [Updaters -> Ops]
         /\ key' \in [Updaters -> Bundles \cup {None}]
         /\ attempt' \in [Updaters -> 0..Attempts]
         /\ succeeded' \in [Updaters -> BOOLEAN]
<1>1. 0 \in 0..Attempts
  BY UpdateAssumption
<1>2. QED
  BY <1>1 DEF Types, Return, Goto, Pcs, Ops

\* The channel in use stays, or one process leaves the enriched one.
ChannelMoves(u) ==
    \/ enabled' = enabled /\ overtaken' = overtaken
    \/ /\ ProcOf[u] \notin Insisting
       /\ enabled' = [enabled EXCEPT ![ProcOf[u]] = FALSE]
       /\ overtaken' = (overtaken \/ Overtakes(u))

\* A failure: the lock goes, and the update ends or starts over on the open
\* source channel.
LEMMA FailFacts ==
  ASSUME Types, NEW u \in Updaters, NEW r \in BOOLEAN, Fail(u, r)
  PROVE  /\ enabled' \in [Processes -> BOOLEAN]
         /\ overtaken' \in BOOLEAN
         /\ op' \in [Updaters -> Ops]
         /\ pc' \in [Updaters -> Pcs]
         /\ target' \in [Updaters -> Channels]
         /\ key' \in [Updaters -> Bundles \cup {None}]
         /\ attempt' \in [Updaters -> 0..Attempts]
         /\ succeeded' \in [Updaters -> BOOLEAN]
         /\ locking' = locking /\ entry' = entry
         /\ lock' = [c \in Channels |-> IF lock[c] = u THEN None ELSE lock[c]]
         /\ pc'[u] \in {"idle", "start"} /\ (op'[u] = "none" => pc'[u] = "idle")
         /\ ChannelMoves(u)
         /\ \/ target' = target /\ enabled' = enabled /\ op'[u] = "none"
            \/ /\ target' = [target EXCEPT ![u] = "oss"] /\ ProcOf[u] \notin Insisting
               /\ enabled' = [enabled EXCEPT ![ProcOf[u]] = FALSE]
         /\ \A v \in Updaters : v # u => /\ pc'[v] = pc[v] /\ op'[v] = op[v]
                                         /\ key'[v] = key[v] /\ target'[v] = target[v]
<1>0. /\ lock' = [c \in Channels |-> IF lock[c] = u THEN None ELSE lock[c]]
      /\ locking' = locking /\ entry' = entry /\ ProcOf[u] \in Processes
  BY Basics DEF Fail, Unlock
<1>1. CASE MayFallBack(u, r)
  <2>1. /\ ProcOf[u] \notin Insisting /\ 0 \in 0..Attempts /\ "oss" \in Channels
        /\ op[u] # "none"
    BY <1>1, UpdateAssumption DEF MayFallBack, Channels
  <2>2. /\ enabled' = [enabled EXCEPT ![ProcOf[u]] = FALSE]
        /\ overtaken' = (overtaken \/ Overtakes(u))
        /\ target' = [target EXCEPT ![u] = "oss"]
        /\ pc' = [pc EXCEPT ![u] = "start"]
        /\ key' = [key EXCEPT ![u] = None]
        /\ attempt' = [attempt EXCEPT ![u] = 0]
        /\ op' = op /\ succeeded' = succeeded
    BY <1>1 DEF Fail, FallBack, Goto
  <2>3. /\ pc' \in [Updaters -> Pcs] /\ pc'[u] = "start"
        /\ enabled' \in [Processes -> BOOLEAN]
        /\ target' \in [Updaters -> Channels]
        /\ key' \in [Updaters -> Bundles \cup {None}]
        /\ attempt' \in [Updaters -> 0..Attempts]
    BY <1>0, <2>1, <2>2 DEF Types, Pcs
  <2>4. \A v \in Updaters : v # u => /\ pc'[v] = pc[v] /\ op'[v] = op[v]
                                    /\ key'[v] = key[v] /\ target'[v] = target[v]
    BY <2>2 DEF Types
  <2>5. overtaken' \in BOOLEAN
    BY <2>2 DEF Types
  <2>6. ChannelMoves(u)
    BY <2>1, <2>2 DEF ChannelMoves
  <2>7. QED
    BY <1>0, <2>1, <2>2, <2>3, <2>4, <2>5, <2>6 DEF Types
<1>2. CASE ~MayFallBack(u, r)
  <2>1. /\ Return(u, FALSE) /\ enabled' = enabled /\ target' = target
        /\ overtaken' = overtaken
    BY <1>2 DEF Fail
  <2>2. /\ pc' = [pc EXCEPT ![u] = "idle"]
        /\ op' = [op EXCEPT ![u] = "none"]
        /\ key' = [key EXCEPT ![u] = None]
        /\ pc' \in [Updaters -> Pcs]
        /\ op' \in [Updaters -> Ops]
        /\ key' \in [Updaters -> Bundles \cup {None}]
        /\ attempt' \in [Updaters -> 0..Attempts]
        /\ succeeded' \in [Updaters -> BOOLEAN]
    BY <2>1, ReturnFacts
  <2>3. /\ pc'[u] = "idle" /\ op'[u] = "none"
        /\ \A v \in Updaters : v # u => /\ pc'[v] = pc[v]
                                        /\ op'[v] = op[v] /\ key'[v] = key[v]
    BY <2>2 DEF Types
  <2>4. ChannelMoves(u)
    BY <2>1 DEF ChannelMoves
  <2>5. QED
    BY <1>0, <2>1, <2>2, <2>3, <2>4 DEF Types
<1>3. QED
  BY <1>1, <1>2

-----------------------------------------------------------------------------
(* Types.                                                                  *)

LEMMA TypesInit == Init => Types
<1> SUFFICES ASSUME Init PROVE Types
  OBVIOUS
<1>1. 1 \in 1..MaxVersion /\ 0 \in 0..Attempts /\ 0 \in 0..Runs /\ 0 \in 0..MaxFaults
        /\ 1 \in Parts
  BY UpdateAssumption DEF Parts
<1>2. \A c \in Channels : dir[c] \in Places
  BY Basics DEF Init, Places
<1>3. dir \in [Channels -> Places]
  BY <1>2 DEF Init
<1>4. backup \in [Channels -> Places] /\ staging \in [Channels -> Places]
  BY DEF Init, Places
<1>5. target \in [Updaters -> Channels]
  BY Basics DEF Init
<1>6. had \subseteq Channels
  BY UpdateAssumption DEF Init
<1>7. enabled \in [Processes -> BOOLEAN] /\ overtaken \in BOOLEAN
        /\ succeeded \in [Updaters -> BOOLEAN]
  <2>1. enabled \in [Processes -> BOOLEAN]
    BY DEF Init
  <2>2. overtaken \in BOOLEAN /\ succeeded \in [Updaters -> BOOLEAN]
    BY DEF Init
  <2>3. QED
    BY <2>1, <2>2
<1>8. budget \in Budgets /\ op \in [Updaters -> Ops] /\ pc \in [Updaters -> Pcs]
  <2>1. budget = [runs |-> 0, faults |-> 0]
    BY DEF Init
  <2>2. budget \in Budgets
    BY <1>1, <2>1 DEF Budgets
  <2>3. QED
    BY <2>2 DEF Init, Ops, Pcs
<1>9. /\ published \in [Channels -> 1..MaxVersion] /\ attempt \in [Updaters -> 0..Attempts]
      /\ entry \in [Updaters -> Parts] /\ key \in [Updaters -> Bundles \cup {None}]
      /\ lock \in [Channels -> Updaters \cup {None}]
  BY <1>1 DEF Init
<1>10. QED
  BY <1>3, <1>4, <1>5, <1>6, <1>7, <1>8, <1>9 DEF Types, Init

LEMMA BeginTypes ==
  ASSUME Types, NEW u \in Updaters, Begin(u)
  PROVE  Types'
<1>1. budget' \in Budgets
  <2>1. budget \in Budgets /\ Runs \in Nat
    BY UpdateAssumption DEF Types
  <2>2. budget.runs + 1 \in 0..Runs /\ budget' = [budget EXCEPT !.runs = @ + 1]
    BY <2>1 DEF Begin, Budgets
  <2>3. QED
    BY <2>1, <2>2 DEF Budgets
<1>2. target' \in [Updaters -> Channels]
  BY Basics DEF Types, Begin
<1>3. op' \in [Updaters -> Ops]
  <2>1. PICK o \in Calls[u] : op' = [op EXCEPT ![u] = o]
    BY DEF Begin
  <2>2. Calls[u] \subseteq {"refresh", "ensure", "pin"}
    BY UpdateAssumption
  <2>3. o \in Ops
    BY <2>2 DEF Ops
  <2>4. QED
    BY <2>1, <2>3 DEF Types
<1>4. pc' \in [Updaters -> Pcs]
  BY DEF Types, Begin, Goto, Pcs
<1>5. QED
  BY <1>1, <1>2, <1>3, <1>4 DEF Types, Begin, before, disk, ghosts

LEMMA StartTypes ==
  ASSUME Types, NEW u \in Updaters, Start(u)
  PROVE  Types'
<1>1. CASE LeftAlone(u)
  <2>1. Return(u, TRUE)
    BY <1>1 DEF Start
  <2>2. QED
    BY <2>1, ReturnFacts DEF Types, Start, before, disk, ghosts
<1>2. CASE ~LeftAlone(u)
  <2>1. 1 \in 0..Attempts
    BY UpdateAssumption
  <2>2. attempt' = [attempt EXCEPT ![u] = 1] /\ pc' = [pc EXCEPT ![u] = "manifest"]
    BY <1>2 DEF Start, Goto
  <2>3. attempt' \in [Updaters -> 0..Attempts] /\ pc' \in [Updaters -> Pcs]
    BY <2>1, <2>2 DEF Types, Pcs, Going
  <2>4. QED
    BY <1>2, <2>3 DEF Types, Start, before, disk, ghosts
<1>3. QED
  BY <1>1, <1>2

LEMMA ManifestTypes ==
  ASSUME Types, NEW u \in Updaters, ManifestOk(u)
  PROVE  /\ Types'
         /\ \E b \in Bundles : b.channel = Target(u) /\ key' = [key EXCEPT ![u] = b]
<1>1. PICK v \in 1..published[Target(u)] :
        key' = [key EXCEPT ![u] = [channel |-> Target(u), version |-> v]]
  BY DEF ManifestOk
<1>2. v \in 1..MaxVersion
  <2>1. published[Target(u)] \in 1..MaxVersion /\ MaxVersion \in Nat
    BY Basics, UpdateAssumption DEF Types
  <2>2. QED
    BY <1>1, <2>1
<1>3. [channel |-> Target(u), version |-> v] \in Bundles
  BY <1>2, Basics DEF Bundles
<1>4. key' \in [Updaters -> Bundles \cup {None}]
  BY <1>1, <1>3 DEF Types
<1>5. pc' \in [Updaters -> Pcs]
  BY DEF Types, ManifestOk, Goto, Pcs, Going, Keyed
<1>6. QED
  BY <1>1, <1>3, <1>4, <1>5 DEF Types, ManifestOk, before, disk, ghosts

LEMMA FailTypes ==
  ASSUME Types, NEW u \in Updaters, NEW r \in BOOLEAN, Fail(u, r), budget' \in Budgets,
         dir' \in [Channels -> Places], backup' \in [Channels -> Places],
         staging' \in [Channels -> Places], UNCHANGED <<published, ghosts>>
  PROVE  Types'
<1>1. lock' \in [Channels -> Updaters \cup {None}]
  BY FailFacts DEF Types
<1>2. QED
  BY <1>1, FailFacts DEF Types, ghosts

LEMMA DiskStays ==
  ASSUME Types, UNCHANGED disk
  PROVE  /\ dir' \in [Channels -> Places] /\ backup' \in [Channels -> Places]
         /\ staging' \in [Channels -> Places]
BY DEF Types, disk

LEMMA FailingTypes ==
  ASSUME Types, NEW u \in Updaters,
         \/ Refused(u) \/ DownloadFails(u) \/ DiskFails(u) \/ RestoreFails(u)
         \/ Blocked(u)
  PROVE  Types'
<1>1. CASE Refused(u)
  BY <1>1, FailTypes, DiskStays DEF Refused, Types
<1>2. CASE DownloadFails(u)
  BY <1>2, FailTypes, DiskStays, FaultTypes DEF DownloadFails
<1>3. CASE DiskFails(u)
  BY <1>3, FailTypes, DiskStays, SlipTypes DEF DiskFails
<1>4. CASE RestoreFails(u)
  <2>1. budget \in Budgets /\ MaxFaults \in Nat
    BY UpdateAssumption DEF Types
  <2>2. /\ budget.faults + 2 \in 0..MaxFaults
        /\ budget' = [budget EXCEPT !.faults = @ + 2]
    BY <1>4, <2>1 DEF RestoreFails, Budgets
  <2>3. budget' \in Budgets
    BY <2>1, <2>2 DEF Budgets
  <2>4. QED
    BY <1>4, <2>3, FailTypes, DiskStays DEF RestoreFails
<1>5. CASE Blocked(u)
  BY <1>5, FailTypes, DiskStays DEF Blocked, Types
<1>6. QED
  BY <1>1, <1>2, <1>3, <1>4, <1>5

LEMMA CheckTypes ==
  ASSUME Types, NEW u \in Updaters, Check(u)
  PROVE  Types'
<1>1. CASE Return(u, TRUE)
  BY <1>1, ReturnFacts DEF Types, Check, before, disk, ghosts
<1>2. CASE /\ pc' = [pc EXCEPT ![u] = "bundle"] /\ attempt' = [attempt EXCEPT ![u] = 1]
           /\ UNCHANGED <<op, key, succeeded>>
  <2>1. 1 \in 0..Attempts
    BY UpdateAssumption
  <2>2. attempt' \in [Updaters -> 0..Attempts] /\ pc' \in [Updaters -> Pcs]
    BY <1>2, <2>1 DEF Types, Pcs, Going, Keyed
  <2>3. QED
    BY <1>2, <2>2 DEF Types, Check, before, disk, ghosts
<1>3. QED
  BY <1>1, <1>2 DEF Check, Goto

LEMMA RetryTypes ==
  ASSUME Types, NEW u \in Updaters, Retry(u)
  PROVE  Types'
<1>1. attempt[u] \in 0..Attempts /\ Attempts \in Nat /\ attempt[u] < Attempts
  BY UpdateAssumption DEF Types, Retry
<1>2. attempt' \in [Updaters -> 0..Attempts]
  BY <1>1 DEF Types, Retry
<1>3. QED
  BY <1>2, FaultTypes DEF Types, Retry, before, disk, ghosts

LEMMA BundleLockTypes ==
  ASSUME Types, NEW u \in Updaters, BundleOk(u) \/ Lock(u)
  PROVE  Types'
<1>1. pc' \in [Updaters -> Pcs]
  BY DEF Types, BundleOk, Lock, Goto, Pcs, Going, Keyed, InSection
<1>2. CASE BundleOk(u)
  BY <1>1, <1>2 DEF Types, BundleOk, before, disk, ghosts, Self
<1>3. CASE Lock(u)
  <2>1. lock' \in [Channels -> Updaters \cup {None}]
    BY <1>3 DEF Types, Lock
  <2>2. overlapped' \subseteq Channels
    BY <1>3 DEF Types, Lock
  <2>3. QED
    BY <1>1, <1>3, <2>1, <2>2 DEF Types, Lock, disk, Self
<1>4. QED
  BY <1>2, <1>3

\* What each step of an installation does to the trees of its directory.
LEMMA PlaceUpdates ==
  ASSUME NEW F \in [Channels -> Places], NEW c \in Channels, NEW x \in Places
  PROVE  /\ [F EXCEPT ![c] = x] \in [Channels -> Places]
         /\ [F EXCEPT ![c] = x][c] = x
         /\ \A d \in Channels : d # c => [F EXCEPT ![c] = x][d] = F[d]
OBVIOUS

LEMMA ClearTypes ==
  ASSUME Types, NEW u \in Updaters, Clear(u)
  PROVE  /\ Types'
         /\ staging'[target[u]] = Empty \/ staging'[target[u]] \in Remains(staging[target[u]])
         /\ \A d \in Channels : d # target[u] => staging'[d] = staging[d]
         /\ budget'.faults = budget.faults \/ budget'.faults = budget.faults + 1
         /\ entry'[u] = 1 /\ \A v \in Updaters : v # u => entry'[v] = entry[v]
<1>0. target[u] \in Channels /\ staging \in [Channels -> Places]
        /\ staging[target[u]] \in Places /\ 1 \in Parts
  BY UpdateAssumption DEF Types, Parts
<1>1. /\ budget' \in Budgets
      /\ budget'.faults = budget.faults \/ budget'.faults = budget.faults + 1
  BY FaultTypes DEF Types, Clear
<1>2. PICK x : /\ x = Empty \/ x \in Remains(staging[target[u]])
               /\ staging' = [staging EXCEPT ![target[u]] = x]
  BY DEF Clear
<1>3. x \in Places
  BY <1>0, <1>2, RemainsFacts, Basics DEF Places
<1>4. pc' \in [Updaters -> Pcs]
  BY DEF Types, Clear, Goto, Pcs, Going, Keyed, InSection
<1>5. /\ staging' \in [Channels -> Places] /\ staging'[target[u]] = x
      /\ \A d \in Channels : d # target[u] => staging'[d] = staging[d]
  BY <1>0, <1>2, <1>3, PlaceUpdates
<1>6. /\ entry' \in [Updaters -> Parts] /\ entry'[u] = 1
      /\ \A v \in Updaters : v # u => entry'[v] = entry[v]
  BY <1>0 DEF Types, Clear
<1>7. Types'
  BY <1>1, <1>4, <1>5, <1>6 DEF Types, Clear, steady, ghosts, Self
<1>8. QED
  BY <1>1, <1>2, <1>5, <1>6, <1>7

LEMMA StagedFacts ==
  ASSUME Types, NEW u \in Updaters
  PROVE  /\ Staged(u) \in Trees
         /\ \/ Staged(u) = Empty
            \/ staging[target[u]] # None /\ Staged(u) = staging[target[u]]
<1>1. staging[target[u]] \in Places
  BY DEF Types
<1>2. QED
  BY <1>1, Basics DEF Staged, Places

\* An entry more of the bundle is in the staging tree.
LEMMA UnpackTypes ==
  ASSUME Types, NEW u \in Updaters, Unpack(u), key[u] \in Bundles
  PROVE  /\ Types'
         /\ staging'[target[u]] \in Trees
         /\ staging'[target[u]].files = Staged(u).files \cup {<<key[u], entry[u]>>}
         /\ staging'[target[u]].side = Staged(u).side
         /\ \A d \in Channels : d # target[u] => staging'[d] = staging[d]
         /\ \/ entry[u] = Entries /\ pc' = [pc EXCEPT ![u] = "mark"] /\ entry' = entry
            \/ pc' = pc /\ entry' = [entry EXCEPT ![u] = entry[u] + 1]
<1>0. target[u] \in Channels /\ staging \in [Channels -> Places] /\ entry[u] \in 1..Entries
        /\ Entries \in Nat \ {0}
  BY UpdateAssumption DEF Types, Parts
<1> DEFINE x == [Staged(u) EXCEPT !.files = @ \cup {<<key[u], entry[u]>>}]
<1>1. staging' = [staging EXCEPT ![target[u]] = x]
  BY DEF Unpack
<1>2. /\ x \in Trees /\ x.files = Staged(u).files \cup {<<key[u], entry[u]>>}
      /\ x.side = Staged(u).side
  BY <1>0, StagedFacts DEF Trees, Parts
<1>3. /\ staging' \in [Channels -> Places] /\ staging'[target[u]] = x
      /\ \A d \in Channels : d # target[u] => staging'[d] = staging[d]
  BY <1>0, <1>1, <1>2, PlaceUpdates DEF Places
<1>4. /\ \/ entry[u] = Entries /\ pc' = [pc EXCEPT ![u] = "mark"] /\ entry' = entry
         \/ /\ entry[u] < Entries /\ pc' = pc
            /\ entry' = [entry EXCEPT ![u] = entry[u] + 1]
  BY <1>0 DEF Unpack, Goto
<1>5. pc' \in [Updaters -> Pcs] /\ entry' \in [Updaters -> Parts]
  <2>1. CASE entry[u] = Entries /\ pc' = [pc EXCEPT ![u] = "mark"] /\ entry' = entry
    BY <2>1 DEF Types, Pcs, Going, Keyed, InSection
  <2>2. CASE /\ entry[u] < Entries /\ pc' = pc
             /\ entry' = [entry EXCEPT ![u] = entry[u] + 1]
    <3>1. entry[u] + 1 \in Parts
      BY <1>0, <2>2 DEF Parts
    <3>2. QED
      BY <2>2, <3>1 DEF Types
  <2>3. QED
    BY <1>4, <2>1, <2>2
<1>6. Types'
  BY <1>3, <1>5 DEF Types, Unpack, steady, ghosts, Self
<1>7. QED
  BY <1>2, <1>3, <1>4, <1>6

LEMMA MarkTypes ==
  ASSUME Types, NEW u \in Updaters, Mark(u), key[u] \in Bundles
  PROVE  /\ Types'
         /\ staging'[target[u]] \in Trees /\ staging'[target[u]].side = key[u]
         /\ staging'[target[u]].files = staging[target[u]].files
         /\ \A d \in Channels : d # target[u] => staging'[d] = staging[d]
<1>0. target[u] \in Channels /\ staging \in [Channels -> Places]
        /\ staging[target[u]] \in Trees
  BY DEF Types, Mark, Places
<1> DEFINE x == [staging[target[u]] EXCEPT !.side = key[u]]
<1>1. staging' = [staging EXCEPT ![target[u]] = x]
  BY <1>0 DEF Mark
<1>2. x \in Trees /\ x.side = key[u] /\ x.files = staging[target[u]].files
  BY <1>0 DEF Trees
<1>3. staging' \in [Channels -> Places] /\ staging'[target[u]] = x
        /\ \A d \in Channels : d # target[u] => staging'[d] = staging[d]
  BY <1>0, <1>1, <1>2, PlaceUpdates DEF Places
<1>4. pc' \in [Updaters -> Pcs]
  BY DEF Types, Mark, Goto, Pcs, Going, Keyed, InSection
<1>5. QED
  BY <1>2, <1>3, <1>4 DEF Types, Mark, steady, ghosts, Self

\* The backup is gone, or a fault has left some of it.
LEMMA RemoveTypes ==
  ASSUME Types, NEW u \in Updaters, RemoveBackup(u)
  PROVE  /\ backup' \in [Channels -> Places]
         /\ budget' \in Budgets
         /\ \A d \in Channels : d # target[u] => backup'[d] = backup[d]
         /\ \/ backup'[target[u]] = None /\ budget' = budget
            \/ /\ budget'.faults = budget.faults + 1 /\ backup[target[u]] # None
               /\ backup'[target[u]] \in Remains(backup[target[u]])
<1>0. target[u] \in Channels /\ backup \in [Channels -> Places]
        /\ backup[target[u]] \in Places /\ None \in Places
  BY DEF Types, Places
<1>1. CASE backup' = [backup EXCEPT ![target[u]] = None] /\ UNCHANGED budget
  BY <1>0, <1>1, PlaceUpdates DEF Types
<1>2. CASE /\ backup[target[u]] # None /\ Fault
           /\ \E b \in Remains(backup[target[u]]) :
                 backup' = [backup EXCEPT ![target[u]] = b]
  <2>1. PICK b \in Remains(backup[target[u]]) :
               backup' = [backup EXCEPT ![target[u]] = b]
    BY <1>2
  <2>2. b \in Places
    BY <1>0, RemainsFacts
  <2>3. QED
    BY <1>0, <1>2, <2>1, <2>2, PlaceUpdates, FaultTypes
<1>3. QED
  BY <1>1, <1>2 DEF RemoveBackup

LEMMA DropTypes ==
  ASSUME Types, NEW u \in Updaters, DropBackup(u)
  PROVE  Types'
<1>1. pc' \in [Updaters -> Pcs]
  BY DEF Types, DropBackup, Goto, Pcs, Going, Keyed, InSection
<1>2. QED
  BY <1>1, RemoveTypes DEF Types, DropBackup, steady, ghosts, Self

LEMMA TidyTypes ==
  ASSUME Types, NEW u \in Updaters, Tidy(u)
  PROVE  Types'
<1>1. lock' \in [Channels -> Updaters \cup {None}]
  BY DEF Types, Tidy, Unlock
<1>2. QED
  BY <1>1, RemoveTypes, ReturnFacts DEF Types, Tidy, ghosts

LEMMA RetireTypes ==
  ASSUME Types, NEW u \in Updaters, Retire(u)
  PROVE  /\ Types'
         /\ dir'[target[u]] = None
         /\ backup'[target[u]] = IF dir[target[u]] = None THEN backup[target[u]]
                                 ELSE dir[target[u]]
         /\ \A d \in Channels : d # target[u] => dir'[d] = dir[d] /\ backup'[d] = backup[d]
<1>0. target[u] \in Channels /\ backup \in [Channels -> Places] /\ None \in Places
        /\ dir \in [Channels -> Places] /\ dir[target[u]] \in Places
  BY DEF Types, Places
<1>1. dir' \in [Channels -> Places] /\ dir'[target[u]] = None
        /\ \A d \in Channels : d # target[u] => dir'[d] = dir[d]
  BY <1>0, PlaceUpdates DEF Retire
<1>2. /\ backup' \in [Channels -> Places]
      /\ backup'[target[u]] = IF dir[target[u]] = None THEN backup[target[u]]
                              ELSE dir[target[u]]
      /\ \A d \in Channels : d # target[u] => backup'[d] = backup[d]
  BY <1>0, PlaceUpdates DEF Retire
<1>3. pc' \in [Updaters -> Pcs] /\ pinned' \subseteq Channels
  BY <1>0 DEF Types, Retire, Goto, Pcs, Going, Keyed, InSection
<1>4. QED
  BY <1>1, <1>2, <1>3 DEF Types, Retire, steady, Self

LEMMA InstallTypes ==
  ASSUME Types, NEW u \in Updaters, Install(u)
  PROVE  /\ Types'
         /\ dir'[target[u]] = staging[target[u]] /\ staging'[target[u]] = None
         /\ \A d \in Channels : d # target[u] => dir'[d] = dir[d] /\ staging'[d] = staging[d]
<1>0. target[u] \in Channels /\ staging \in [Channels -> Places] /\ None \in Places
        /\ dir \in [Channels -> Places] /\ staging[target[u]] \in Places
  BY DEF Types, Places
<1>1. dir' \in [Channels -> Places] /\ dir'[target[u]] = staging[target[u]]
        /\ \A d \in Channels : d # target[u] => dir'[d] = dir[d]
  BY <1>0, PlaceUpdates DEF Install
<1>2. staging' \in [Channels -> Places] /\ staging'[target[u]] = None
        /\ \A d \in Channels : d # target[u] => staging'[d] = staging[d]
  BY <1>0, PlaceUpdates DEF Install
<1>3. pc' \in [Updaters -> Pcs] /\ had' \subseteq Channels
  BY <1>0 DEF Types, Install, Goto, Pcs, Going, Keyed, InSection
<1>4. QED
  BY <1>1, <1>2, <1>3 DEF Types, Install, steady, Self

LEMMA InstallFailsTypes ==
  ASSUME Types, NEW u \in Updaters, InstallFails(u)
  PROVE  /\ Types'
         /\ IF backup[target[u]] # None /\ dir[target[u]] = None
            THEN dir'[target[u]] = backup[target[u]] /\ backup'[target[u]] = None
            ELSE UNCHANGED <<dir, backup>>
         /\ \A d \in Channels : d # target[u] => dir'[d] = dir[d] /\ backup'[d] = backup[d]
         /\ Free(u) /\ target[u] \notin overlapped => budget'.faults = budget.faults + 1
         /\ budget'.faults \in {budget.faults, budget.faults + 1}
<1>0. target[u] \in Channels /\ backup \in [Channels -> Places] /\ None \in Places
        /\ dir \in [Channels -> Places] /\ backup[target[u]] \in Places
  BY DEF Types, Places
<1>1. /\ budget' \in Budgets
      /\ Free(u) /\ target[u] \notin overlapped => budget'.faults = budget.faults + 1
      /\ budget'.faults \in {budget.faults, budget.faults + 1}
  BY SlipTypes DEF InstallFails, Types
<1>2. UNCHANGED <<published, staging, ghosts>> /\ Fail(u, FALSE)
  BY DEF InstallFails
<1>3. CASE ~(backup[target[u]] # None /\ dir[target[u]] = None)
  <2>1. UNCHANGED <<dir, backup>>
    BY <1>3 DEF InstallFails
  <2>2. Types'
    BY <1>0, <1>1, <1>2, <2>1, FailTypes DEF Types
  <2>3. QED
    BY <1>1, <1>3, <2>1, <2>2
<1>4. CASE backup[target[u]] # None /\ dir[target[u]] = None
  <2>1. /\ dir' \in [Channels -> Places] /\ dir'[target[u]] = backup[target[u]]
        /\ \A d \in Channels : d # target[u] => dir'[d] = dir[d]
    BY <1>0, <1>4, PlaceUpdates DEF InstallFails
  <2>2. /\ backup' \in [Channels -> Places] /\ backup'[target[u]] = None
        /\ \A d \in Channels : d # target[u] => backup'[d] = backup[d]
    BY <1>0, <1>4, PlaceUpdates DEF InstallFails
  <2>3. Types'
    BY <1>1, <1>2, <2>1, <2>2, FailTypes DEF Types
  <2>4. QED
    BY <1>1, <1>4, <2>1, <2>2, <2>3
<1>5. QED
  BY <1>3, <1>4

LEMMA CutShortFacts ==
  ASSUME Types, NEW p \in Processes, NEW F \in [Channels -> Places], NEW at,
         NEW c \in Channels, NEW t \in CutShort(p, F, at, c)
  PROVE  /\ t \in Places
         /\ t = None <=> F[c] = None
         /\ F[c] # None => t.side = F[c].side
         /\ t = F[c] \/ t \in Remains(F[c])
         /\ t # F[c] => \E u \in Threads(p) : pc[u] \in at /\ target[u] = c
<1>1. F[c] \in Places
  OBVIOUS
<1>2. CASE t \in Remains(F[c]) /\ \E u \in Threads(p) : pc[u] \in at /\ target[u] = c
  BY <1>1, <1>2, RemainsFacts
<1>3. CASE t = F[c]
  BY <1>1, <1>3
<1>4. QED
  BY <1>2, <1>3 DEF CutShort

LEMMA CrashTypes ==
  ASSUME Types, NEW p \in Processes, Crash(p)
  PROVE  /\ Types'
         /\ budget'.faults = budget.faults + 1
         /\ \A c \in Channels : /\ staging'[c] \in CutShort(p, staging, {"clear"}, c)
                                /\ backup'[c] \in CutShort(p, backup, {"drop", "tidy"}, c)
<1>1. \A c \in Channels : /\ staging'[c] \in CutShort(p, staging, {"clear"}, c)
                          /\ backup'[c] \in CutShort(p, backup, {"drop", "tidy"}, c)
  <2>1. PICK s1 \in CutShort(p, staging, {"clear"}, "oss"),
             s2 \in CutShort(p, staging, {"clear"}, "enriched") :
             staging' = [c \in Channels |-> IF c = "oss" THEN s1 ELSE s2]
    BY DEF Crash
  <2>2. PICK b1 \in CutShort(p, backup, {"drop", "tidy"}, "oss"),
             b2 \in CutShort(p, backup, {"drop", "tidy"}, "enriched") :
             backup' = [c \in Channels |-> IF c = "oss" THEN b1 ELSE b2]
    BY DEF Crash
  <2>3. \A c \in Channels : staging'[c] \in CutShort(p, staging, {"clear"}, c)
    BY <2>1, Basics
  <2>4. \A c \in Channels : backup'[c] \in CutShort(p, backup, {"drop", "tidy"}, c)
    BY <2>2, Basics
  <2>5. QED
    BY <2>3, <2>4
<1>2. /\ staging' \in [Channels -> Places] /\ backup' \in [Channels -> Places]
  <2>1. staging \in [Channels -> Places] /\ backup \in [Channels -> Places]
    BY DEF Types
  <2>2. \A c \in Channels : staging'[c] \in Places /\ backup'[c] \in Places
    BY <1>1, <2>1, CutShortFacts
  <2>3. PICK s1, s2 : staging' = [c \in Channels |-> IF c = "oss" THEN s1 ELSE s2]
    BY DEF Crash
  <2>4. PICK b1, b2 : backup' = [c \in Channels |-> IF c = "oss" THEN b1 ELSE b2]
    BY DEF Crash
  <2>5. QED
    BY <2>2, <2>3, <2>4
<1>3. budget' \in Budgets /\ budget'.faults = budget.faults + 1
  BY FaultTypes DEF Crash
<1>4. /\ lock' \in [Channels -> Updaters \cup {None}]
      /\ op' \in [Updaters -> Ops] /\ pc' \in [Updaters -> Pcs]
      /\ key' \in [Updaters -> Bundles \cup {None}]
  BY DEF Types, Crash, Ops, Pcs
<1>5. attempt' \in [Updaters -> 0..Attempts]
  <2>1. 0 \in 0..Attempts
    BY UpdateAssumption
  <2>2. QED
    BY <2>1 DEF Types, Crash
<1>6. enabled' \in [Processes -> BOOLEAN]
  <2> DEFINE b == p \in Holding \cup Insisting
  <2>1. b \in BOOLEAN /\ enabled' = [enabled EXCEPT ![p] = b]
    BY DEF Crash
  <2>2. enabled \in [Processes -> BOOLEAN]
    BY DEF Types
  <2> HIDE DEF b
  <2>3. QED
    BY <2>1, <2>2
<1>7. succeeded' \in [Updaters -> BOOLEAN]
  BY DEF Crash
<1>8. target' \in [Updaters -> Channels]
  BY Basics DEF Types, Crash
<1>9. Types'
  BY <1>2, <1>3, <1>4, <1>5, <1>6, <1>7, <1>8 DEF Types, Crash, ghosts
<1>10. QED
  BY <1>1, <1>3, <1>9

-----------------------------------------------------------------------------
(* The inductive invariant.                                                *)

\* A tree with a whole bundle under its sidecar, and one that may claim none.
Full(t, b) == t \in Trees /\ b \in Bundles /\ t.side = b /\ PartsOf(b) \subseteq t.files
Whole(t) == t # None /\ t.side # None => PartsOf(t.side) \subseteq t.files

\* A bundle that may be in a channel's directory, and a tree that claims no other.
Fits(b, c) ==
    /\ c = "oss" => b.channel = "oss"
    /\ ~overtaken => b.channel = c
Fitting(t, c) == t # None /\ t.side # None => Fits(t.side, c)

\* An update that is alone in its directory knows what is in the trees there.
Progress(u) ==
    /\ pc[u] = "unpack" =>
          \A i \in Parts : i < entry[u] => <<key[u], i>> \in Staged(u).files
    /\ pc[u] = "mark" => /\ staging[target[u]] # None
                         /\ PartsOf(key[u]) \subseteq staging[target[u]].files
    /\ pc[u] \in {"drop", "retire", "install"} => Full(staging[target[u]], key[u])
    /\ pc[u] = "install" => dir[target[u]] = None
    /\ pc[u] = "tidy" => Full(dir[target[u]], key[u])

\* What holds of an update: the channel it has chosen, the bundle it installs,
\* its lock, and that it spares a checkout.
Chosen(u) ==
    /\ ProcOf[u] \in Insisting => target[u] = "enriched"
    /\ op[u] = "none" => pc[u] = "idle"
    /\ op[u] # "none" /\ target[u] = "oss" => ~enabled[ProcOf[u]]
    /\ ~overtaken /\ pc[u] \in {"start", "manifest"} => target[u] = Target(u)

Mine(u) ==
    /\ Chosen(u)
    /\ pc[u] \in Keyed => key[u] \in Bundles /\ Fits(key[u], target[u])
    /\ locking /\ pc[u] \in InSection => lock[target[u]] = u
    /\ pc[u] \in Going /\ op[u] # "pin" => target[u] \notin Checkouts \ pinned
    /\ target[u] \notin overlapped => Progress(u)

\* What holds of all: the processes that insist stay where they are, installs
\* overlap only without locks, and what has not overlapped has one install.
Alone(c) ==
    \A u, v \in Updaters :
        /\ pc[u] \in InSection /\ target[u] = c
        /\ pc[v] \in InSection /\ target[v] = c
        => u = v

Common ==
    /\ \A p \in Insisting : enabled[p]
    /\ locking => overlapped = {}
    /\ \A c \in Channels \ overlapped : Alone(c)

\* What holds of a directory, whatever overlaps: the channels of its trees, and
\* that a checkout no pin has replaced is in place.
Names(c) == Fitting(dir[c], c) /\ Fitting(backup[c], c) /\ Fitting(staging[c], c)
Stands(c) == c \in Checkouts \ pinned => dir[c] = Checkout

\* An update between its two renames, or a fault, is the only reason for a
\* directory to be missing beside a backup; it takes two faults to spoil the
\* backup of a missing directory.
Installing(c) == \E u \in Updaters : pc[u] = "install" /\ target[u] = c
Swapping(c) == \E u \in Updaters : pc[u] \in {"retire", "install"} /\ target[u] = c

DiskOK(c) ==
    /\ budget.faults <= 2 => Whole(dir[c])
    /\ dir[c] = None /\ ~Whole(backup[c]) => budget.faults >= 2
    /\ dir[c] = None /\ backup[c] # None => budget.faults >= 1 \/ Installing(c)

\* Once complete, the tree or its backup is, unless an install is about to
\* replace both.
Kept(c) ==
    c \in had /\ budget.faults <= 1 =>
        /\ dir[c] # None => Complete(dir[c])
        /\ dir[c] = None /\ budget.faults = 0 => Installing(c) /\ Complete(backup[c])
        /\ dir[c] = None => Complete(backup[c]) \/ Swapping(c)

Sound(c) == DiskOK(c) /\ Kept(c)

Directory(c) == Names(c) /\ Stands(c) /\ (c \notin overlapped => Sound(c))

UpdateInv ==
    /\ Types
    /\ Common
    /\ \A u \in Updaters : Mine(u)
    /\ \A c \in Channels : Directory(c)

\* What a step of an update leaves alone: the other updates, the locks they
\* hold, the other directory, and outside the section also its own.  An install
\* that joins another one in its directory is on record.
Others(u) ==
    \A v \in Updaters : v # u =>
        /\ pc'[v] = pc[v] /\ op'[v] = op[v] /\ target'[v] = target[v]
        /\ key'[v] = key[v] /\ entry'[v] = entry[v]
Locks(u) ==
    /\ locking' = locking
    /\ \A c \in Channels : lock[c] \notin {u, None} => lock'[c] = lock[c]
Elsewhere(u) ==
    /\ \A c \in Channels : c # target[u] =>
          dir'[c] = dir[c] /\ backup'[c] = backup[c] /\ staging'[c] = staging[c]
    /\ pc[u] \notin InSection => dir' = dir /\ backup' = backup /\ staging' = staging
Records(u) ==
    /\ had' \subseteq had \cup {target[u]}
    /\ pinned \subseteq pinned'
    /\ overlapped \subseteq overlapped' /\ overlapped' \subseteq overlapped \cup {target[u]}
    /\ locking => overlapped' = overlapped
    /\ budget.faults <= budget'.faults
Enters(u) ==
    pc'[u] \in InSection =>
        /\ target'[u] = target[u]
        /\ pc[u] \in InSection \/ (Crowded(u) => target[u] \in overlapped')

Apart(u) ==
    Others(u) /\ Locks(u) /\ Elsewhere(u) /\ Records(u) /\ Enters(u) /\ ChannelMoves(u)

LEMMA FaultsNat == Types => budget.faults \in Nat
BY UpdateAssumption DEF Types, Budgets

LEMMA FaultsNatNext == Types' => budget'.faults \in Nat
BY UpdateAssumption DEF Types, Budgets

\* Whoever is in the section of a directory where nothing overlapped is alone.
LEMMA OneHolder ==
  ASSUME UpdateInv, NEW u \in Updaters, NEW v \in Updaters, u # v,
         pc[u] \in InSection, pc[v] \in InSection, target[u] \notin overlapped
  PROVE  target[u] # target[v]
BY DEF UpdateInv, Common, Alone, Types

\* What fits goes on to fit.
LEMMA FitsOn ==
  ASSUME UpdateInv, NEW b, NEW c \in Channels, Fits(b, c), overtaken => overtaken'
  PROVE  Fits(b, c)'
BY DEF Fits

LEMMA FittingOn ==
  ASSUME UpdateInv, NEW t, NEW c \in Channels, Fitting(t, c), overtaken => overtaken'
  PROVE  t # None /\ t.side # None => Fits(t.side, c)'
BY FitsOn DEF Fitting

\* An update whose own state and trees a step leaves as they are keeps its
\* progress.
LEMMA ProgressStays ==
  ASSUME NEW v \in Updaters, Progress(v), pc'[v] = pc[v], target'[v] = target[v],
         key'[v] = key[v], entry'[v] = entry[v],
         pc[v] \in InSection => /\ dir'[target[v]] = dir[target[v]]
                                /\ staging'[target[v]] = staging[target[v]]
  PROVE  Progress(v)'
<1>1. CASE pc[v] \in InSection
  <2>1. Staged(v)' = Staged(v)
    BY <1>1 DEF Staged
  <2>2. QED
    BY <1>1, <2>1 DEF Progress
<1>2. CASE pc[v] \notin InSection
  BY <1>2 DEF Progress, InSection
<1>3. QED
  BY <1>1, <1>2

\* The channel a thread has chosen, when another one moves its process.
LEMMA ChosenStays ==
  ASSUME UpdateInv, NEW u \in Updaters, NEW v \in Updaters, u # v,
         Others(u), ChannelMoves(u)
  PROVE  Chosen(v)' /\ (overtaken => overtaken')
<1>1. /\ pc'[v] = pc[v] /\ op'[v] = op[v] /\ target'[v] = target[v]
      /\ Chosen(v) /\ Types /\ ProcOf[v] \in Processes /\ ProcOf[u] \in Processes
      /\ target[v] \in Channels
  BY Basics DEF UpdateInv, Mine, Others, Types
<1>2. CASE enabled' = enabled /\ overtaken' = overtaken
  BY <1>1, <1>2 DEF Chosen, Target
<1>3. CASE /\ enabled' = [enabled EXCEPT ![ProcOf[u]] = FALSE]
           /\ overtaken' = (overtaken \/ Overtakes(u))
  <2>1. \A p \in Processes : enabled'[p] => enabled[p]
    BY <1>1, <1>3 DEF Types
  <2>2. ASSUME ~overtaken', pc'[v] \in {"start", "manifest"}
        PROVE  target'[v] = Target(v)'
    <3>1. ~overtaken /\ ~Overtakes(u)
      BY <1>3, <2>2
    <3>2. target[v] = Target(v)
      BY <1>1, <2>2, <3>1 DEF Chosen
    <3>3. CASE ProcOf[v] # ProcOf[u]
      BY <1>1, <1>3, <3>2, <3>3 DEF Types, Target
    <3>4. CASE ProcOf[v] = ProcOf[u]
      <4>1. target[v] # "enriched"
        BY <1>1, <2>2, <3>1, <3>4 DEF Overtakes
      <4>2. target[v] = "oss"
        BY <1>1, <4>1, Basics
      <4>3. ~enabled'[ProcOf[v]]
        BY <1>1, <1>3, <3>4 DEF Types
      <4>4. QED
        BY <1>1, <4>2, <4>3 DEF Target
    <3>5. QED
      BY <3>3, <3>4
  <2>3. op'[v] # "none" /\ target'[v] = "oss" => ~enabled'[ProcOf[v]]
    BY <1>1, <2>1 DEF Chosen
  <2>4. QED
    BY <1>1, <1>3, <2>2, <2>3 DEF Chosen
<1>4. QED
  BY <1>2, <1>3 DEF ChannelMoves

LEMMA ApartOthers ==
  ASSUME UpdateInv, NEW u \in Updaters, NEW v \in Updaters, u # v, Apart(u)
  PROVE  Mine(v)'
<1>1. /\ pc'[v] = pc[v] /\ op'[v] = op[v] /\ target'[v] = target[v]
      /\ key'[v] = key[v] /\ entry'[v] = entry[v]
  BY DEF Apart, Others
<1>2. Mine(v) /\ target[v] \in Channels /\ Types /\ target[u] \in Channels
  BY DEF UpdateInv, Types
<1>3. Chosen(v)' /\ (overtaken => overtaken')
  BY ChosenStays DEF Apart
<1>4. pc'[v] \in Keyed => key'[v] \in Bundles /\ Fits(key[v], target[v])'
  BY <1>1, <1>2, <1>3, FitsOn DEF Mine
<1>5. ASSUME locking', pc'[v] \in InSection PROVE lock'[target'[v]] = v
  <2>1. lock[target[v]] = v
    BY <1>1, <1>2, <1>5 DEF Mine, Apart, Locks
  <2>2. QED
    BY <1>1, <1>2, <2>1, Basics DEF Apart, Locks
<1>6. pc'[v] \in Going /\ op'[v] # "pin" => target'[v] \notin Checkouts \ pinned'
  BY <1>1, <1>2 DEF Mine, Apart, Records
<1>7. ASSUME target'[v] \notin overlapped' PROVE Progress(v)'
  <2>1. target[v] \notin overlapped /\ Progress(v)
    BY <1>1, <1>2, <1>7 DEF Mine, Apart, Records
  <2>2. ASSUME pc[v] \in InSection
        PROVE  dir'[target[v]] = dir[target[v]] /\ staging'[target[v]] = staging[target[v]]
    <3>1. CASE pc[u] \in InSection
      BY <1>2, <2>1, <2>2, <3>1, OneHolder DEF Apart, Elsewhere
    <3>2. CASE pc[u] \notin InSection
      BY <3>2 DEF Apart, Elsewhere
    <3>3. QED
      BY <3>1, <3>2
  <2>3. QED
    BY <1>1, <2>1, <2>2, ProgressStays
<1>8. (Fits(key[v], target[v]))' = Fits(key[v], target[v])'
  OBVIOUS
<1>9. QED
  BY <1>1, <1>3, <1>4, <1>5, <1>6, <1>7 DEF Mine

\* Nobody comes unseen into a directory where an install is under way.
LEMMA ApartCommon ==
  ASSUME UpdateInv, NEW u \in Updaters, Apart(u)
  PROVE  Common'
<1>1. Common /\ Types
  BY DEF UpdateInv
<1>2. \A p \in Insisting : enabled'[p]
  <2> SUFFICES ASSUME NEW p \in Insisting PROVE enabled'[p]
    OBVIOUS
  <2>1. enabled[p] /\ p \in Processes
    BY <1>1, UpdateAssumption DEF Common
  <2>2. QED
    BY <1>1, <2>1 DEF Apart, ChannelMoves, Types
<1>3. locking' => overlapped' = {}
  BY <1>1 DEF Common, Apart, Locks, Records
<1>4. ASSUME NEW c \in Channels \ overlapped', NEW v \in Updaters, NEW w \in Updaters,
             pc'[v] \in InSection, target'[v] = c, pc'[w] \in InSection, target'[w] = c,
             v # w
      PROVE  FALSE
  <2>1. c \notin overlapped /\ Alone(c)
    BY <1>1, <1>4 DEF Common, Apart, Records
  <2>2. ASSUME NEW x \in Updaters, x # u, pc'[x] \in InSection, target'[x] = c,
               pc'[u] \in InSection, target'[u] = c
        PROVE  FALSE
    <3>1. pc[x] \in InSection /\ target[x] = c
      BY <2>2 DEF Apart, Others
    <3>2. target[u] = c
      BY <2>2 DEF Apart, Enters
    <3>3. CASE pc[u] \in InSection
      BY <2>1, <2>2, <3>1, <3>2, <3>3 DEF Alone
    <3>4. CASE pc[u] \notin InSection
      <4>1. Crowded(u)
        BY <2>2, <3>1, <3>2 DEF Crowded
      <4>2. QED
        BY <1>4, <2>2, <3>2, <3>4, <4>1 DEF Apart, Enters
    <3>5. QED
      BY <3>3, <3>4
  <2>3. v # u /\ w # u
    BY <1>4, <2>2
  <2>4. /\ pc[v] \in InSection /\ target[v] = c
        /\ pc[w] \in InSection /\ target[w] = c
    BY <1>4, <2>3 DEF Apart, Others
  <2>5. QED
    BY <1>4, <2>1, <2>4 DEF Alone
<1>5. \A c \in Channels \ overlapped' : Alone(c)'
  BY <1>4 DEF Alone
<1>6. QED
  BY <1>2, <1>3, <1>5 DEF Common

\* The names in a directory whose trees a step leaves as they are.
LEMMA NamesStay ==
  ASSUME UpdateInv, NEW c \in Channels, overtaken => overtaken',
         dir'[c] = dir[c], backup'[c] = backup[c], staging'[c] = staging[c]
  PROVE  Names(c)'
<1>1. Names(c)
  BY DEF UpdateInv, Directory
<1>2. QED
  BY <1>1, FitsOn DEF Names, Fitting

\* The other directory.
LEMMA ApartFar ==
  ASSUME UpdateInv, Types', NEW u \in Updaters, NEW c \in Channels, c # target[u], Apart(u)
  PROVE  Directory(c)'
<1>1. dir'[c] = dir[c] /\ backup'[c] = backup[c] /\ staging'[c] = staging[c]
  BY DEF Apart, Elsewhere
<1>2. /\ budget.faults \in Nat /\ budget'.faults \in Nat
      /\ budget.faults <= budget'.faults
  BY FaultsNat, FaultsNatNext DEF Apart, Records, UpdateInv
<1>3. Installing(c) => Installing(c)'
  <2> SUFFICES ASSUME Installing(c) PROVE Installing(c)'
    OBVIOUS
  <2>1. PICK v \in Updaters : pc[v] = "install" /\ target[v] = c
    BY DEF Installing
  <2>2. QED
    BY <2>1 DEF Installing, Apart, Others
<1>4. Swapping(c) => Swapping(c)'
  <2> SUFFICES ASSUME Swapping(c) PROVE Swapping(c)'
    OBVIOUS
  <2>1. PICK v \in Updaters : pc[v] \in {"retire", "install"} /\ target[v] = c
    BY DEF Swapping
  <2>2. QED
    BY <2>1 DEF Swapping, Apart, Others
<1>5. Directory(c)
  BY DEF UpdateInv
<1>6. overtaken => overtaken'
  BY DEF Apart, ChannelMoves
<1>7. Names(c)'
  BY <1>1, <1>6, NamesStay
<1>8. Stands(c)'
  BY <1>1, <1>5 DEF Directory, Stands, Apart, Records
<1>9. ASSUME c \notin overlapped' PROVE Sound(c)'
  <2>1. DiskOK(c) /\ Kept(c)
    BY <1>5, <1>9 DEF Directory, Sound, Apart, Records
  <2>2. DiskOK(c)'
    BY <1>1, <1>2, <1>3, <2>1 DEF DiskOK, Whole
  <2>3. c \in had' => c \in had
    BY DEF Apart, Records
  <2>4. Kept(c)'
    BY <1>1, <1>2, <1>3, <1>4, <2>1, <2>3 DEF Kept, Complete
  <2>5. QED
    BY <2>2, <2>4 DEF Sound
<1>10. QED
  BY <1>7, <1>8, <1>9 DEF Directory

LEMMA StepTogether ==
  ASSUME UpdateInv, Types', NEW u \in Updaters, Apart(u), Mine(u)',
         \A c \in Channels : c = target[u] => Directory(c)'
  PROVE  UpdateInv'
<1>1. \A v \in Updaters : Mine(v)'
  BY ApartOthers
<1>2. \A c \in Channels : Directory(c)'
  BY ApartFar
<1>3. QED
  BY <1>1, <1>2, ApartCommon DEF UpdateInv

\* A step that leaves the disk as it is, and does not abandon an install but
\* by a fault or two.
LEMMA SameDirectory ==
  ASSUME UpdateInv, Types', NEW u \in Updaters, Apart(u),
         dir' = dir, backup' = backup, staging' = staging, had' = had,
         NEW c \in Channels, c = target[u],
         c \notin overlapped /\ pc[u] = "install" => budget'.faults >= 2,
         c \notin overlapped /\ pc[u] = "retire"
             => dir[c] # None \/ budget'.faults = budget.faults + 1
  PROVE  Directory(c)'
<1>1. /\ Directory(c) /\ budget.faults \in Nat /\ budget'.faults \in Nat
      /\ budget.faults <= budget'.faults
  BY FaultsNat, FaultsNatNext DEF UpdateInv, Apart, Records
<1>2. Installing(c) /\ c \notin overlapped => Installing(c)' \/ budget'.faults >= 2
  <2> SUFFICES ASSUME Installing(c), c \notin overlapped, ~(budget'.faults >= 2)
               PROVE  Installing(c)'
    OBVIOUS
  <2>1. PICK v \in Updaters : pc[v] = "install" /\ target[v] = c
    BY DEF Installing
  <2>2. v # u
    BY <2>1
  <2>3. QED
    BY <2>1, <2>2 DEF Installing, Apart, Others
<1>3. Names(c)'
  <2>1. overtaken => overtaken'
    BY DEF Apart, ChannelMoves
  <2>2. QED
    BY <2>1, NamesStay
<1>4. Stands(c)'
  BY <1>1 DEF Directory, Stands, Apart, Records
<1>5. ASSUME c \notin overlapped' PROVE Sound(c)'
  <2>0. c \notin overlapped /\ DiskOK(c) /\ Kept(c)
    BY <1>1, <1>5 DEF Directory, Sound, Apart, Records
  <2>1. DiskOK(c)'
    BY <1>1, <1>2, <2>0 DEF DiskOK, Whole
  <2>2. ASSUME c \in had, budget'.faults <= 1, dir[c] = None
        PROVE  Complete(backup[c]) \/ Swapping(c)'
    <3>1. budget.faults <= 1
      BY <1>1, <2>2
    <3>2. CASE Complete(backup[c])
      BY <3>2
    <3>3. CASE ~Complete(backup[c])
      <4>1. PICK v \in Updaters : pc[v] \in {"retire", "install"} /\ target[v] = c
        BY <2>0, <2>2, <3>1, <3>3 DEF Kept, Swapping
      <4>2. budget.faults # 0
        BY <2>0, <2>2, <3>1, <3>3 DEF Kept
      <4>3. budget'.faults = 1 /\ budget.faults = 1
        BY <1>1, <2>2, <4>2
      <4>4. v # u
        BY <2>0, <2>2, <4>1, <4>3
      <4>5. QED
        BY <4>1, <4>4 DEF Swapping, Apart, Others
    <3>4. QED
      BY <3>2, <3>3
  <2>3. Kept(c)'
    <3> SUFFICES ASSUME c \in had, budget'.faults <= 1
                 PROVE  /\ dir[c] # None => Complete(dir[c])
                        /\ dir[c] = None /\ budget'.faults = 0
                              => Installing(c)' /\ Complete(backup[c])
                        /\ dir[c] = None => Complete(backup[c]) \/ Swapping(c)'
      BY DEF Kept, Complete
    <3>1. budget.faults <= 1 /\ (budget'.faults = 0 => budget.faults = 0)
      BY <1>1
    <3>2. budget'.faults = 0 => ~(budget'.faults >= 2)
      OBVIOUS
    <3>3. QED
      BY <1>2, <2>0, <2>2, <3>1, <3>2 DEF Kept
  <2>4. QED
    BY <2>1, <2>3 DEF Sound
<1>6. QED
  BY <1>3, <1>4, <1>5 DEF Directory

-----------------------------------------------------------------------------
(* The steps, one by one.                                                  *)

LEMMA UpdateInvInit == Init => UpdateInv
<1> SUFFICES ASSUME Init PROVE UpdateInv
  OBVIOUS
<1>1. Types
  BY TypesInit
<1>2. ASSUME NEW u \in Updaters PROVE Mine(u)
  <2>1. pc[u] = "idle" /\ target[u] = Target(u) /\ op[u] = "none" /\ ProcOf[u] \in Processes
    BY <1>2, Basics DEF Init
  <2>2. ProcOf[u] \in Insisting => enabled[ProcOf[u]]
    BY <2>1 DEF Init
  <2>3. Chosen(u)
    BY <2>1, <2>2 DEF Chosen, Target
  <2>4. QED
    BY <2>1, <2>3 DEF Mine, Progress, Keyed, Going, InSection
<1>3. Common
  BY UpdateAssumption DEF Init, Common, Alone, InSection
<1>4. ASSUME NEW c \in Channels PROVE Directory(c)
  <2>1. /\ backup[c] = None /\ staging[c] = None /\ budget.faults = 0 /\ had = Preinstalled
        /\ pinned = {}
    BY <1>4 DEF Init
  <2>2. dir[c] = None \/ dir[c] = Checkout \/ dir[c] = FirstTree(c)
    BY <1>4 DEF Init
  <2>3. /\ c \in Preinstalled => dir[c] = FirstTree(c)
        /\ c \in Checkouts => dir[c] = Checkout
    BY <1>4, UpdateAssumption DEF Init
  <2>4. FirstTree(c) # None /\ FirstTree(c).side = FirstBundle(c) /\ FirstBundle(c) # None
          /\ FirstTree(c).files = PartsOf(FirstBundle(c)) /\ FirstBundle(c).channel = c
    BY <1>4, Basics DEF FirstTree, FirstBundle
  <2>5. Names(c)
    BY <2>1, <2>2, <2>4, Basics DEF Names, Fitting, Fits
  <2>6. DiskOK(c)
    BY <2>1, <2>2, <2>4, Basics DEF DiskOK, Whole
  <2>7. Kept(c)
    BY <2>1, <2>3, <2>4 DEF Kept, Complete
  <2>8. QED
    BY <2>1, <2>3, <2>5, <2>6, <2>7 DEF Directory, Sound, Stands
<1>5. QED
  BY <1>1, <1>2, <1>3, <1>4 DEF UpdateInv

\* Facts every step starts from.
LEMMA Before ==
  ASSUME UpdateInv, NEW u \in Updaters
  PROVE  /\ Types /\ Mine(u) /\ Chosen(u) /\ target[u] \in Channels
         /\ Directory(target[u])
         /\ pc[u] \in Pcs /\ budget.faults \in Nat /\ u # None
BY FaultsNat, Basics DEF UpdateInv, Types, Mine

\* A step that leaves the disk and the records as they are, and does not enter
\* the section.
LEMMA StillApart ==
  ASSUME UpdateInv, NEW u \in Updaters, Others(u), ChannelMoves(u), Locks(u),
         UNCHANGED <<dir, backup, staging, ghosts>>,
         budget.faults <= budget'.faults, pc'[u] \notin InSection
  PROVE  Apart(u)
BY DEF Apart, Elsewhere, Records, Enters, ghosts

\* What an update that has not entered the section has to keep.
LEMMA MineOutside ==
  ASSUME NEW u \in Updaters, Chosen(u)', pc'[u] \notin InSection,
         pc'[u] \in Keyed => key'[u] \in Bundles /\ Fits(key[u], target[u])',
         pc'[u] \in Going /\ op'[u] # "pin" => target'[u] \notin Checkouts \ pinned'
  PROVE  Mine(u)'
BY DEF Mine, Progress, InSection

\* The channel it has chosen, when it moves on.
LEMMA ChosenOn ==
  ASSUME UpdateInv, NEW u \in Updaters, UNCHANGED <<enabled, overtaken, target>>,
         op'[u] = "none" => pc'[u] = "idle", op'[u] # "none" => op[u] # "none",
         pc'[u] \in {"start", "manifest"} => pc[u] \in {"start", "manifest"}
  PROVE  Chosen(u)'
BY DEF UpdateInv, Mine, Chosen, Target

LEMMA BeginKeeps ==
  ASSUME UpdateInv, NEW u \in Updaters, Begin(u)
  PROVE  UpdateInv'
<1>1. Types' /\ Types /\ Chosen(u) /\ op[u] = "none" /\ pc[u] = "idle"
        /\ ProcOf[u] \in Processes
  BY Before, BeginTypes, Basics DEF Begin, Chosen
<1>2. budget'.faults = budget.faults
  BY <1>1 DEF Begin, Types, Budgets
<1>3. /\ pc' = [pc EXCEPT ![u] = "start"]
      /\ target' = [target EXCEPT ![u] = Target(u)]
      /\ UNCHANGED <<dir, backup, staging, lock, locking, enabled, overtaken, key, entry,
                     ghosts>>
  BY DEF Begin, Goto, before, disk
<1>4. PICK o \in Calls[u] : op' = [op EXCEPT ![u] = o]
  BY DEF Begin
<1>5. op'[u] # "none"
  BY <1>1, <1>4, UpdateAssumption DEF Types
<1>6. pc'[u] = "start" /\ target'[u] = Target(u)
  BY <1>1, <1>3 DEF Types
<1>7. Apart(u)
  <2>1. Others(u)
    BY <1>1, <1>3, <1>4 DEF Others, Types
  <2>2. ChannelMoves(u) /\ Locks(u)
    BY <1>3 DEF ChannelMoves, Locks
  <2>3. budget.faults <= budget'.faults
    BY <1>1, <1>2, FaultsNat
  <2>4. QED
    BY <1>3, <1>6, <2>1, <2>2, <2>3, StillApart DEF InSection
<1>8. Mine(u)'
  <2>1. ProcOf[u] \in Insisting => enabled[ProcOf[u]]
    BY DEF UpdateInv, Common
  <2>2. Chosen(u)'
    BY <1>3, <1>5, <1>6, <2>1 DEF Chosen, Target
  <2>3. QED
    BY <1>6, <2>2, MineOutside DEF Keyed, Going, InSection
<1>9. \A c \in Channels : c = target[u] => Directory(c)'
  BY <1>1, <1>3, <1>7, SameDirectory DEF ghosts
<1>10. QED
  BY <1>1, <1>7, <1>8, <1>9, StepTogether

\* An update moves on, or returns, before it has the lock.
LEMMA OutsideKeeps ==
  ASSUME UpdateInv, Types', NEW u \in Updaters,
         UNCHANGED <<dir, backup, staging, lock, locking, enabled, overtaken, entry, target,
                     ghosts>>,
         budget.faults <= budget'.faults, NEW l \in Pcs,
         pc' = [pc EXCEPT ![u] = l], l \notin InSection,
         pc[u] \notin {"idle", "retire", "install"},
         \/ op' = op /\ l # "idle"
         \/ op' = [op EXCEPT ![u] = "none"] /\ l = "idle",
         \A v \in Updaters : v # u => key'[v] = key[v],
         l \in {"start", "manifest"} => pc[u] \in {"start", "manifest"},
         l \in Keyed => key'[u] \in Bundles /\ Fits(key'[u], target[u]),
         l \in Going /\ op[u] # "pin" => target[u] \notin Checkouts \ pinned
  PROVE  UpdateInv'
<1>1. Types /\ Chosen(u) /\ op[u] # "none"
  BY Before DEF Chosen
<1>2. pc'[u] = l /\ (op'[u] = "none" <=> l = "idle") /\ (l # "idle" => op'[u] = op[u])
  BY <1>1 DEF Types
<1>3. Apart(u)
  <2>1. Others(u)
    BY <1>1 DEF Others, Types
  <2>2. ChannelMoves(u) /\ Locks(u)
    BY DEF ChannelMoves, Locks
  <2>3. QED
    BY <1>2, <2>1, <2>2, StillApart
<1>4. Mine(u)'
  <2>1. Chosen(u)'
    BY <1>1, <1>2, ChosenOn
  <2>2. pc'[u] \in Keyed => key'[u] \in Bundles /\ Fits(key[u], target[u])'
    BY <1>2 DEF Fits
  <2>3. pc'[u] \in Going /\ op'[u] # "pin" => target'[u] \notin Checkouts \ pinned'
    BY <1>2 DEF ghosts, Going, Keyed, InSection
  <2>4. QED
    BY <1>2, <2>1, <2>2, <2>3, MineOutside
<1>5. \A c \in Channels : c = target[u] => Directory(c)'
  BY <1>3, SameDirectory DEF ghosts
<1>6. QED
  BY <1>3, <1>4, <1>5, StepTogether

\* Where an update is before the section.
LEMMA Outside ==
  /\ {"idle", "start", "manifest", "check", "bundle", "lock"} \subseteq Pcs \ InSection
  /\ {"idle", "start", "manifest"} \cap Keyed = {}
  /\ {"idle", "start"} \cap Going = {}
  /\ {"retire", "install"} \subseteq InSection
  /\ Keyed \subseteq Going /\ InSection \subseteq Keyed /\ Going \subseteq Pcs
BY DEF Pcs, Going, Keyed, InSection

\* An update that ends before it has touched anything.
LEMMA ReturnKeeps ==
  ASSUME UpdateInv, Types', NEW u \in Updaters, Return(u, TRUE),
         pc[u] \in {"start", "check"},
         UNCHANGED <<dir, backup, staging, lock, locking, enabled, overtaken, entry, target,
                     ghosts>>,
         budget.faults <= budget'.faults
  PROVE  UpdateInv'
<1>1. /\ pc' = [pc EXCEPT ![u] = "idle"] /\ op' = [op EXCEPT ![u] = "none"]
      /\ key' = [key EXCEPT ![u] = None]
  <2>1. Types
    BY DEF UpdateInv
  <2>2. QED
    BY <2>1, ReturnFacts
<1>2. \A v \in Updaters : v # u => key'[v] = key[v]
  <2>1. key \in [Updaters -> Bundles \cup {None}]
    BY DEF UpdateInv, Types
  <2>2. QED
    BY <1>1, <2>1
<1>3. "idle" \in Pcs /\ "idle" \notin InSection \cup Keyed \cup Going
  BY Outside
<1>4. pc[u] \notin {"idle", "retire", "install"}
  OBVIOUS
<1>5. QED
  BY <1>1, <1>2, <1>3, <1>4, OutsideKeeps

LEMMA StartKeeps ==
  ASSUME UpdateInv, NEW u \in Updaters, Start(u)
  PROVE  UpdateInv'
<1>1. Types' /\ Types /\ pc[u] = "start" /\ budget.faults \in Nat
        /\ target[u] \in Channels /\ Directory(target[u])
  BY Before, StartTypes DEF Start
<1>2. UNCHANGED <<dir, backup, staging, lock, locking, enabled, overtaken, entry, target,
                  ghosts, budget>>
  BY DEF Start, before, disk
<1>0. budget.faults <= budget'.faults
  BY <1>1, <1>2
<1>3. CASE LeftAlone(u)
  <2>1. Return(u, TRUE)
    BY <1>3 DEF Start
  <2>2. QED
    BY <1>1, <1>2, <2>1, <1>0, ReturnKeeps
<1>4. CASE ~LeftAlone(u)
  <2>1. pc' = [pc EXCEPT ![u] = "manifest"] /\ UNCHANGED <<op, key>>
    BY <1>4 DEF Start, Goto
  <2>2. op[u] # "pin" => target[u] \notin Checkouts \ pinned
    BY <1>1, <1>4, Basics DEF LeftAlone, GitManaged, Directory, Stands
  <2>3. QED
    BY <1>1, <1>2, <2>1, <2>2, <1>0, OutsideKeeps, Outside
<1>5. QED
  BY <1>3, <1>4

LEMMA ManifestKeeps ==
  ASSUME UpdateInv, NEW u \in Updaters, ManifestOk(u)
  PROVE  UpdateInv'
<1>1. Types' /\ Types /\ Mine(u) /\ Chosen(u) /\ pc[u] = "manifest" /\ budget.faults \in Nat
        /\ target[u] \in Channels
  BY Before, ManifestTypes DEF ManifestOk
<1>2. PICK b \in Bundles : b.channel = Target(u) /\ key' = [key EXCEPT ![u] = b]
  BY <1>1, ManifestTypes
<1>3. /\ UNCHANGED <<dir, backup, staging, lock, locking, enabled, overtaken, entry, target,
                     ghosts, budget, op>>
      /\ pc' = [pc EXCEPT ![u] = "check"]
  BY DEF ManifestOk, Goto, before, disk
<1>0. budget.faults <= budget'.faults
  BY <1>1, <1>3
<1>4. key'[u] = b /\ \A v \in Updaters : v # u => key'[v] = key[v]
  BY <1>1, <1>2 DEF Types
<1>5. Fits(b, target[u])
  <2>1. ~overtaken => target[u] = Target(u)
    BY <1>1 DEF Chosen
  <2>2. target[u] = "oss" => Target(u) = "oss"
    BY <1>1 DEF Chosen, Target
  <2>3. QED
    BY <1>2, <2>1, <2>2 DEF Fits
<1>6. op[u] # "pin" => target[u] \notin Checkouts \ pinned
  BY <1>1 DEF Mine, Going
<1>7. QED
  BY <1>1, <1>3, <1>4, <1>5, <1>6, <1>0, OutsideKeeps, Outside

LEMMA CheckKeeps ==
  ASSUME UpdateInv, NEW u \in Updaters, Check(u)
  PROVE  UpdateInv'
<1>1. Types' /\ Types /\ Mine(u) /\ pc[u] = "check" /\ budget.faults \in Nat
  BY Before, CheckTypes DEF Check
<1>2. UNCHANGED <<dir, backup, staging, lock, locking, enabled, overtaken, entry, target,
                  ghosts, budget>>
  BY DEF Check, before, disk
<1>0. budget.faults <= budget'.faults
  BY <1>1, <1>2
<1>3. CASE Return(u, TRUE)
  BY <1>1, <1>2, <1>3, <1>0, ReturnKeeps
<1>4. CASE pc' = [pc EXCEPT ![u] = "bundle"] /\ UNCHANGED <<op, key>>
  <2>1. /\ key[u] \in Bundles /\ Fits(key[u], target[u])
        /\ op[u] # "pin" => target[u] \notin Checkouts \ pinned
    BY <1>1 DEF Mine, Keyed, Going
  <2>2. QED
    BY <1>1, <1>2, <1>4, <2>1, <1>0, OutsideKeeps, Outside
<1>5. QED
  BY <1>3, <1>4 DEF Check, Goto

LEMMA RetryKeeps ==
  ASSUME UpdateInv, NEW u \in Updaters, Retry(u)
  PROVE  UpdateInv'
<1>1. Types' /\ Types /\ Mine(u) /\ Chosen(u) /\ pc[u] \in {"manifest", "bundle"}
        /\ budget.faults \in Nat /\ op[u] # "none"
  BY Before, RetryTypes DEF Retry, Chosen
<1>2. UNCHANGED <<dir, backup, staging, lock, locking, enabled, overtaken, entry, target,
                  ghosts, op, pc, key>>
  BY DEF Retry, before, disk
<1>3. budget'.faults = budget.faults + 1
  BY <1>1, FaultTypes DEF Retry
<1>4. pc' = [pc EXCEPT ![u] = pc[u]] /\ budget.faults <= budget'.faults
  BY <1>1, <1>2, <1>3 DEF Types
<1>5. /\ pc[u] \in Keyed => key[u] \in Bundles /\ Fits(key[u], target[u])
      /\ op[u] # "pin" => target[u] \notin Checkouts \ pinned
      /\ pc[u] \in Pcs /\ pc[u] \notin InSection
  BY <1>1 DEF Mine, Keyed, Going, Pcs, InSection
<1>6. QED
  BY <1>1, <1>2, <1>4, <1>5, OutsideKeeps

LEMMA BundleKeeps ==
  ASSUME UpdateInv, NEW u \in Updaters, BundleOk(u)
  PROVE  UpdateInv'
<1>1. Types' /\ Types /\ Mine(u) /\ pc[u] = "bundle" /\ budget.faults \in Nat
  BY Before, BundleLockTypes DEF BundleOk
<1>2. /\ UNCHANGED <<dir, backup, staging, lock, locking, enabled, overtaken, entry, target,
                     ghosts, op, key, budget>>
      /\ pc' = [pc EXCEPT ![u] = "lock"]
  BY DEF BundleOk, before, disk, Goto, Self
<1>0. budget.faults <= budget'.faults
  BY <1>1, <1>2
<1>3. /\ key[u] \in Bundles /\ Fits(key[u], target[u])
      /\ op[u] # "pin" => target[u] \notin Checkouts \ pinned
  BY <1>1 DEF Mine, Keyed, Going
<1>4. QED
  BY <1>1, <1>2, <1>3, <1>0, OutsideKeeps, Outside

LEMMA LockKeeps ==
  ASSUME UpdateInv, NEW u \in Updaters, Lock(u)
  PROVE  UpdateInv'
<1>1. Types' /\ Types /\ Mine(u) /\ Chosen(u) /\ pc[u] = "lock" /\ target[u] \in Channels
        /\ budget.faults \in Nat
  BY Before, BundleLockTypes DEF Lock
<1>2. /\ UNCHANGED <<dir, backup, staging, locking, enabled, overtaken, op, target, key,
                     entry, had, pinned, budget>>
      /\ pc' = [pc EXCEPT ![u] = "clear"]
      /\ overlapped' = IF Crowded(u) THEN overlapped \cup {target[u]} ELSE overlapped
  BY DEF Lock, disk, Self, Goto
<1>3. \/ locking /\ lock[target[u]] = None /\ lock' = [lock EXCEPT ![target[u]] = u]
      \/ ~locking /\ lock' = lock
  BY DEF Lock
<1>4. pc'[u] = "clear" /\ "clear" \in InSection /\ "clear" \in Keyed
  BY <1>1, <1>2 DEF Types, InSection, Keyed
<1>5. locking => overlapped' = overlapped
  <2> SUFFICES ASSUME locking, Crowded(u) PROVE FALSE
    BY <1>2
  <2>1. PICK v \in Updaters \ {u} : pc[v] \in InSection /\ target[v] = target[u]
    BY DEF Crowded
  <2>2. lock[target[u]] = v
    BY <2>1 DEF UpdateInv, Mine
  <2>3. QED
    BY <1>3, <2>1, <2>2, Basics
<1>6. Apart(u)
  <2>1. Others(u) /\ Locks(u) /\ ChannelMoves(u)
    BY <1>1, <1>2, <1>3 DEF Others, Locks, ChannelMoves, Types
  <2>2. Elsewhere(u)
    BY <1>2 DEF Elsewhere
  <2>3. Records(u)
    <3>1. budget.faults <= budget'.faults
      BY <1>1, <1>2
    <3>2. QED
      BY <1>2, <1>5, <3>1 DEF Records
  <2>4. Enters(u)
    BY <1>2 DEF Enters
  <2>5. QED
    BY <2>1, <2>2, <2>3, <2>4 DEF Apart
<1>7. Mine(u)'
  <2>1. op[u] # "none"
    BY <1>1 DEF Chosen
  <2>2. Chosen(u)'
    BY <1>2, <1>4, <2>1, ChosenOn DEF InSection
  <2>3. key'[u] \in Bundles /\ Fits(key[u], target[u])'
    BY <1>1, <1>2 DEF Mine, Keyed, Fits
  <2>4. locking' => lock'[target'[u]] = u
    BY <1>1, <1>2, <1>3 DEF Types
  <2>5. op'[u] # "pin" => target'[u] \notin Checkouts \ pinned'
    BY <1>1, <1>2 DEF Mine, Going, Keyed
  <2>6. Progress(u)'
    BY <1>4 DEF Progress
  <2>7. QED
    BY <2>2, <2>3, <2>4, <2>5, <2>6 DEF Mine
<1>8. \A c \in Channels : c = target[u] => Directory(c)'
  BY <1>1, <1>2, <1>6, SameDirectory
<1>9. QED
  BY <1>1, <1>6, <1>7, <1>8, StepTogether

\* What a failure does to the update, and that it leaves the others alone.
LEMMA FailMine ==
  ASSUME UpdateInv, NEW u \in Updaters, NEW r \in BOOLEAN, Fail(u, r)
  PROVE  /\ Mine(u)' /\ pc'[u] \notin InSection
         /\ Others(u) /\ Locks(u) /\ ChannelMoves(u) /\ (overtaken => overtaken')
<1>1. Types /\ Chosen(u) /\ ProcOf[u] \in Processes
  BY Before, Basics
<1>2. /\ pc'[u] \in {"idle", "start"} /\ (op'[u] = "none" => pc'[u] = "idle")
      /\ locking' = locking /\ entry' = entry
      /\ lock' = [c \in Channels |-> IF lock[c] = u THEN None ELSE lock[c]]
      /\ ChannelMoves(u)
      /\ \/ target' = target /\ enabled' = enabled /\ op'[u] = "none"
         \/ /\ target' = [target EXCEPT ![u] = "oss"] /\ ProcOf[u] \notin Insisting
            /\ enabled' = [enabled EXCEPT ![ProcOf[u]] = FALSE]
      /\ \A v \in Updaters : v # u => /\ pc'[v] = pc[v] /\ op'[v] = op[v]
                                      /\ key'[v] = key[v] /\ target'[v] = target[v]
  BY <1>1, FailFacts
<1>3. Others(u) /\ Locks(u)
  BY <1>2 DEF Others, Locks
<1>4. overtaken => overtaken'
  BY <1>2 DEF ChannelMoves
<1>5. Chosen(u)'
  <2>1. CASE target' = target /\ enabled' = enabled /\ op'[u] = "none"
    BY <1>1, <1>2, <2>1 DEF Chosen
  <2>2. CASE /\ target' = [target EXCEPT ![u] = "oss"] /\ ProcOf[u] \notin Insisting
             /\ enabled' = [enabled EXCEPT ![ProcOf[u]] = FALSE]
    <3>1. target'[u] = "oss" /\ ~enabled'[ProcOf[u]]
      BY <1>1, <2>2 DEF Types
    <3>2. QED
      BY <1>2, <2>2, <3>1 DEF Chosen, Target
  <2>3. QED
    BY <1>2, <2>1, <2>2
<1>6. pc'[u] \notin Keyed /\ pc'[u] \notin Going /\ pc'[u] \notin InSection
  BY <1>2 DEF Keyed, Going, InSection
<1>7. Mine(u)'
  BY <1>5, <1>6, MineOutside
<1>8. QED
  BY <1>2, <1>3, <1>4, <1>6, <1>7

\* A failure that leaves the disk as it is.
LEMMA FailKeeps ==
  ASSUME UpdateInv, Types', NEW u \in Updaters, NEW r \in BOOLEAN, Fail(u, r),
         UNCHANGED <<dir, backup, staging, ghosts>>,
         budget.faults <= budget'.faults,
         target[u] \notin overlapped /\ pc[u] = "install" => budget'.faults >= 2,
         target[u] \notin overlapped /\ pc[u] = "retire"
             => dir[target[u]] # None \/ budget'.faults = budget.faults + 1
  PROVE  UpdateInv'
<1>1. Mine(u)' /\ Apart(u)
  BY FailMine, StillApart
<1>2. \A c \in Channels : c = target[u] => Directory(c)'
  BY <1>1, SameDirectory DEF ghosts
<1>3. QED
  BY <1>1, <1>2, StepTogether

LEMMA FailuresKeep ==
  ASSUME UpdateInv, NEW u \in Updaters,
         \/ Refused(u) \/ DownloadFails(u) \/ DiskFails(u) \/ RestoreFails(u)
         \/ Blocked(u)
  PROVE  UpdateInv'
<1>1. Types' /\ Types /\ Mine(u) /\ budget.faults \in Nat
  BY Before, FailingTypes
<1>2. UNCHANGED <<dir, backup, staging, ghosts>>
  BY DEF Refused, DownloadFails, DiskFails, RestoreFails, Blocked, disk
<1>3. PICK r \in BOOLEAN : Fail(u, r)
  BY DEF Refused, DownloadFails, DiskFails, RestoreFails, Blocked
<1>4. CASE Refused(u)
  <2>1. pc[u] = "manifest" /\ budget'.faults = budget.faults
    BY <1>4 DEF Refused
  <2>2. QED
    BY <1>1, <1>2, <1>3, <2>1, FailKeeps
<1>5. CASE DownloadFails(u)
  <2>1. pc[u] \in {"manifest", "bundle"} /\ budget'.faults = budget.faults + 1
    BY <1>1, <1>5, FaultTypes DEF DownloadFails
  <2>2. QED
    BY <1>1, <1>2, <1>3, <2>1, FailKeeps
<1>6. CASE DiskFails(u)
  <2>1. /\ pc[u] # "install" /\ budget'.faults \in {budget.faults, budget.faults + 1}
        /\ target[u] \notin overlapped => budget'.faults = budget.faults + 1
    BY <1>1, <1>6, SlipTypes DEF DiskFails
  <2>2. budget.faults <= budget'.faults
    BY <1>1, <2>1
  <2>3. QED
    BY <1>1, <1>2, <1>3, <2>1, <2>2, FailKeeps
<1>7. CASE RestoreFails(u)
  <2>1. pc[u] = "install" /\ budget'.faults = budget.faults + 2
    BY <1>1, <1>7 DEF RestoreFails, Types, Budgets
  <2>2. QED
    BY <1>1, <1>2, <1>3, <2>1, FailKeeps
<1>8. CASE Blocked(u)
  <2>1. /\ budget'.faults = budget.faults
        /\ \/ pc[u] = "retire" /\ dir[target[u]] # None
           \/ pc[u] = "mark"
    BY <1>8 DEF Blocked
  <2>2. QED
    BY <1>1, <1>2, <1>3, <2>1, FailKeeps
<1>9. QED
  BY <1>4, <1>5, <1>6, <1>7, <1>8

\* A step of the section that stays in it.
LEMMA UnderLock ==
  ASSUME UpdateInv, NEW u \in Updaters, pc[u] \in InSection, NEW l \in InSection,
         pc' = pc \/ pc' = [pc EXCEPT ![u] = l],
         UNCHANGED <<lock, locking, enabled, overtaken, op, target, key, overlapped>>,
         \A v \in Updaters : v # u => entry'[v] = entry[v],
         \A c \in Channels : c # target[u] =>
             dir'[c] = dir[c] /\ backup'[c] = backup[c] /\ staging'[c] = staging[c],
         pinned \subseteq pinned', had' \subseteq had \cup {target[u]},
         budget.faults <= budget'.faults
  PROVE  /\ Apart(u)
         /\ (target[u] \notin overlapped => Progress(u)') => Mine(u)'
<1>1. Types /\ Mine(u) /\ Chosen(u)
  BY Before
<1>2. pc'[u] \in InSection /\ \A v \in Updaters : v # u => pc'[v] = pc[v]
  BY <1>1 DEF Types
<1>3. Apart(u)
  <2>1. Others(u) /\ Locks(u) /\ ChannelMoves(u)
    BY <1>2 DEF Others, Locks, ChannelMoves
  <2>2. Elsewhere(u) /\ Records(u) /\ Enters(u)
    BY <1>2 DEF Elsewhere, Records, Enters
  <2>3. QED
    BY <2>1, <2>2 DEF Apart
<1>4. /\ op[u] # "none" /\ (locking => lock[target[u]] = u)
      /\ key[u] \in Bundles /\ Fits(key[u], target[u])
      /\ op[u] # "pin" => target[u] \notin Checkouts \ pinned
  BY <1>1, Outside DEF Mine, Chosen
<1>5. ASSUME target[u] \notin overlapped => Progress(u)' PROVE Mine(u)'
  <2>1. Chosen(u)'
    BY <1>2, <1>4, ChosenOn DEF InSection
  <2>2. Fits(key[u], target[u])'
    BY <1>4 DEF Fits
  <2>3. QED
    BY <1>2, <1>4, <1>5, <2>1, <2>2 DEF Mine
<1>6. QED
  BY <1>3, <1>5

\* Who installs in a directory that somebody has to himself.
LEMMA HolderInstalls ==
  ASSUME UpdateInv, NEW u \in Updaters, pc[u] \in InSection, target[u] \notin overlapped
  PROVE  /\ Installing(target[u]) => pc[u] = "install"
         /\ Swapping(target[u]) => pc[u] \in {"retire", "install"}
BY OneHolder DEF Installing, Swapping, InSection

\* What is in place of a checkout is not touched by a step that leaves dir.
LEMMA StandsOn ==
  ASSUME UpdateInv, NEW c \in Channels, dir'[c] = dir[c], pinned \subseteq pinned'
  PROVE  Stands(c)'
BY DEF UpdateInv, Directory, Stands

LEMMA ClearKeeps ==
  ASSUME UpdateInv, NEW u \in Updaters, Clear(u)
  PROVE  UpdateInv'
<1>1. Types /\ Types' /\ Mine(u) /\ pc[u] = "clear" /\ target[u] \in Channels
        /\ Directory(target[u]) /\ budget.faults \in Nat /\ pc[u] \in InSection
  BY Before, ClearTypes DEF Clear, InSection
<1>2. /\ \/ staging'[target[u]] = Empty
         \/ staging'[target[u]] \in Remains(staging[target[u]])
      /\ \A d \in Channels : d # target[u] => staging'[d] = staging[d]
      /\ budget'.faults = budget.faults \/ budget'.faults = budget.faults + 1
      /\ entry'[u] = 1 /\ \A v \in Updaters : v # u => entry'[v] = entry[v]
  BY <1>1, ClearTypes
<1>3. /\ UNCHANGED <<dir, backup, lock, locking, enabled, overtaken, op, target, key, had,
                     pinned, overlapped>>
      /\ pc' = [pc EXCEPT ![u] = "unpack"] /\ pc'[u] = "unpack"
  BY <1>1 DEF Clear, Goto, steady, Self, ghosts, Types
<1>4. budget.faults <= budget'.faults
  BY <1>1, <1>2
<1>5. Apart(u) /\ ((target[u] \notin overlapped => Progress(u)') => Mine(u)')
  <2>1. "unpack" \in InSection
    BY DEF InSection
  <2>2. QED
    BY <1>1, <1>2, <1>3, <1>4, <2>1, UnderLock
<1>6. Progress(u)'
  <2>1. \A i \in Parts : ~(i < 1)
    BY DEF Parts
  <2>2. QED
    BY <1>2, <1>3, <2>1 DEF Progress
<1>7. ASSUME NEW c \in Channels, c = target[u] PROVE Directory(c)'
  <2>1. Names(c) /\ staging[c] \in Places
    BY <1>1, <1>7 DEF Directory, Types
  <2>2. Fitting(staging[c], c)'
    BY <1>2, <1>3, <1>7, <2>1, RemainsFacts, Basics DEF Names, Fitting, Fits
  <2>3. Names(c)'
    BY <1>3, <2>1, <2>2 DEF Names, Fitting, Fits
  <2>4. Stands(c)'
    BY <1>3, StandsOn
  <2>5. ASSUME c \notin overlapped' PROVE Sound(c)'
    <3>1. ~Installing(c) /\ ~Swapping(c) /\ DiskOK(c) /\ Kept(c)
      BY <1>1, <1>3, <1>7, <2>5, HolderInstalls DEF Directory, Sound
    <3>2. budget.faults \in Nat /\ budget'.faults \in Nat /\ budget.faults <= budget'.faults
      BY <1>1, <1>4, FaultsNatNext
    <3>3. DiskOK(c)'
      BY <1>3, <3>1, <3>2 DEF DiskOK, Whole
    <3>4. Kept(c)'
      BY <1>3, <3>1, <3>2 DEF Kept, Complete
    <3>5. QED
      BY <3>3, <3>4 DEF Sound
  <2>6. QED
    BY <2>3, <2>4, <2>5 DEF Directory
<1>8. QED
  BY <1>1, <1>5, <1>6, <1>7, StepTogether

\* A step of the section that changes the staging tree only.
LEMMA StagingOnly ==
  ASSUME UpdateInv, Types', NEW u \in Updaters, NEW c \in Channels, c = target[u],
         UNCHANGED <<dir, backup, ghosts, budget, overtaken>>, Fitting(staging'[c], c),
         pc[u] \in {"clear", "unpack", "mark"}
  PROVE  Directory(c)'
<1>1. Directory(c)
  BY DEF UpdateInv
<1>2. Names(c)'
  BY <1>1 DEF Directory, Names, Fitting, Fits
<1>3. Stands(c)'
  BY StandsOn DEF ghosts
<1>4. ASSUME c \notin overlapped' PROVE Sound(c)'
  <2>1. ~Installing(c) /\ ~Swapping(c) /\ DiskOK(c) /\ Kept(c)
    BY <1>1, <1>4, HolderInstalls DEF InSection, Directory, Sound, ghosts
  <2>2. DiskOK(c)'
    BY <2>1 DEF DiskOK, Whole
  <2>3. Kept(c)'
    BY <2>1 DEF Kept, Complete, ghosts
  <2>4. QED
    BY <2>2, <2>3 DEF Sound
<1>5. QED
  BY <1>2, <1>3, <1>4 DEF Directory

LEMMA UnpackKeeps ==
  ASSUME UpdateInv, NEW u \in Updaters, Unpack(u)
  PROVE  UpdateInv'
<1>0. Types /\ Mine(u) /\ pc[u] = "unpack" /\ target[u] \in Channels
        /\ Directory(target[u]) /\ key[u] \in Bundles /\ pc[u] \in InSection
        /\ budget.faults \in Nat /\ entry[u] \in 1..Entries /\ Entries \in Nat \ {0}
  BY Before, UpdateAssumption DEF Unpack, Mine, Keyed, InSection, Types, Parts
<1>1. /\ Types'
      /\ staging'[target[u]] \in Trees
      /\ staging'[target[u]].files = Staged(u).files \cup {<<key[u], entry[u]>>}
      /\ staging'[target[u]].side = Staged(u).side
      /\ \A d \in Channels : d # target[u] => staging'[d] = staging[d]
      /\ \/ entry[u] = Entries /\ pc' = [pc EXCEPT ![u] = "mark"] /\ entry' = entry
         \/ pc' = pc /\ entry' = [entry EXCEPT ![u] = entry[u] + 1]
  BY <1>0, UnpackTypes
<1>2. UNCHANGED <<dir, backup, lock, locking, enabled, overtaken, op, target, key, had,
                  pinned, overlapped, budget>>
  BY DEF Unpack, steady, Self, ghosts
<1>3. Apart(u) /\ ((target[u] \notin overlapped => Progress(u)') => Mine(u)')
  <2>1. /\ "mark" \in InSection
        /\ budget.faults <= budget'.faults /\ had' \subseteq had \cup {target[u]}
        /\ (pc' = pc \/ pc' = [pc EXCEPT ![u] = "mark"])
    BY <1>0, <1>1, <1>2 DEF InSection
  <2>2. \A v \in Updaters : v # u => entry'[v] = entry[v]
    BY <1>0, <1>1 DEF Types
  <2>3. QED
    BY <1>0, <1>1, <1>2, <2>1, <2>2, UnderLock
<1>4. ASSUME target[u] \notin overlapped PROVE Progress(u)'
  <2>0. \A i \in Parts : i < entry[u] => <<key[u], i>> \in Staged(u).files
    BY <1>0, <1>4 DEF Mine, Progress
  <2>1. staging'[target'[u]] # None /\ Staged(u)' = staging'[target[u]]
    BY <1>1, <1>2, Basics DEF Staged
  <2>2. CASE pc' = pc /\ entry' = [entry EXCEPT ![u] = entry[u] + 1]
    <3>1. pc'[u] = "unpack" /\ entry'[u] = entry[u] + 1
      BY <1>0, <2>2 DEF Types
    <3>2. \A i \in Parts : i < entry[u] + 1 => i < entry[u] \/ i = entry[u]
      BY <1>0 DEF Parts
    <3>3. \A i \in Parts : i < entry'[u] => <<key[u], i>> \in Staged(u)'.files
      BY <1>1, <2>0, <2>1, <3>1, <3>2
    <3>4. QED
      BY <1>2, <3>1, <3>3 DEF Progress
  <2>3. CASE entry[u] = Entries /\ pc' = [pc EXCEPT ![u] = "mark"]
    <3>1. pc'[u] = "mark"
      BY <1>0, <2>3 DEF Types
    <3>2. \A i \in Parts : i < entry[u] \/ i = entry[u]
      BY <1>0, <2>3 DEF Parts
    <3>3. \A i \in Parts : <<key[u], i>> \in staging'[target[u]].files
      BY <1>1, <2>0, <3>2
    <3>4. PartsOf(key[u]) \subseteq staging'[target[u]].files
      BY <3>3 DEF PartsOf
    <3>5. QED
      BY <1>2, <2>1, <3>1, <3>4 DEF Progress, PartsOf
  <2>4. QED
    BY <1>1, <2>2, <2>3
<1>5. Fitting(staging'[target[u]], target[u])
  <2>1. \/ Staged(u) = Empty
        \/ staging[target[u]] # None /\ Staged(u) = staging[target[u]]
    BY <1>0, StagedFacts
  <2>2. QED
    BY <1>0, <1>1, <2>1, Basics DEF Directory, Names, Fitting
<1>6. \A c \in Channels : c = target[u] => Directory(c)'
  BY <1>0, <1>1, <1>2, <1>5, StagingOnly DEF ghosts
<1>7. QED
  BY <1>1, <1>3, <1>4, <1>6, StepTogether

LEMMA MarkKeeps ==
  ASSUME UpdateInv, NEW u \in Updaters, Mark(u)
  PROVE  UpdateInv'
<1>0. Types /\ Mine(u) /\ pc[u] = "mark" /\ target[u] \in Channels
        /\ Directory(target[u]) /\ key[u] \in Bundles /\ pc[u] \in InSection
        /\ Fits(key[u], target[u]) /\ budget.faults \in Nat
  BY Before DEF Mark, Mine, Keyed, InSection
<1>1. /\ Types'
      /\ staging'[target[u]] \in Trees /\ staging'[target[u]].side = key[u]
      /\ staging'[target[u]].files = staging[target[u]].files
      /\ \A d \in Channels : d # target[u] => staging'[d] = staging[d]
  BY <1>0, MarkTypes
<1>2. /\ UNCHANGED <<dir, backup, lock, locking, enabled, overtaken, op, target, key, had,
                     pinned, overlapped, budget, entry>>
      /\ pc' = [pc EXCEPT ![u] = "drop"]
  BY DEF Mark, Goto, steady, Self, ghosts
<1>3. Apart(u) /\ ((target[u] \notin overlapped => Progress(u)') => Mine(u)')
  <2>1. /\ "drop" \in InSection
        /\ budget.faults <= budget'.faults /\ had' \subseteq had \cup {target[u]}
    BY <1>0, <1>1, <1>2 DEF InSection
  <2>2. QED
    BY <1>0, <1>1, <1>2, <2>1, UnderLock
<1>4. ASSUME target[u] \notin overlapped PROVE Progress(u)'
  <2>1. pc'[u] = "drop"
    BY <1>0, <1>2 DEF Types
  <2>2. PartsOf(key[u]) \subseteq staging[target[u]].files
    BY <1>0, <1>4 DEF Mine, Progress
  <2>3. Full(staging'[target[u]], key[u])
    BY <1>0, <1>1, <2>2 DEF Full
  <2>4. QED
    BY <1>2, <2>1, <2>3 DEF Progress, Full, PartsOf
<1>5. Fitting(staging'[target[u]], target[u])
  BY <1>0, <1>1 DEF Fitting
<1>6. \A c \in Channels : c = target[u] => Directory(c)'
  BY <1>0, <1>1, <1>2, <1>5, StagingOnly DEF ghosts
<1>7. QED
  BY <1>1, <1>3, <1>4, <1>6, StepTogether

\* A tree with a bundle, and what is left of a tree.
LEMMA FullComplete ==
  ASSUME NEW t, NEW b, Full(t, b)
  PROVE  /\ t # None /\ t.side # None /\ t.side = b /\ Whole(t) /\ Complete(t)
BY Basics DEF Full, Whole, Complete

LEMMA RemainsFitting ==
  ASSUME NEW t \in Places, NEW r \in Remains(t), NEW c \in Channels, Fitting(t, c)
  PROVE  Fitting(r, c)
BY RemainsFacts DEF Fitting

LEMMA DropKeeps ==
  ASSUME UpdateInv, NEW u \in Updaters, DropBackup(u)
  PROVE  UpdateInv'
<1>0. Types /\ Types' /\ Mine(u) /\ pc[u] = "drop" /\ target[u] \in Channels
        /\ Directory(target[u]) /\ budget.faults \in Nat /\ budget'.faults \in Nat
        /\ pc[u] \in InSection
  BY Before, DropTypes, FaultsNatNext DEF DropBackup, InSection
<1>1. /\ \A d \in Channels : d # target[u] => backup'[d] = backup[d]
      /\ \/ backup'[target[u]] = None /\ budget' = budget
         \/ /\ budget'.faults = budget.faults + 1 /\ backup[target[u]] # None
            /\ backup'[target[u]] \in Remains(backup[target[u]])
  BY <1>0, RemoveTypes DEF DropBackup
<1>2. /\ UNCHANGED <<dir, staging, lock, locking, enabled, overtaken, op, target, key, had,
                     pinned, overlapped, entry>>
      /\ pc' = [pc EXCEPT ![u] = "retire"] /\ pc'[u] = "retire"
  BY <1>0 DEF DropBackup, Goto, steady, Self, ghosts, Types
<1>3. budget.faults <= budget'.faults
  BY <1>0, <1>1
<1>4. Apart(u) /\ ((target[u] \notin overlapped => Progress(u)') => Mine(u)')
  <2>1. "retire" \in InSection
    BY DEF InSection
  <2>2. QED
    BY <1>0, <1>1, <1>2, <1>3, <2>1, UnderLock
<1>5. target[u] \notin overlapped => Progress(u)'
  BY <1>0, <1>2 DEF Mine, Progress, Full, PartsOf
<1>6. ASSUME NEW c \in Channels, c = target[u] PROVE Directory(c)'
  <2>1. Fitting(backup'[c], c)
    <3>1. CASE backup'[c] = None
      BY <3>1 DEF Fitting
    <3>2. CASE backup'[c] \in Remains(backup[c])
      BY <1>0, <1>6, <3>2, RemainsFitting DEF Directory, Names, Types
    <3>3. QED
      BY <1>1, <1>6, <3>1, <3>2
  <2>2. Names(c)'
    BY <1>0, <1>2, <1>6, <2>1 DEF Directory, Names, Fitting, Fits
  <2>3. Stands(c)'
    BY <1>2, StandsOn
  <2>4. ASSUME c \notin overlapped' PROVE Sound(c)'
    <3>1. ~Installing(c) /\ ~Swapping(c) /\ DiskOK(c) /\ Kept(c)
      BY <1>0, <1>2, <1>6, <2>4, HolderInstalls DEF Directory, Sound
    <3>2. dir'[c] = dir[c] /\ had' = had
      BY <1>2
    <3>3. Swapping(c)'
      BY <1>2, <1>6 DEF Swapping
    <3>4. Kept(c)'
      BY <1>0, <1>1, <1>3, <1>6, <3>1, <3>2, <3>3 DEF Kept, Complete
    <3>5. CASE backup'[c] = None /\ budget' = budget
      <4>1. DiskOK(c)'
        BY <3>1, <3>2, <3>5 DEF DiskOK, Whole
      <4>2. QED
        BY <3>4, <4>1 DEF Sound
    <3>6. CASE budget'.faults = budget.faults + 1 /\ backup[c] # None
      <4>1. dir[c] = None => budget.faults >= 1
        BY <3>1, <3>6 DEF DiskOK
      <4>2. dir[c] = None => budget'.faults >= 2
        BY <1>0, <3>6, <4>1
      <4>3. DiskOK(c)'
        BY <1>0, <3>1, <3>2, <3>6, <4>2 DEF DiskOK, Whole
      <4>4. QED
        BY <3>4, <4>3 DEF Sound
    <3>7. QED
      BY <1>1, <1>6, <3>5, <3>6
  <2>5. QED
    BY <2>2, <2>3, <2>4 DEF Directory
<1>7. QED
  BY <1>0, <1>4, <1>5, <1>6, StepTogether

LEMMA RetireKeeps ==
  ASSUME UpdateInv, NEW u \in Updaters, Retire(u)
  PROVE  UpdateInv'
<1>0. Types /\ Mine(u) /\ pc[u] = "retire" /\ target[u] \in Channels
        /\ Directory(target[u]) /\ budget.faults \in Nat
        /\ pc[u] \in InSection
  BY Before DEF Retire, InSection
<1>1. /\ Types' /\ dir'[target[u]] = None
      /\ backup'[target[u]] = IF dir[target[u]] = None THEN backup[target[u]]
                              ELSE dir[target[u]]
      /\ \A d \in Channels : d # target[u] => dir'[d] = dir[d] /\ backup'[d] = backup[d]
  BY <1>0, RetireTypes
<1>2. /\ UNCHANGED <<staging, lock, locking, enabled, overtaken, op, target, key, had,
                     overlapped, entry, budget>>
      /\ pc' = [pc EXCEPT ![u] = "install"] /\ pc'[u] = "install"
      /\ dir[target[u]] = None \/ backup[target[u]] = None
      /\ pinned' = IF op[u] = "pin" THEN pinned \cup {target[u]} ELSE pinned
  BY <1>0 DEF Retire, Goto, steady, Self, Types
<1>3. Apart(u) /\ ((target[u] \notin overlapped => Progress(u)') => Mine(u)')
  <2>1. /\ "install" \in InSection /\ pinned \subseteq pinned'
        /\ had' \subseteq had \cup {target[u]} /\ budget.faults <= budget'.faults
    BY <1>0, <1>1, <1>2 DEF InSection
  <2>2. QED
    BY <1>0, <1>1, <1>2, <2>1, UnderLock
<1>4. target[u] \notin overlapped => Progress(u)'
  BY <1>0, <1>1, <1>2 DEF Mine, Progress, Full, PartsOf
<1>5. ASSUME NEW c \in Channels, c = target[u] PROVE Directory(c)'
  <2>1. Names(c)'
    BY <1>0, <1>1, <1>2, <1>5 DEF Directory, Names, Fitting, Fits
  <2>2. Stands(c)'
    <3>1. op[u] # "pin" => c \notin Checkouts \ pinned
      BY <1>0, <1>5, Outside DEF Mine
    <3>2. QED
      BY <1>2, <1>5, <3>1 DEF Stands
  <2>3. ASSUME c \notin overlapped' PROVE Sound(c)'
    <3>1. ~Installing(c) /\ DiskOK(c) /\ Kept(c)
      BY <1>0, <1>2, <1>5, <2>3, HolderInstalls DEF Directory, Sound
    <3>2. Installing(c)' /\ Swapping(c)'
      BY <1>2, <1>5 DEF Installing, Swapping
    <3>3. dir'[c] = None /\ budget' = budget /\ had' = had
      BY <1>1, <1>2, <1>5
    <3>4. CASE dir[c] = None
      <4>1. backup'[c] = backup[c]
        BY <1>1, <1>5, <3>4
      <4>2. DiskOK(c)'
        BY <3>1, <3>2, <3>3, <3>4, <4>1 DEF DiskOK, Whole
      <4>3. Kept(c)'
        BY <3>1, <3>2, <3>3, <3>4, <4>1 DEF Kept, Complete
      <4>4. QED
        BY <4>2, <4>3 DEF Sound
    <3>5. CASE dir[c] # None
      <4>1. backup'[c] = dir[c]
        BY <1>1, <1>5, <3>5
      <4>2. ~Whole(dir[c]) => budget.faults >= 2
        BY <1>0, <3>1 DEF DiskOK
      <4>3. DiskOK(c)'
        BY <3>1, <3>2, <3>3, <4>1, <4>2 DEF DiskOK, Whole
      <4>4. Kept(c)'
        BY <3>1, <3>2, <3>3, <3>5, <4>1 DEF Kept, Complete
      <4>5. QED
        BY <4>3, <4>4 DEF Sound
    <3>6. QED
      BY <3>4, <3>5
  <2>4. QED
    BY <2>1, <2>2, <2>3 DEF Directory
<1>6. QED
  BY <1>1, <1>3, <1>4, <1>5, StepTogether

LEMMA InstallKeeps ==
  ASSUME UpdateInv, NEW u \in Updaters, Install(u)
  PROVE  UpdateInv'
<1>0. Types /\ Mine(u) /\ pc[u] = "install" /\ target[u] \in Channels
        /\ Directory(target[u]) /\ budget.faults \in Nat /\ pc[u] \in InSection
        /\ staging[target[u]] # None /\ dir[target[u]] = None
  BY Before DEF Install, Free, InSection
<1>1. /\ Types' /\ dir'[target[u]] = staging[target[u]] /\ staging'[target[u]] = None
      /\ \A d \in Channels : d # target[u] => dir'[d] = dir[d] /\ staging'[d] = staging[d]
  BY <1>0, InstallTypes
<1>2. /\ UNCHANGED <<backup, lock, locking, enabled, overtaken, op, target, key, entry,
                     pinned, overlapped, budget>>
      /\ pc' = [pc EXCEPT ![u] = "tidy"] /\ pc'[u] = "tidy"
      /\ had' \subseteq had \cup {target[u]}
  BY <1>0 DEF Install, Goto, steady, Self, Types
<1>3. Apart(u) /\ ((target[u] \notin overlapped => Progress(u)') => Mine(u)')
  <2>1. "tidy" \in InSection /\ budget.faults <= budget'.faults
    BY <1>0, <1>2 DEF InSection
  <2>2. QED
    BY <1>0, <1>1, <1>2, <2>1, UnderLock
<1>4. target[u] \notin overlapped => Full(staging[target[u]], key[u])
  BY <1>0 DEF Mine, Progress
<1>5. target[u] \notin overlapped => Progress(u)'
  BY <1>1, <1>2, <1>4 DEF Progress, Full, PartsOf
<1>6. ASSUME NEW c \in Channels, c = target[u] PROVE Directory(c)'
  <2>1. Names(c)'
    BY <1>0, <1>1, <1>2, <1>6 DEF Directory, Names, Fitting, Fits
  <2>2. Stands(c)'
    BY <1>0, <1>2, <1>6, Basics DEF Directory, Stands
  <2>3. ASSUME c \notin overlapped' PROVE Sound(c)'
    <3>1. /\ dir'[c] # None /\ dir'[c].side = key[u]
          /\ Whole(dir'[c]) /\ Complete(dir'[c])
      BY <1>1, <1>2, <1>4, <1>6, <2>3, FullComplete
    <3>2. DiskOK(c)'
      BY <3>1 DEF DiskOK, Whole
    <3>3. Kept(c)'
      BY <3>1 DEF Kept, Complete
    <3>4. QED
      BY <3>2, <3>3 DEF Sound
  <2>4. QED
    BY <2>1, <2>2, <2>3 DEF Directory
<1>7. QED
  BY <1>1, <1>2, <1>3, <1>5, <1>6, StepTogether

LEMMA InstallFailsKeeps ==
  ASSUME UpdateInv, NEW u \in Updaters, InstallFails(u)
  PROVE  UpdateInv'
<1>0. /\ Types /\ Mine(u) /\ pc[u] = "install" /\ target[u] \in Channels
      /\ Directory(target[u]) /\ budget.faults \in Nat /\ pc[u] \in InSection
  BY Before DEF InstallFails, InSection
<1>1. /\ Types'
      /\ IF backup[target[u]] # None /\ dir[target[u]] = None
         THEN dir'[target[u]] = backup[target[u]] /\ backup'[target[u]] = None
         ELSE UNCHANGED <<dir, backup>>
      /\ \A d \in Channels : d # target[u] => dir'[d] = dir[d] /\ backup'[d] = backup[d]
      /\ Free(u) /\ target[u] \notin overlapped => budget'.faults = budget.faults + 1
      /\ budget'.faults \in {budget.faults, budget.faults + 1}
  BY <1>0, InstallFailsTypes
<1>2. UNCHANGED <<staging, had, pinned, overlapped>> /\ Fail(u, FALSE)
  BY DEF InstallFails, ghosts
<1>3. /\ Mine(u)' /\ pc'[u] \notin InSection
      /\ Others(u) /\ Locks(u) /\ ChannelMoves(u) /\ (overtaken => overtaken')
  BY <1>2, FailMine
<1>4. Apart(u)
  <2>1. budget.faults <= budget'.faults
    BY <1>0, <1>1
  <2>2. Elsewhere(u)
    BY <1>0, <1>1, <1>2 DEF Elsewhere
  <2>3. Records(u) /\ Enters(u)
    BY <1>2, <1>3, <2>1 DEF Records, Enters
  <2>4. QED
    BY <1>3, <2>2, <2>3 DEF Apart
<1>5. ASSUME NEW c \in Channels, c = target[u] PROVE Directory(c)'
  <2>1. \/ dir'[c] = dir[c] /\ backup'[c] = backup[c]
        \/ dir[c] = None /\ dir'[c] = backup[c] /\ backup'[c] = None
    BY <1>1, <1>5
  <2>2. Names(c)'
    <3>1. Names(c)
      BY <1>0, <1>5 DEF Directory
    <3>2. CASE dir'[c] = dir[c] /\ backup'[c] = backup[c]
      BY <1>2, <1>3, <3>2, NamesStay
    <3>3. CASE dir'[c] = backup[c] /\ backup'[c] = None
      BY <1>2, <1>3, <3>1, <3>3, FitsOn DEF Names, Fitting
    <3>4. QED
      BY <2>1, <3>2, <3>3
  <2>3. Stands(c)'
    BY <1>0, <1>2, <1>5, <2>1, Basics DEF Directory, Stands
  <2>4. ASSUME c \notin overlapped' PROVE Sound(c)'
    <3>1. DiskOK(c) /\ Kept(c) /\ Progress(u) /\ target[u] \notin overlapped
      BY <1>0, <1>2, <1>5, <2>4 DEF Directory, Sound, Mine
    <3>2. dir[c] = None /\ Full(staging[c], key[u])
      BY <1>0, <1>5, <3>1 DEF Progress
    <3>3. Free(u)
      BY <1>5, <3>2, FullComplete DEF Free
    <3>4. budget'.faults = budget.faults + 1
      BY <1>1, <3>1, <3>3
    <3>5. CASE backup[c] = None
      <4>1. dir'[c] = None /\ backup'[c] = None
        BY <2>1, <3>2, <3>5
      <4>2. DiskOK(c)'
        BY <3>1, <4>1 DEF DiskOK, Whole
      <4>3. c \in had /\ budget'.faults <= 1 => FALSE
        BY <1>0, <3>1, <3>2, <3>4, <3>5 DEF Kept, Complete
      <4>4. QED
        BY <1>2, <4>2, <4>3 DEF Sound, Kept
    <3>6. CASE backup[c] # None
      <4>1. dir'[c] = backup[c] /\ backup'[c] = None
        BY <1>1, <1>5, <3>2, <3>6
      <4>2. ~Whole(dir'[c]) => budget'.faults > 2
        BY <1>0, <3>1, <3>2, <3>4, <4>1 DEF DiskOK
      <4>3. budget'.faults \in Nat
        BY <1>1, FaultsNatNext
      <4>4. DiskOK(c)'
        BY <3>6, <4>1, <4>2, <4>3 DEF DiskOK, Whole
      <4>5. c \in had /\ budget'.faults <= 1 => Complete(backup[c])
        BY <1>0, <3>1, <3>2, <3>4 DEF Kept
      <4>6. Kept(c)'
        BY <1>2, <3>6, <4>1, <4>5 DEF Kept, Complete
      <4>7. QED
        BY <4>4, <4>6 DEF Sound
    <3>7. QED
      BY <3>5, <3>6
  <2>5. QED
    BY <2>2, <2>3, <2>4 DEF Directory
<1>6. QED
  BY <1>1, <1>3, <1>4, <1>5, StepTogether

LEMMA TidyKeeps ==
  ASSUME UpdateInv, NEW u \in Updaters, Tidy(u)
  PROVE  UpdateInv'
<1>0. /\ Types /\ Types' /\ Mine(u) /\ Chosen(u) /\ pc[u] = "tidy" /\ target[u] \in Channels
      /\ Directory(target[u]) /\ budget.faults \in Nat /\ budget'.faults \in Nat
      /\ pc[u] \in InSection
  BY Before, TidyTypes, FaultsNatNext DEF Tidy, InSection
<1>1. /\ \A d \in Channels : d # target[u] => backup'[d] = backup[d]
      /\ \/ backup'[target[u]] = None /\ budget' = budget
         \/ /\ budget'.faults = budget.faults + 1
            /\ backup'[target[u]] \in Remains(backup[target[u]])
  BY <1>0, RemoveTypes DEF Tidy
<1>2. /\ UNCHANGED <<dir, staging, locking, enabled, overtaken, target, entry, had, pinned,
                     overlapped>>
      /\ lock' = [c \in Channels |-> IF lock[c] = u THEN None ELSE lock[c]]
      /\ pc' = [pc EXCEPT ![u] = "idle"] /\ op' = [op EXCEPT ![u] = "none"]
      /\ key' = [key EXCEPT ![u] = None]
  BY <1>0, ReturnFacts DEF Tidy, Unlock, ghosts
<1>3. budget.faults <= budget'.faults
  BY <1>0, <1>1
<1>4. pc'[u] = "idle" /\ op'[u] = "none"
  BY <1>0, <1>2 DEF Types
<1>5. Apart(u)
  <2>1. Others(u) /\ Locks(u) /\ ChannelMoves(u)
    BY <1>0, <1>2 DEF Others, Locks, ChannelMoves, Types
  <2>2. Elsewhere(u)
    BY <1>0, <1>1, <1>2 DEF Elsewhere
  <2>3. Records(u) /\ Enters(u)
    BY <1>2, <1>3, <1>4 DEF Records, Enters, InSection
  <2>4. QED
    BY <2>1, <2>2, <2>3 DEF Apart
<1>6. Mine(u)'
  <2>1. Chosen(u)'
    BY <1>2, <1>4, ChosenOn
  <2>2. QED
    BY <1>4, <2>1, MineOutside, Outside
<1>7. ASSUME NEW c \in Channels, c = target[u] PROVE Directory(c)'
  <2>1. Fitting(backup'[c], c)
    <3>1. CASE backup'[c] = None
      BY <3>1 DEF Fitting
    <3>2. CASE backup'[c] \in Remains(backup[c])
      BY <1>0, <1>7, <3>2, RemainsFitting DEF Directory, Names, Types
    <3>3. QED
      BY <1>1, <1>7, <3>1, <3>2
  <2>2. Names(c)'
    BY <1>0, <1>2, <1>7, <2>1 DEF Directory, Names, Fitting, Fits
  <2>3. Stands(c)'
    BY <1>2, StandsOn
  <2>4. ASSUME c \notin overlapped' PROVE Sound(c)'
    <3>1. Full(dir[c], key[u])
      BY <1>0, <1>2, <1>7, <2>4 DEF Mine, Progress
    <3>2. dir[c] # None /\ Whole(dir[c]) /\ Complete(dir[c])
      BY <3>1, FullComplete
    <3>3. DiskOK(c)'
      BY <1>2, <3>2 DEF DiskOK, Whole
    <3>4. Kept(c)'
      BY <1>2, <3>2 DEF Kept, Complete
    <3>5. QED
      BY <3>3, <3>4 DEF Sound
  <2>5. QED
    BY <2>2, <2>3, <2>4 DEF Directory
<1>8. QED
  BY <1>0, <1>5, <1>6, <1>7, StepTogether

-----------------------------------------------------------------------------
(* A crash takes all the threads of a process, and their locks.            *)

LEMMA CrashThreads ==
  ASSUME UpdateInv, NEW p \in Processes, Crash(p)
  PROVE  /\ \A u \in Updaters : u \notin Threads(p) =>
               /\ pc'[u] = pc[u] /\ op'[u] = op[u] /\ target'[u] = target[u]
               /\ key'[u] = key[u] /\ ProcOf[u] # p
         /\ \A u \in Threads(p) :
               /\ pc'[u] = "idle" /\ op'[u] = "none" /\ ProcOf[u] = p
               /\ target'[u] = IF enabled'[p] THEN "enriched" ELSE "oss"
         /\ \A c \in Channels : lock[c] \notin Threads(p) => lock'[c] = lock[c]
         /\ \A q \in Processes : q # p => enabled'[q] = enabled[q]
         /\ p \in Insisting => enabled'[p]
         /\ UNCHANGED <<dir, locking, entry, had, pinned, overlapped, overtaken>>
<1>1. Types
  BY DEF UpdateInv
<1>2. \A u \in Updaters : u \in Threads(p) <=> ProcOf[u] = p
  BY DEF Threads
<1>3. QED
  BY <1>1, <1>2 DEF Types, Crash, ghosts, Threads

LEMMA CrashMine ==
  ASSUME UpdateInv, NEW p \in Processes, Crash(p), NEW u \in Updaters
  PROVE  Mine(u)'
<1>1. Types /\ Mine(u) /\ Chosen(u) /\ target[u] \in Channels /\ ProcOf[u] \in Processes
        /\ u # None
  BY Before, Basics
<1>2. CASE u \in Threads(p)
  <2>1. /\ pc'[u] = "idle" /\ op'[u] = "none" /\ ProcOf[u] = p
        /\ target'[u] = IF enabled'[p] THEN "enriched" ELSE "oss"
        /\ p \in Insisting => enabled'[p]
    BY <1>2, CrashThreads
  <2>2. Chosen(u)'
    BY <2>1 DEF Chosen
  <2>3. QED
    BY <2>1, <2>2, MineOutside, Outside
<1>3. CASE u \notin Threads(p)
  <2>1. /\ pc'[u] = pc[u] /\ op'[u] = op[u] /\ target'[u] = target[u]
        /\ key'[u] = key[u] /\ enabled'[ProcOf[u]] = enabled[ProcOf[u]]
        /\ \A c \in Channels : lock[c] \notin Threads(p) => lock'[c] = lock[c]
        /\ UNCHANGED <<dir, locking, entry, pinned, overlapped, overtaken>>
    BY <1>1, <1>3, CrashThreads
  <2>2. Chosen(u)'
    BY <1>1, <2>1 DEF Chosen, Target
  <2>3. pc'[u] \in Keyed => key'[u] \in Bundles /\ Fits(key[u], target[u])'
    BY <1>1, <2>1 DEF Mine, Fits
  <2>4. locking' /\ pc'[u] \in InSection => lock'[target'[u]] = u
    BY <1>1, <1>3, <2>1 DEF Mine
  <2>5. ASSUME target'[u] \notin overlapped' PROVE Progress(u)'
    <3>1. target[u] \notin overlapped /\ Progress(u)
      BY <1>1, <2>1, <2>5 DEF Mine
    <3>2. ASSUME pc[u] \in InSection PROVE staging'[target[u]] = staging[target[u]]
      <4> SUFFICES ASSUME staging'[target[u]] # staging[target[u]] PROVE FALSE
        OBVIOUS
      <4>1. staging'[target[u]] \in CutShort(p, staging, {"clear"}, target[u])
              /\ staging \in [Channels -> Places]
        BY <1>1, CrashTypes DEF Types
      <4>2. PICK v \in Threads(p) : pc[v] \in {"clear"} /\ target[v] = target[u]
        BY <1>1, <4>1, CutShortFacts
      <4>3. v \in Updaters /\ v # u /\ pc[v] \in InSection
        BY <1>3, <4>2 DEF Threads, InSection
      <4>4. QED
        BY <3>1, <3>2, <4>2, <4>3, OneHolder
    <3>3. QED
      BY <2>1, <3>1, <3>2, ProgressStays
  <2>6. QED
    BY <1>1, <2>1, <2>2, <2>3, <2>4, <2>5 DEF Mine
<1>4. QED
  BY <1>2, <1>3

LEMMA CrashCommon ==
  ASSUME UpdateInv, NEW p \in Processes, Crash(p)
  PROVE  Common'
<1>1. Common
  BY DEF UpdateInv
<1>2. ASSUME NEW q \in Insisting PROVE enabled'[q]
  <2>1. q \in Processes /\ enabled[q]
    BY <1>1, UpdateAssumption DEF Common
  <2>2. QED
    BY <2>1, CrashThreads
<1>3. UNCHANGED <<locking, overlapped>>
  BY CrashThreads
<1>4. \A u \in Updaters : pc'[u] \in InSection => pc[u] \in InSection /\ target'[u] = target[u]
  BY CrashThreads, Outside
<1>5. ASSUME NEW c \in Channels \ overlapped PROVE Alone(c)'
  BY <1>1, <1>4 DEF Common, Alone
<1>6. QED
  BY <1>1, <1>2, <1>3, <1>5 DEF Common

LEMMA CrashDirectory ==
  ASSUME UpdateInv, NEW p \in Processes, Crash(p), NEW c \in Channels
  PROVE  Directory(c)'
<1>0. Types /\ Directory(c) /\ budget.faults \in Nat
  BY FaultsNat DEF UpdateInv
<1>1. /\ budget'.faults = budget.faults + 1
      /\ staging'[c] \in CutShort(p, staging, {"clear"}, c)
      /\ backup'[c] \in CutShort(p, backup, {"drop", "tidy"}, c)
      /\ staging \in [Channels -> Places] /\ backup \in [Channels -> Places]
  BY <1>0, CrashTypes DEF Types
<1>2. UNCHANGED <<dir, had, pinned, overlapped, overtaken>>
  BY CrashThreads
<1>3. /\ staging'[c] = None <=> staging[c] = None
      /\ staging[c] # None => staging'[c].side = staging[c].side
      /\ backup'[c] = None <=> backup[c] = None
      /\ backup[c] # None => backup'[c].side = backup[c].side
      /\ backup'[c] # backup[c] =>
            \E u \in Threads(p) : pc[u] \in {"drop", "tidy"} /\ target[u] = c
  BY <1>0, <1>1, CutShortFacts
<1>4. Names(c)'
  BY <1>0, <1>2, <1>3 DEF Directory, Names, Fitting, Fits
<1>5. Stands(c)'
  BY <1>2, StandsOn
<1>6. ASSUME c \notin overlapped' PROVE Sound(c)'
  <2>1. DiskOK(c) /\ Kept(c) /\ dir'[c] = dir[c] /\ c \notin overlapped /\ had' = had
    BY <1>0, <1>2, <1>6 DEF Directory, Sound
  <2>2. budget'.faults >= 1 /\ budget'.faults \in Nat
    BY <1>0, <1>1
  <2>3. CASE backup'[c] # backup[c]
    <3>1. PICK u \in Threads(p) : pc[u] \in {"drop", "tidy"} /\ target[u] = c
      BY <1>3, <2>3
    <3>2. ~Installing(c) /\ ~Swapping(c)
      BY <2>1, <3>1, HolderInstalls DEF Threads, InSection
    <3>3. dir[c] = None /\ ~Whole(backup'[c]) => budget'.faults >= 2
      <4> SUFFICES ASSUME dir[c] = None, ~Whole(backup'[c]) PROVE budget.faults >= 1
        BY <1>0, <1>1
      <4>1. backup[c] # None
        BY <1>3 DEF Whole
      <4>2. QED
        BY <2>1, <3>2, <4>1 DEF DiskOK
    <3>4. DiskOK(c)'
      BY <1>0, <1>1, <2>1, <2>2, <3>3 DEF DiskOK, Whole
    <3>5. c \in had /\ budget'.faults <= 1 => dir[c] # None /\ Complete(dir[c])
      BY <1>0, <1>1, <2>1, <3>2 DEF Kept
    <3>6. Kept(c)'
      BY <2>1, <3>5 DEF Kept, Complete
    <3>7. QED
      BY <3>4, <3>6 DEF Sound
  <2>4. CASE backup'[c] = backup[c]
    <3>1. DiskOK(c)'
      BY <1>0, <1>1, <2>1, <2>2, <2>4 DEF DiskOK, Whole
    <3>2. c \in had /\ budget'.faults <= 1
            => /\ dir[c] # None => Complete(dir[c])
               /\ dir[c] = None => Complete(backup[c])
      BY <1>0, <1>1, <2>1 DEF Kept
    <3>3. Kept(c)'
      BY <2>1, <2>2, <2>4, <3>2 DEF Kept, Complete
    <3>4. QED
      BY <3>1, <3>3 DEF Sound
  <2>5. QED
    BY <2>3, <2>4
<1>7. QED
  BY <1>4, <1>5, <1>6 DEF Directory

LEMMA CrashKeeps ==
  ASSUME UpdateInv, NEW p \in Processes, Crash(p)
  PROVE  UpdateInv'
<1>1. Types'
  BY CrashTypes DEF UpdateInv
<1>2. QED
  BY <1>1, CrashMine, CrashCommon, CrashDirectory DEF UpdateInv

\* A step that changes nothing the invariant mentions but the types.
LEMMA EverythingStays ==
  ASSUME UpdateInv, Types',
         UNCHANGED <<dir, backup, staging, lock, locking, enabled, op, pc, target, key,
                     entry, ghosts, overtaken, budget>>
  PROVE  UpdateInv'
<1>1. ASSUME NEW u \in Updaters PROVE Mine(u)'
  <2>1. Mine(u)
    BY DEF UpdateInv
  <2>2. Progress(u) => Progress(u)'
    BY ProgressStays
  <2>3. Chosen(u)'
    BY <2>1 DEF Mine, Chosen, Target
  <2>4. pc'[u] \in Keyed => key'[u] \in Bundles /\ Fits(key[u], target[u])'
    BY <2>1 DEF Mine, Fits
  <2>5. QED
    BY <2>1, <2>2, <2>3, <2>4 DEF Mine, ghosts
<1>2. ASSUME NEW c \in Channels PROVE Directory(c)'
  <2>1. Directory(c) /\ had' = had /\ pinned' = pinned /\ overlapped' = overlapped
    BY DEF UpdateInv, ghosts
  <2>2. Names(c)' /\ Stands(c)'
    BY <2>1 DEF Directory, Names, Fitting, Fits, Stands
  <2>3. Sound(c) => Sound(c)'
    BY <2>1 DEF Sound, DiskOK, Kept, Installing, Swapping, Whole, Complete
  <2>4. QED
    BY <2>1, <2>2, <2>3 DEF Directory
<1>3. Common'
  BY DEF UpdateInv, Common, Alone, ghosts
<1>4. QED
  BY <1>1, <1>2, <1>3 DEF UpdateInv

LEMMA PublishKeeps ==
  ASSUME UpdateInv, Publish
  PROVE  UpdateInv'
<1>1. UNCHANGED <<dir, backup, staging, lock, locking, enabled, op, pc, target, key,
                  attempt, succeeded, entry, ghosts, overtaken, budget>>
  BY DEF Publish, disk, Self
<1>2. published' \in [Channels -> 1..MaxVersion]
  <2>1. PICK c \in Publishing : /\ published[c] < MaxVersion
                                /\ published' = [published EXCEPT ![c] = published[c] + 1]
    BY DEF Publish
  <2>2. published \in [Channels -> 1..MaxVersion] /\ MaxVersion \in Nat /\ c \in Channels
    BY UpdateAssumption DEF UpdateInv, Types
  <2>3. published[c] + 1 \in 1..MaxVersion
    BY <2>1, <2>2
  <2>4. QED
    BY <2>1, <2>2, <2>3
<1>3. Types'
  BY <1>1, <1>2 DEF UpdateInv, Types, ghosts
<1>4. QED
  BY <1>1, <1>3, EverythingStays

LEMMA UpdateInvNext == UpdateInv /\ [Next]_vars => UpdateInv'
<1> SUFFICES ASSUME UpdateInv, [Next]_vars PROVE UpdateInv'
  OBVIOUS
<1>1. CASE UNCHANGED vars
  <2>1. UNCHANGED <<dir, backup, staging, lock, locking, enabled, op, pc, target, key,
                    attempt, succeeded, entry, ghosts, overtaken, budget>>
          /\ UNCHANGED published
    BY <1>1 DEF vars, disk
  <2>2. Types'
    BY <2>1 DEF UpdateInv, Types, ghosts
  <2>3. QED
    BY <2>1, <2>2, EverythingStays
<1>2. CASE Publish
  BY <1>2, PublishKeeps
<1>3. ASSUME NEW u \in Updaters, Work(u) PROVE UpdateInv'
  BY <1>3, StartKeeps, ManifestKeeps, CheckKeeps, BundleKeeps, LockKeeps, ClearKeeps,
     UnpackKeeps, MarkKeeps, DropKeeps, FailuresKeep, RetireKeeps, InstallKeeps,
     InstallFailsKeeps, TidyKeeps
     DEF Work
<1>4. ASSUME NEW u \in Updaters,
             \/ Begin(u) \/ Refused(u) \/ Retry(u) \/ DownloadFails(u)
             \/ RestoreFails(u) \/ DiskFails(u)
      PROVE  UpdateInv'
  BY <1>4, BeginKeeps, RetryKeeps, FailuresKeep
<1>5. ASSUME NEW p \in Processes, Crash(p) PROVE UpdateInv'
  BY <1>5, CrashKeeps
<1>6. QED
  BY <1>1, <1>2, <1>3, <1>4, <1>5 DEF Next

\* The inductive invariant.  Whatever overlaps, a directory holds what its name
\* allows and a checkout stands until it is pinned over; as long as one install
\* at a time is in a directory, each knows what is there, and the directory is
\* whole, or has a whole backup, up to the faults that have happened.  Where the
\* file system has locks, that is always.
THEOREM UpdateInvariant == Spec => []UpdateInv
<1>1. Init => UpdateInv
  BY UpdateInvInit
<1>2. QED
  BY <1>1, UpdateInvNext, PTL DEF Spec

\* Every variable has its type; no download is tried more than ATTEMPTS times.
THEOREM UpdateTypes == Spec => []TypeOK
<1>1. UpdateInv => TypeOK
  <2> SUFFICES ASSUME Types PROVE TypeOK
    BY DEF UpdateInv
  <2>1. Pcs = {"idle", "start", "manifest", "check", "bundle", "lock"} \cup InSection
    BY DEF Pcs, Going, Keyed
  <2>2. QED
    BY <2>1 DEF Types, TypeOK, Places, Ops, Budgets
<1>2. QED
  BY <1>1, UpdateInvariant, PTL

\* install: with locks no two installs share a staging path, whatever processes
\* and crashes there are; and where none have, a tree in place has every file of
\* the bundle its sidecar names, until a third fault.
THEOREM TreesWhole == Spec => []NoPartialTree
<1>1. UpdateInv => NoPartialTree
  <2> SUFFICES ASSUME UpdateInv, budget.faults <= 2, NEW c \in Channels \ overlapped,
                      Installed(c) # None
               PROVE  Complete(dir[c])
    BY DEF NoPartialTree, UpdateInv, Common
  <2>1. Whole(dir[c])
    BY DEF UpdateInv, Directory, Sound, DiskOK
  <2>2. QED
    BY <2>1 DEF Installed, Whole, Complete
<1>2. QED
  BY <1>1, UpdateInvariant, PTL

\* swap_into_place: once a channel has had a complete tree, one fault always
\* leaves a complete tree in place, staged or backed up, unless installs have
\* shared its staging path on a file system without locks.
THEOREM CopyKept == Spec => []CopySurvives
<1>1. UpdateInv => CopySurvives
  <2> SUFFICES ASSUME UpdateInv, NEW c \in had \ overlapped, budget.faults <= 1
               PROVE  \E t \in {dir[c], backup[c], staging[c]} : Complete(t)
    BY DEF CopySurvives
  <2>1. c \in Channels /\ Kept(c)
    BY DEF UpdateInv, Types, Directory, Sound
  <2>2. CASE dir[c] # None
    BY <2>1, <2>2 DEF Kept
  <2>3. CASE dir[c] = None /\ Complete(backup[c])
    BY <2>3
  <2>4. CASE dir[c] = None /\ Swapping(c)
    <3>1. PICK u \in Updaters : pc[u] \in {"retire", "install"} /\ target[u] = c
      BY <2>4 DEF Swapping
    <3>2. Full(staging[c], key[u])
      BY <3>1 DEF UpdateInv, Mine, Progress
    <3>3. Complete(staging[c])
      BY <3>2, FullComplete
    <3>4. QED
      BY <3>3
  <2>5. QED
    BY <2>1, <2>2, <2>3, <2>4 DEF Kept
<1>2. QED
  BY <1>1, UpdateInvariant, PTL

\* The directory oss never holds an enriched bundle, and a process that insists
\* on the enriched channel is never moved off it.  That the directory enriched
\* holds no bundle of the other channel is so until a thread falls back for its
\* process while another one is on its way to the manifest.
THEOREM ChannelsStay == Spec => []ChannelsKept
<1>1. UpdateInv => OssHoldsOss /\ DirectoryNamesChannel
  <2> SUFFICES ASSUME UpdateInv, NEW c \in Channels, Installed(c) # None
               PROVE  Fits(Installed(c), c)
    BY Basics DEF OssHoldsOss, DirectoryNamesChannel, Fits
  <2>1. QED
    BY DEF UpdateInv, Directory, Names, Fitting, Installed
<1>2. UpdateInv => NeverQuietDowngrade
  BY DEF UpdateInv, Mine, Chosen, NeverQuietDowngrade
<1>3. QED
  BY <1>1, <1>2, UpdateInvariant, PTL DEF ChannelsKept

\* is_git_managed: a checkout stays in its place until the first pin replaces it,
\* with locks or without.  What an update saw before it went for the lock is
\* still so when it renames, because nothing but a pin changes it.
THEOREM CheckoutStays == Spec => []CheckoutGoesByPin
<1>1. UpdateInv => CheckoutGoesByPin
  BY UpdateAssumption DEF UpdateInv, Directory, Stands, CheckoutGoesByPin
<1>2. QED
  BY <1>1, UpdateInvariant, PTL
=============================================================================
