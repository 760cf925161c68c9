--------------------------- MODULE ParallelOwners ---------------------------
(***************************************************************************)
(* The bounded owner slots of nested parallelism (src/rayon_nest.rs).      *)
(*                                                                         *)
(* An analysis that wants to fan out while siblings are in flight claims   *)
(* an owner slot with a compare-and-swap loop and keeps it until its guard *)
(* is dropped.  There are two kinds of slots (inner work of a top-level    *)
(* analysis, nested members) and two classes of threads (foreground and    *)
(* background), with a counter and a cap for each pair.  Guards nest: a    *)
(* lane that pulls a path while it waits enters a second top-level         *)
(* analysis on the same thread, with thread-locals saved in the guard.     *)
(***************************************************************************)
EXTENDS Integers, Sequences, FiniteSets

CONSTANTS
    Threads,     \* threads that analyse
    MaxFrames,   \* bound: guards alive on one thread
    WordMax,     \* usize::MAX
    PoolCap,     \* inner_cap_for / nested_cap_for of the pool, by kind
    HostCaps     \* what set_parallel_owner_caps may store

Kinds == {"inner", "nested"}
Classes == {"foreground", "background"}
Slots == Kinds \X Classes

ASSUME OwnersAssumption ==
    /\ IsFiniteSet(Threads)
    /\ MaxFrames \in Nat
    /\ WordMax \in Nat \ {0}
    /\ PoolCap \in [Kinds -> 1..WordMax]
    /\ HostCaps \subseteq [Slots -> 1..WordMax]

VARIABLES
    frames,    \* the guards on each thread, the innermost last
    top,       \* TOPLEVEL_ID # 0
    owns,      \* OWNS_INNER_PARALLELISM
    nested,    \* NESTED_MEMBER_PARALLELISM
    dedicated, \* DEDICATED_POOL
    class,     \* BACKGROUND_THREAD
    claim,     \* the compare-and-swap loop each thread is in, or Idle
    inFlight,  \* TOPLEVEL_IN_FLIGHT
    owners,    \* the four owner counters
    hostCap,   \* the caps set by set_parallel_owner_caps, 0: not set
    fixedCap   \* the OnceLock of the foreground caps, 0: not initialised

locals == <<frames, top, owns, nested, dedicated>>
vars == <<frames, top, owns, nested, dedicated, class, claim, inFlight, owners,
          hostCap, fixedCap>>

Idle == [kind |-> "none"]
Claims == [kind : Kinds, limit : 1..WordMax, seen : 0..WordMax]
TopGuards == [guard : {"top"}, wasTop : BOOLEAN, wasOwner : BOOLEAN,
              wasDedicated : BOOLEAN, dedicated : BOOLEAN, class : Classes]
NestedGuards == [guard : {"nested"}, previous : BOOLEAN, class : Classes]

TypeOK ==
    /\ frames \in [Threads -> Seq(TopGuards \cup NestedGuards)]
    /\ top \in [Threads -> BOOLEAN]
    /\ owns \in [Threads -> BOOLEAN]
    /\ nested \in [Threads -> BOOLEAN]
    /\ dedicated \in [Threads -> BOOLEAN]
    /\ class \in [Threads -> Classes]
    /\ claim \in [Threads -> Claims \cup {Idle}]
    /\ inFlight \in 0..WordMax
    /\ owners \in [Slots -> 0..WordMax]
    /\ hostCap \in [Slots -> 0..WordMax]
    /\ fixedCap \in [Kinds -> 0..WordMax]

Init ==
    /\ frames = [t \in Threads |-> <<>>]
    /\ top = [t \in Threads |-> FALSE]
    /\ owns = [t \in Threads |-> FALSE]
    /\ nested = [t \in Threads |-> FALSE]
    /\ dedicated = [t \in Threads |-> FALSE]
    /\ class = [t \in Threads |-> "foreground"]
    /\ claim = [t \in Threads |-> Idle]
    /\ inFlight = 0
    /\ owners = [s \in Slots |-> 0]
    /\ hostCap = [s \in Slots |-> 0]
    /\ fixedCap = [k \in Kinds |-> 0]

-----------------------------------------------------------------------------
\* fetch_sub(1) on an AtomicUsize.
Dec(n) == IF n = 0 THEN WordMax ELSE n - 1

\* max_inner_parallel_owners and max_nested_member_owners fix the foreground
\* caps at their first call; the background ones are read at every claim.
ForegroundCap(k) ==
    IF fixedCap[k] # 0 THEN fixedCap[k]
    ELSE IF hostCap[<<k, "foreground">>] # 0 THEN hostCap[<<k, "foreground">>]
    ELSE PoolCap[k]

BackgroundCap(k) ==
    IF hostCap[<<k, "background">>] = 0 THEN 1 ELSE hostCap[<<k, "background">>]
Cap(k, c) == IF c = "background" THEN BackgroundCap(k) ELSE ForegroundCap(k)

Last(t) == frames[t][Len(frames[t])]
Pushed(t, g) == frames' = [frames EXCEPT ![t] = Append(@, g)]
Popped(t) == frames' = [frames EXCEPT ![t] = SubSeq(@, 1, Len(@) - 1)]

\* mark_thread_background, "meant for a rayon pool's start handler": before the
\* thread's first analysis.
MarkBackground(t) ==
    /\ frames[t] = <<>>
    /\ claim[t] = Idle
    /\ class[t] = "foreground"
    /\ class' = [class EXCEPT ![t] = "background"]
    /\ UNCHANGED <<locals, claim, inFlight, owners, hostCap, fixedCap>>

\* set_parallel_owner_caps, called once by the host.
SetCaps(caps) ==
    /\ \A s \in Slots : hostCap[s] = 0
    /\ hostCap' = caps
    /\ UNCHANGED <<locals, class, claim, inFlight, owners, fixedCap>>

\* enter_toplevel_analysis_on
EnterToplevel(t, d) ==
    /\ claim[t] = Idle
    /\ Len(frames[t]) < MaxFrames
    /\ Pushed(t, [guard |-> "top", wasTop |-> top[t], wasOwner |-> owns[t],
                  wasDedicated |-> dedicated[t], dedicated |-> d,
                  class |-> class[t]])
    /\ top' = [top EXCEPT ![t] = TRUE]
    /\ owns' = [owns EXCEPT ![t] = FALSE]
    /\ dedicated' = [dedicated EXCEPT ![t] = d]
    /\ inFlight' = IF d THEN inFlight ELSE inFlight + 1
    /\ UNCHANGED <<nested, class, claim, owners, hostCap, fixedCap>>

\* Mutant: the slot of the analysis below is given back as well.
LeaveToplevelTwice(t) ==
    /\ claim[t] = Idle
    /\ frames[t] # <<>>
    /\ Last(t).guard = "top"
    /\ Popped(t)
    /\ owns' = [owns EXCEPT ![t] = Last(t).wasOwner]
    /\ owners' = IF owns[t] \/ Last(t).wasOwner
                 THEN [owners EXCEPT ![<<"inner", Last(t).class>>] = Dec(@)]
                 ELSE owners
    /\ top' = [top EXCEPT ![t] = Last(t).wasTop]
    /\ dedicated' = [dedicated EXCEPT ![t] = Last(t).wasDedicated]
    /\ inFlight' = IF Last(t).dedicated THEN inFlight ELSE Dec(inFlight)
    /\ UNCHANGED <<nested, class, claim, hostCap, fixedCap>>

\* Drop for ToplevelInFlightGuard
LeaveToplevel(t) ==
    /\ claim[t] = Idle
    /\ frames[t] # <<>>
    /\ Last(t).guard = "top"
    /\ Popped(t)
    /\ owns' = [owns EXCEPT ![t] = Last(t).wasOwner]
    /\ owners' = IF owns[t]
                 THEN [owners EXCEPT ![<<"inner", Last(t).class>>] = Dec(@)]
                 ELSE owners
    /\ top' = [top EXCEPT ![t] = Last(t).wasTop]
    /\ dedicated' = [dedicated EXCEPT ![t] = Last(t).wasDedicated]
    /\ inFlight' = IF Last(t).dedicated THEN inFlight ELSE Dec(inFlight)
    /\ UNCHANGED <<nested, class, claim, hostCap, fixedCap>>

\* The load before a compare-and-swap loop; it fixes the foreground cap.
Load(t, k) ==
    /\ claim' = [claim EXCEPT ![t] =
         [kind |-> k, limit |-> Cap(k, class[t]), seen |-> owners[<<k, class[t]>>]]]
    /\ fixedCap' = IF class[t] = "foreground"
                   THEN [fixedCap EXCEPT ![k] = ForegroundCap(k)]
                   ELSE fixedCap
    /\ UNCHANGED <<locals, class, inFlight, owners, hostCap>>

\* inner_work_parallel: what is left once the early answers are excluded.  A
\* draining scan also answers early, so the claim is a possibility only.
AskInner(t) ==
    /\ claim[t] = Idle
    /\ ~dedicated[t]
    /\ inFlight > 1
    /\ ~nested[t]
    /\ top[t]
    /\ ~owns[t]
    /\ Load(t, "inner")

\* try_enter_nested_member_parallelism, on a thread that has a nested slot ...
ReenterNested(t) ==
    /\ claim[t] = Idle
    /\ nested[t]
    /\ Len(frames[t]) < MaxFrames
    /\ Pushed(t, [guard |-> "nested", previous |-> TRUE, class |-> class[t]])
    /\ UNCHANGED <<top, owns, nested, dedicated, class, claim, inFlight, owners,
                   hostCap, fixedCap>>

\* ... and on one that has not.
AskNested(t) ==
    /\ claim[t] = Idle
    /\ ~nested[t]
    /\ Len(frames[t]) < MaxFrames
    /\ Load(t, "nested")

\* Mutant: the counter is added to whatever it holds by now.
SwapLate(t) ==
    /\ claim[t] # Idle
    /\ claim[t].seen < claim[t].limit
    /\ owners' = [owners EXCEPT ![<<claim[t].kind, class[t]>>] = @ + 1]
    /\ claim' = [claim EXCEPT ![t] = Idle]
    /\ IF claim[t].kind = "inner"
       THEN owns' = [owns EXCEPT ![t] = TRUE] /\ UNCHANGED <<nested, frames>>
       ELSE /\ nested' = [nested EXCEPT ![t] = TRUE]
            /\ Pushed(t, [guard |-> "nested", previous |-> FALSE, class |-> class[t]])
            /\ UNCHANGED owns
    /\ UNCHANGED <<top, dedicated, class, inFlight, hostCap, fixedCap>>

\* The compare-and-swap succeeds: a slot of the thread's class is claimed.
Swap(t) ==
    /\ claim[t] # Idle
    /\ claim[t].seen < claim[t].limit
    /\ owners[<<claim[t].kind, class[t]>>] = claim[t].seen
    /\ owners' = [owners EXCEPT ![<<claim[t].kind, class[t]>>] = @ + 1]
    /\ claim' = [claim EXCEPT ![t] = Idle]
    /\ IF claim[t].kind = "inner"
       THEN owns' = [owns EXCEPT ![t] = TRUE] /\ UNCHANGED <<nested, frames>>
       ELSE /\ nested' = [nested EXCEPT ![t] = TRUE]
            /\ Pushed(t, [guard |-> "nested", previous |-> FALSE, class |-> class[t]])
            /\ UNCHANGED owns
    /\ UNCHANGED <<top, dedicated, class, inFlight, hostCap, fixedCap>>

\* It fails: go on with the value that was there.
SwapFails(t) ==
    /\ claim[t] # Idle
    /\ claim[t].seen < claim[t].limit
    /\ owners[<<claim[t].kind, class[t]>>] # claim[t].seen
    /\ claim' = [claim EXCEPT ![t].seen = owners[<<claim[t].kind, class[t]>>]]
    /\ UNCHANGED <<locals, class, inFlight, owners, hostCap, fixedCap>>

\* No slot is free: the work stays serial.
StaySerial(t) ==
    /\ claim[t] # Idle
    /\ claim[t].seen >= claim[t].limit
    /\ claim' = [claim EXCEPT ![t] = Idle]
    /\ UNCHANGED <<locals, class, inFlight, owners, hostCap, fixedCap>>

\* Drop for NestedMemberParallelGuard
LeaveNested(t) ==
    /\ claim[t] = Idle
    /\ frames[t] # <<>>
    /\ Last(t).guard = "nested"
    /\ Popped(t)
    /\ nested' = [nested EXCEPT ![t] = Last(t).previous]
    /\ owners' = IF nested[t] /\ ~Last(t).previous
                 THEN [owners EXCEPT ![<<"nested", Last(t).class>>] = Dec(@)]
                 ELSE owners
    /\ UNCHANGED <<top, owns, dedicated, class, claim, inFlight, hostCap, fixedCap>>

ThreadStep(t) ==
    \/ MarkBackground(t)
    \/ \E d \in BOOLEAN : EnterToplevel(t, d)
    \/ LeaveToplevel(t)
    \/ AskInner(t)
    \/ ReenterNested(t)
    \/ AskNested(t)
    \/ Swap(t)
    \/ SwapFails(t)
    \/ StaySerial(t)
    \/ LeaveNested(t)

Next ==
    \/ \E t \in Threads : ThreadStep(t)
    \/ \E caps \in HostCaps : SetCaps(caps)

Spec == Init /\ [][Next]_vars

-----------------------------------------------------------------------------
(* Properties *)

Guards(g) == {s \in Threads \X (1..MaxFrames) :
                s[2] <= Len(frames[s[1]]) /\ frames[s[1]][s[2]].guard = g}

\* Whether the analysis of the i-th guard, a top one, owns an inner slot: the
\* thread-local says so for the innermost one, the next top guard above it for
\* the others.
OwnsSlot(stack, own, i) ==
    \/ own /\ \A n \in i + 1..Len(stack) : stack[n].guard # "top"
    \/ \E n \in i + 1..Len(stack) :
          /\ stack[n].guard = "top" /\ stack[n].wasOwner
          /\ \A m \in i + 1..n - 1 : stack[m].guard # "top"

\* Every counter is the number of guards that will give a slot of that kind
\* and class back, and the in-flight count that of the analyses on the shared
\* pool: no analysis, however guards nest, leaks a slot, returns one twice or
\* returns it to the other class.
SlotsMatchGuards ==
    /\ inFlight = Cardinality({g \in Guards("top") : ~frames[g[1]][g[2]].dedicated})
    /\ \A c \in Classes :
        /\ owners[<<"inner", c>>] =
             Cardinality({g \in Guards("top") :
                            frames[g[1]][g[2]].class = c
                              /\ OwnsSlot(frames[g[1]], owns[g[1]], g[2])})
        /\ owners[<<"nested", c>>] =
             Cardinality({g \in Guards("nested") :
                            frames[g[1]][g[2]].class = c /\ ~frames[g[1]][g[2]].previous})

\* However the loops of the threads interleave, and whenever the host sets the
\* caps, no class has more owners than its cap allows.
CapsHold == \A k \in Kinds, c \in Classes : owners[<<k, c>>] <= Cap(k, c)

=============================================================================
