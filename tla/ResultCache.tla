---------------------------- MODULE ResultCache ----------------------------
(***************************************************************************)
(* What the analysis cache promises its callers (src/analysis_cache.rs):   *)
(* a lookup answers only with a report that was stored under the same key  *)
(* (content hash, options, traits revision), that no gap marks incomplete, *)
(* and whose path the caller's rules cannot tell from the caller's own.    *)
(* Nothing more: a stored report may be forgotten at any time.             *)
(***************************************************************************)
CONSTANTS
    Callers,    \* threads that look up
    Reports,    \* records with the fields key, path and quality
    SamePath,   \* pairs of paths that rules cannot tell apart
    NoReport

VARIABLES
    cached,   \* the reports the cache may still answer with
    answer    \* the last hit of each caller, with the question it answers

CacheInit ==
    /\ cached = {}
    /\ answer = [c \in Callers |-> NoReport]

\* An analysis without a gap is stored; what it replaces is forgotten.
Store(r) ==
    /\ r.quality # "gap"
    /\ cached' \subseteq cached \cup {r}
    /\ UNCHANGED answer

\* Eviction, a full queue, a failed write or a crash.
Forget ==
    /\ cached' \subseteq cached
    /\ UNCHANGED answer

\* A hit.  The memo that takes the report in may push others out.
Hit(c, q, r) ==
    /\ r \in cached
    /\ r.key = q.key
    /\ <<r.path, q.path>> \in SamePath
    /\ answer' = [answer EXCEPT ![c] = [to |-> q, is |-> r]]
    /\ cached' \subseteq cached

Miss(c) ==
    /\ answer' = [answer EXCEPT ![c] = NoReport]
    /\ cached' \subseteq cached

\* A new process starts with what the old one left on disk.
Restart ==
    /\ cached' \subseteq cached
    /\ answer' = [c \in Callers |-> NoReport]

CacheNext ==
    \/ \E r \in Reports : Store(r)
    \/ Forget
    \/ \E c \in Callers, q \in Reports, r \in Reports : Hit(c, q, r)
    \/ \E c \in Callers : Miss(c)
    \/ Restart

CacheSpec == CacheInit /\ [][CacheNext]_<<cached, answer>>
=============================================================================
