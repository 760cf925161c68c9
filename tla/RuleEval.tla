------------------------------ MODULE RuleEval ------------------------------
(***************************************************************************)
(* The evaluation of one file's rules (capabilities/mapper): atomic traits  *)
(* in two passes, the second to a fixed point; composite rules to a fixed   *)
(* point, those with `unless:` after the others; and the pass that takes    *)
(* back, once everything is known, what an `unless:` would have withheld    *)
(* had its suppressor been there in time, with all that stood on it.        *)
(*                                                                         *)
(* What the file holds is settled before: whether a content condition       *)
(* matches is part of the rule book, and so are the gates (platform,        *)
(* architecture, type, size, proximity).  A trait reference is the set of   *)
(* rule ids it resolves to: one id for `dir::id`, several for a directory.  *)
(* So is how serious a finding is, after downgrades.  The record of         *)
(* suppressions and the report's limit of 8192 findings are left out.       *)
(***************************************************************************)
EXTENDS Naturals, FiniteSets

CONSTANTS
    Atoms,       \* atomic traits
    Composites,  \* composite rules
    ThirdParty,  \* third-party YARA rules
    Exceptions,  \* composites of `crit: exception`
    Books,       \* the rule books, each with the file it is evaluated on
    MaxRounds,   \* MAX_ITERATIONS
    MaxFindings, \* MAX_FINDINGS_PER_FILE: what a pass returns at most
    MayCancel,   \* whether the analysis may be cancelled
    MayRunLate   \* whether a pass may run past its deadline

Ids == Atoms \cup Composites \cup ThirdParty
Rules == Atoms \cup Composites
Refs == (SUBSET Ids) \ {{}}

\* A book: the reference of a trait's `if:` ({} when it looks at content), the
\* traits and composites whose content conditions and gates hold, the legs of a
\* composite with the content leg its `any:` may have, the references of an
\* `unless:` (for a third-party rule, the contexts its configuration names), and
\* the findings of the file's decoded layers, of its plaintext views, and of YARA.
\* Then what the shortcuts go by: composites of the file's type, component and
\* baseline traits (but those that a `downgrade:` or a composite of a wider scope
\* names), traits that the gates or the match indexes rule out, notable findings,
\* traits that the limit of a pass spares (suspicious, or named by a
\* `downgrade:`), and whether the file is tiny and without facts.
IsBook(bk) ==
    /\ bk.cond \in [Atoms -> SUBSET Ids]
    /\ bk.holds \subseteq Rules
    /\ bk.all \in [Composites -> SUBSET Refs]
    /\ bk.any \in [Composites -> SUBSET Refs]
    /\ bk.anyContent \in [Composites -> {"none", "hit", "miss"}]
    /\ bk.needs \in [Composites -> Nat \ {0}]
    /\ bk.unless \in [Ids -> SUBSET Refs]
    /\ bk.layer \subseteq Rules /\ bk.view \subseteq Rules
    /\ bk.yara \subseteq ThirdParty
    /\ bk.applies \subseteq Composites /\ bk.holds \cap Composites \subseteq bk.applies
    /\ bk.low \subseteq Atoms
    /\ bk.cannot \subseteq Atoms \ bk.holds
    /\ bk.notable \subseteq Ids \ bk.low
    /\ bk.spared \subseteq Atoms
    /\ bk.tiny \in BOOLEAN

\* broken_references: validation reports a composite whose leg no rule defines; in a
\* tree that passes it, none stands on a third-party finding.
LegsNameRules ==
    \A bk \in Books : \A c \in Composites : UNION (bk.all[c] \cup bk.any[c]) \subseteq Rules

ASSUME BookAssumption == \A bk \in Books : IsBook(bk)
ASSUME RuleAssumption ==
    /\ IsFiniteSet(Ids)
    /\ Exceptions \subseteq Composites
    /\ Atoms \cap Composites = {} /\ Rules \cap ThirdParty = {}
ASSUME BoundAssumption ==
    /\ MaxRounds \in Nat \ {0} /\ MaxFindings \in Nat
    /\ MayCancel \in BOOLEAN /\ MayRunLate \in BOOLEAN

VARIABLES
    book,       \* the rules and the file; never changes
    step,       \* where the evaluation is
    report,     \* report.findings, as ids
    refs,       \* trait_refs of each finding
    changed,    \* what the round before this one added
    found,      \* the composites found so far (all_findings without the layers)
    round,      \* rounds of the loop at work
    outer,      \* rounds of the negative loop
    removed,    \* findings being taken out, with their dependents to follow
    cancelled,  \* the cancellation flag
    gap,        \* AnalysisGap::EvaluationDeadline
    shed,       \* findings that a pass had too many
    merged,     \* report and refs when the last rule had been evaluated
    capped      \* some loop ended at its bound

evalVars == <<book, step, report, refs, changed, found, round, outer, removed,
              cancelled, gap, shed, merged, capped>>

Steps == {"independent", "dependent", "positive", "negative", "again", "merge",
          "third_party", "sweep", "cascade", "done"}

EvalInit ==
    /\ book \in Books
    /\ step = "independent"
    /\ report = book.yara
    /\ refs = [i \in Ids |-> {}]
    /\ changed = {} /\ found = {} /\ removed = {}
    /\ round = 1 /\ outer = 1
    /\ cancelled = FALSE /\ gap = FALSE /\ shed = {} /\ capped = FALSE
    /\ merged = [ids |-> {}, refs |-> refs]

-----------------------------------------------------------------------------
(* What a rule says of a set of findings. *)

\* A directory does not reach an exception, except for another exception.
Reached(i, ref, S) ==
    IF Cardinality(ref) = 1 \/ i \in Exceptions
    THEN ref \cap S ELSE (ref \cap S) \ Exceptions

UnlessIds(i) == UNION book.unless[i]
Withheld(i, S) == \E r \in book.unless[i] : Reached(i, r, S) # {}

TraitMatches(t, S) ==
    /\ ~Withheld(t, S)
    /\ t \in book.holds
    /\ book.cond[t] # {} => Reached(t, book.cond[t], S) # {}

\* A directory counts once for every finding in it.
Backing(c, conds, S) == UNION {{r} \X Reached(c, r, S) : r \in conds}
HasAny(c) == book.any[c] # {} \/ book.anyContent[c] # "none"
Legs(c) == Cardinality(book.any[c]) + (IF book.anyContent[c] = "none" THEN 0 ELSE 1)

AnyHolds(c, S) ==
    HasAny(c) =>
        Cardinality(Backing(c, book.any[c], S))
            + (IF book.anyContent[c] = "hit" THEN 1 ELSE 0) >= book.needs[c]

CompositeMatches(c, S) ==
    /\ ~Withheld(c, S)
    /\ c \in book.holds
    /\ \A r \in book.all[c] : Reached(c, r, S) # {}
    /\ AnyHolds(c, S)

MatchedTraitIds(c, S) ==
    UNION {Reached(c, r, S) : r \in book.all[c] \cup book.any[c]}

HasTraitDependency(t) == book.cond[t] # {} \/ book.unless[t] # {}
HasNegativeConditions(c) == book.unless[c] # {}

\* The references a composite cannot do without: a rule is not even looked at
\* while one of those that name an atomic trait is missing.
RequiredTraitIds(c) ==
    {x \in Atoms : {x} \in book.all[c]}
        \cup IF book.needs[c] >= Legs(c) /\ \A r \in book.any[c] : Cardinality(r) = 1
             THEN {x \in Atoms : {x} \in book.any[c]} ELSE {}

-----------------------------------------------------------------------------
(* Steps 1 and 2: atomic traits *)

\* doomed_skip: a trait of no weight by itself is skipped when each composite
\* that cannot do without it needs another trait which is ruled out, ...
Consumers(t) == {c \in book.applies : t \in RequiredTraitIds(c)}
HasDirectory(c) == \E r \in book.any[c] : Cardinality(r) > 1

\* Mutant: the legs of an `any:` that one of them satisfies may be skipped.
NeverSkipLegs(t) ==
    \/ t \notin book.low
    \/ \E i \in Rules : t \in UnlessIds(i)
    \/ \E c \in Composites : HasDirectory(c) /\ t \in UNION (book.all[c] \cup book.any[c])

\* ... unless something may look for it by itself.
NeverSkip(t) ==
    \/ t \notin book.low
    \/ \E i \in Rules : t \in UnlessIds(i)
    \/ \E c \in Composites : book.needs[c] < Legs(c) /\ t \in UNION book.any[c]
    \/ \E c \in Composites : HasDirectory(c) /\ t \in UNION (book.all[c] \cup book.any[c])

Doomed(t) ==
    /\ ~NeverSkip(t)
    /\ Consumers(t) # {}
    /\ \A c \in Consumers(t) : (RequiredTraitIds(c) \ {t}) \cap book.cannot # {}

Hits(list) == {t \in list : TraitMatches(t, report)}

\* The rescue: doomed traits are evaluated while nothing notable has been found.
Evaluated(list) ==
    LET rest == Hits({t \in list : ~Doomed(t)})
    IN  IF (rest \cup report) \cap book.notable # {} THEN rest ELSE Hits(list)

\* A pass that finds too much keeps what is suspicious or may be referred to, and
\* as many of the others as its limit leaves room for.
Referenced ==
    UNION {book.cond[t] : t \in Atoms} \cup UNION {UnlessIds(i) : i \in Rules}
        \cup UNION {UNION (book.all[c] \cup book.any[c]) : c \in Composites}
Protected == book.spared \cup Referenced

Presented(hits) ==
    LET kept == Cardinality(hits \cap Protected) IN
    IF Cardinality(hits) <= MaxFindings THEN {hits}
    ELSE {out \in SUBSET hits :
             /\ hits \cap Protected \subseteq out
             /\ Cardinality(out) = IF kept > MaxFindings THEN kept ELSE MaxFindings}

\* What a pass over a list returns, when it looks at all of it, and when a
\* cancellation or its deadline cuts it short.
PassResult(list, out) ==
    \/ /\ out \in Presented(Evaluated(list))
       /\ shed' = shed \cup (Evaluated(list) \ out)
       /\ UNCHANGED <<cancelled, gap>>
    \/ /\ out \in SUBSET Hits(list)
       /\ \/ MayCancel /\ cancelled' = TRUE /\ UNCHANGED gap
          \/ MayRunLate /\ gap' = TRUE /\ UNCHANGED cancelled
       /\ UNCHANGED shed

\* Nothing is looked for in a file of less than 100 bytes that holds no facts.
IndependentTraits == IF book.tiny THEN {} ELSE {t \in Atoms : ~HasTraitDependency(t)}

Independent ==
    /\ step = "independent"
    /\ IF cancelled
       THEN step' = "done" /\ UNCHANGED <<report, cancelled, gap, shed>>
       ELSE \E out \in SUBSET Atoms :
            /\ PassResult(IndependentTraits, out)
            /\ report' = report \cup out
            /\ step' = "dependent"
    /\ UNCHANGED <<book, refs, changed, found, round, outer, removed, merged, capped>>

\* Mutant: a rescan that compares references with ids and forgets directories.
RescanKeepExact(t) ==
    round = 1 \/ (t \notin report /\ \E x \in changed : {x} = book.cond[t])

\* A later round looks only at traits not yet found that refer to a finding the
\* round before has added.
RescanKeep(t) ==
    round = 1 \/ (t \notin report /\ (book.cond[t] \cup UnlessIds(t)) \cap changed # {})

Worklist == {t \in Atoms : HasTraitDependency(t) /\ RescanKeep(t)}

Dependent ==
    /\ step = "dependent"
    /\ IF cancelled
       THEN step' = "positive" /\ round' = 1 /\ UNCHANGED <<report, changed, cancelled,
                                                            gap, shed, capped>>
       ELSE \E out \in SUBSET Atoms :
            /\ PassResult(Worklist, out)
            /\ LET new == out \ report IN
               /\ report' = report \cup new
               /\ changed' = new
               /\ capped' = (capped \/ (new # {} /\ round = MaxRounds))
               /\ IF new = {} \/ round = MaxRounds
                  THEN step' = "positive" /\ round' = 1
                  ELSE round' = round + 1 /\ UNCHANGED step
    /\ UNCHANGED <<book, refs, found, outer, removed, merged>>

-----------------------------------------------------------------------------
(* Step 4: composite rules *)

Scope == report \cup book.layer \cup book.view \cup found

\* The rules of one list that match in this round: not those the report, a
\* decoded layer or an earlier round has, but those a plaintext view has.
EvalRules(list) ==
    {c \in list : /\ RequiredTraitIds(c) \subseteq Scope
                  /\ c \notin report \cup book.layer \cup found
                  /\ CompositeMatches(c, Scope)}

Positive == {c \in Composites : ~HasNegativeConditions(c)}
Negative == Composites \ Positive

AddFindings(new) ==
    /\ found' = found \cup new
    /\ refs' = [i \in Ids |-> IF i \in new THEN MatchedTraitIds(i, Scope) ELSE refs[i]]

\* Pass 1, and the same again after each negative round.
PositiveRound ==
    /\ step \in {"positive", "again"}
    /\ LET new == EvalRules(Positive) IN
       /\ AddFindings(new)
       /\ capped' = (capped \/ (new # {} /\ round = MaxRounds))
       /\ IF new # {} /\ round < MaxRounds
          THEN round' = round + 1 /\ UNCHANGED <<step, outer>>
          ELSE /\ round' = 1
               /\ outer' = IF step = "again" THEN outer + 1 ELSE outer
               /\ step' = IF step = "again" /\ outer = MaxRounds THEN "merge" ELSE "negative"
    /\ UNCHANGED <<book, report, changed, removed, cancelled, gap, shed, merged>>

\* Pass 2: the rules with `unless:`, which so see all the others.
NegativeRound ==
    /\ step = "negative"
    /\ LET new == EvalRules(Negative) IN
       /\ AddFindings(new)
       /\ capped' = (capped \/ (new # {} /\ outer = MaxRounds))
       /\ step' = IF new = {} THEN "merge" ELSE "again"
    /\ UNCHANGED <<book, report, changed, round, outer, removed, cancelled, gap, shed,
                   merged>>

Merge ==
    /\ step = "merge"
    /\ report' = report \cup found
    /\ merged' = [ids |-> report \cup found, refs |-> refs]
    /\ step' = "third_party"
    /\ UNCHANGED <<book, refs, changed, found, round, outer, removed, cancelled, gap,
                   shed, capped>>

-----------------------------------------------------------------------------
(* Step 6: retroactive suppression.  References resolve by id alone here. *)

\* Third-party findings whose configured context is in the report.
DropThirdParty ==
    /\ step = "third_party"
    /\ report' = {i \in report : i \in ThirdParty => UnlessIds(i) \cap report = {}}
    /\ step' = "sweep"
    /\ UNCHANGED <<book, refs, changed, found, round, outer, removed, cancelled, gap,
                   shed, merged, capped>>

\* Mutant: only atomic traits are looked at again.
ShouldSuppressAtoms(i) == i \in Atoms /\ UnlessIds(i) \cap report # {}

ShouldSuppress(i) == i \in Rules /\ UnlessIds(i) \cap report # {}

Sweep ==
    /\ step = "sweep"
    /\ removed' = {i \in report : ShouldSuppress(i)}
    /\ step' = IF removed' = {} THEN "done" ELSE "cascade"
    /\ UNCHANGED <<book, report, refs, changed, found, round, outer, cancelled, gap,
                   shed, merged, capped>>

\* Mutant: the quorum of an `any:` is not looked at again.
StillMatchAllOnly(c, ids) == \A r \in book.all[c] : r \cap ids # {}

\* Mutant: a directory counts once, however many of its findings are there.
StillMatchByCondition(c, ids) ==
    /\ \A r \in book.all[c] : r \cap ids # {}
    /\ (book.any[c] # {} /\ book.anyContent[c] = "none") =>
           Cardinality({r \in book.any[c] : r \cap ids # {}}) >= book.needs[c]

\* composite_trait_legs_still_match: an `any:` with a content leg is left alone.
StillMatch(c, ids) ==
    /\ \A r \in book.all[c] : r \cap ids # {}
    /\ (book.any[c] # {} /\ book.anyContent[c] = "none") =>
           Cardinality(UNION {{r} \X (r \cap ids) : r \in book.any[c]}) >= book.needs[c]

\* trait_legs_resatisfying: the legs to cite instead, none if they do not do.
LegsAgain(c, ids) == UNION {r \cap ids : r \in book.all[c] \cup book.any[c]}
SatisfiedAgain(c, ids) ==
    /\ \A r \in book.all[c] : r \cap ids # {}
    /\ HasAny(c) =>
           LET satisfied == Cardinality({r \in book.any[c] : r \cap ids # {}})
           IN  satisfied >= book.needs[c] \/ satisfied >= Legs(c)
    /\ LegsAgain(c, ids) # {}

\* One round of remove_findings_and_orphaned_dependents.
Cascade ==
    /\ step = "cascade"
    /\ LET ids == report \ removed
           citing == {i \in ids : refs[i] # {}}
           struck(i) == refs[i] \ removed
           orphan(i) == \/ ~StillMatch(i, ids)
                        \/ struck(i) = {} /\ ~SatisfiedAgain(i, ids)
           orphaned == {i \in citing : orphan(i)}
       IN  /\ report' = ids
           /\ refs' = [i \in Ids |->
                         IF i \notin citing THEN refs[i]
                         ELSE IF struck(i) = {} /\ i \notin orphaned
                         THEN LegsAgain(i, ids) ELSE struck(i)]
           /\ removed' = orphaned
           /\ step' = IF orphaned = {} THEN "sweep" ELSE "cascade"
    /\ UNCHANGED <<book, changed, found, round, outer, cancelled, gap, shed, merged,
                   capped>>

-----------------------------------------------------------------------------
Cancel ==
    /\ MayCancel /\ ~cancelled /\ step = "independent"
    /\ cancelled' = TRUE
    /\ UNCHANGED <<book, step, report, refs, changed, found, round, outer, removed,
                   gap, shed, merged, capped>>

Evaluate ==
    \/ Independent \/ Dependent \/ PositiveRound \/ NegativeRound \/ Merge
    \/ DropThirdParty \/ Sweep \/ Cascade

\* The evaluation of the file has returned.
Done == step = "done" /\ UNCHANGED evalVars

EvalNext == Evaluate \/ Cancel \/ Done

EvalSpec == EvalInit /\ [][EvalNext]_evalVars
-----------------------------------------------------------------------------
(* Properties *)

EvalTypeOK ==
    /\ IsBook(book) /\ step \in Steps
    /\ report \subseteq Ids /\ refs \in [Ids -> SUBSET Ids]
    /\ changed \subseteq Atoms /\ found \subseteq Composites
    /\ removed \subseteq Rules /\ (step \notin {"cascade"} => removed = {})
    /\ round \in 1..MaxRounds /\ outer \in 1..MaxRounds + 1
    /\ cancelled \in BOOLEAN /\ gap \in BOOLEAN /\ capped \in BOOLEAN
    /\ shed \subseteq Atoms
    /\ merged \in [ids : SUBSET Ids, refs : [Ids -> SUBSET Ids]]

\* What the shortcuts may cost a trait that matches: the tiny file's, a doomed
\* one's beside something notable, and one too many that nobody refers to.
Skipped(t) == Doomed(t) /\ ((report \ Composites) \cup shed) \cap book.notable # {}
Forgone(t) ==
    \/ book.tiny /\ ~HasTraitDependency(t)
    \/ Skipped(t)
    \/ t \in shed \ Protected

\* The composites that the skip may cost: a directory of an `all:` does not keep
\* its traits from being skipped, and a layer may hold the trait that the file
\* itself cannot match.
Exposed(c) ==
    \/ \E r \in book.all[c] : Cardinality(r) > 1
    \/ RequiredTraitIds(c) \cap book.cannot \cap (book.layer \cup book.view) # {}

\* What is missed has been forgone on purpose, and no more: when no loop ran into
\* its bound and no pass was cut short, every trait that matches has been found
\* or is one that the shortcuts give up, every composite that matches what was
\* found has been found, and one that would match had the doomed traits been
\* looked for is among those exposed to the skip.
Complete ==
    (step = "third_party" /\ ~capped /\ ~cancelled /\ ~gap) =>
        LET atoms == report \ Composites
            skipped == {t \in Atoms : Skipped(t) /\ TraitMatches(t, atoms)}
        IN  /\ \A t \in Atoms : TraitMatches(t, atoms) => t \in report \/ Forgone(t)
            /\ \A c \in Composites : CompositeMatches(c, Scope) => c \in report \cup book.layer
            /\ \A c \in Composites : CompositeMatches(c, Scope \cup skipped)
                                        => c \in report \cup book.layer \/ Exposed(c)

\* No finding is left beside one that its `unless:` names, whichever of the two
\* was found first.
NothingSuppressedLeft ==
    step = "done" => \A i \in report \cap Rules : UnlessIds(i) \cap report = {}

\* What a reported composite cites can be looked up, and its legs are there: no
\* suppression leaves a conclusion without its evidence.
EveryCompositeStands ==
    step = "done" =>
        LET all == report \cup book.layer \cup book.view IN
        \A c \in report \cap Composites :
            /\ refs[c] \subseteq all
            /\ \A r \in book.all[c] : r \cap all # {}
            /\ (book.anyContent[c] = "none" /\ book.any[c] # {}) =>
                   book.needs[c] <= Cardinality(UNION {{r} \X (r \cap all) : r \in book.any[c]})

Dropped == merged.ids \ report
SuppressedItself(i) == UnlessIds(i) \cap merged.ids # {}
LostALeg(i) == merged.refs[i] \cap Dropped # {}

\* A finding goes only with a reason: its own `unless:`, a cited finding that
\* went, or a cited finding that was never the report's but a layer's.
DropsHaveCause ==
    step = "done" =>
        \A i \in Dropped : \/ SuppressedItself(i) \/ LostALeg(i)
                           \/ ~(merged.refs[i] \subseteq merged.ids)

\* remove_findings_and_orphaned_dependents takes a composite with a finding that
\* it cited: none that has lost nothing.
DropsOnlyOrphans ==
    step = "done" => \A i \in Dropped : SuppressedItself(i) \/ LostALeg(i)

=============================================================================
