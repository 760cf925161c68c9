----------------------------- MODULE MCRuleEval -----------------------------
(* Small rule books for RuleEval. *)
EXTENDS RuleEval, TLC

CONSTANTS a, b, d, e, p, q, r, y

Shape(all, any, content, needs) ==
    [all |-> all, any |-> any, content |-> content, needs |-> needs]

\* A book of one file and one rule set: a and b look at content, d refers to a,
\* p and q are small composites and r any shape.
Book(file, set) ==
    [cond |-> a :> {} @@ b :> {} @@ d :> {a} @@ e :> set.e,
     holds |-> file.hit \cup {d, e, p, q, r},
     all |-> p :> {{d}} @@ q :> set.q @@ r :> set.r.all,
     any |-> p :> {} @@ q :> {} @@ r :> set.r.any,
     anyContent |-> p :> "none" @@ q :> "none" @@ r :> set.r.content,
     needs |-> p :> 1 @@ q :> 1 @@ r :> set.r.needs,
     unless |-> a :> set.ua @@ b :> set.ub @@ d :> {} @@ e :> {}
                @@ p :> set.up @@ q :> set.uq @@ r :> set.ur @@ y :> {{b}},
     layer |-> file.layer, view |-> file.view, yara |-> {y},
     applies |-> {p, q, r}, low |-> file.low, cannot |-> file.cannot,
     notable |-> file.notable, spared |-> file.spared, tiny |-> file.tiny]

ASSUME BooksAreValid == LegsNameRules

\* Suppressions in any direction over files that hold no component and give no
\* pass more than it may return.
PlainFiles ==
    [hit : {{a}, {a, b}}, layer : {{}, {b}, {q}}, view : {{}, {r}}, low : {{}},
     cannot : {{}}, notable : {{}}, spared : {{a, b, d, e}}, tiny : {FALSE}]

PlainRules ==
    [e : {{d}, {d, b}}, q : {{{p}}, {{b}, {e}}}, ua : {{}, {{p}}}, ub : {{}, {{r}}},
     up : {{}, {{q, r}}}, uq : {{}, {{r}}, {{p}}}, ur : {{}, {{b}}},
     r : {Shape({{q}}, {}, "none", 1),
          Shape({{p}}, {{a}, {e}}, "none", 2),
          Shape({}, {{p, e}}, "none", 2),
          Shape({}, {{b}, {p, q}}, "none", 2),
          Shape({}, {{a}, {q}}, "none", 1),
          Shape({}, {{a}, {b}}, "miss", 2),
          Shape({}, {{a}, {q}}, "hit", 2)}]

\* The shortcuts of a pass: a is a component which q may need together with b, r
\* has it in every kind of leg, and something may be notable.
SkipFiles ==
    {[file EXCEPT !.cannot = {b} \ file.hit] : file \in
        [hit : {{a}, {a, b}}, layer : {{}, {b}}, view : {{}}, low : {{a}, {a, b, d}},
         cannot : {{}}, notable : {{}, {e}, {y}}, spared : {{}, {e}}, tiny : BOOLEAN]}

SkipRules ==
    [e : {{d}, {b}}, q : {{{p}}, {{a}, {b}}}, ua : {{}, {{p}}}, ub : {{}},
     up : {{}}, uq : {{}}, ur : {{}, {{a}}},
     r : {Shape({{a}, {b}}, {}, "none", 1),
          Shape({{a}}, {}, "none", 1),
          Shape({{a, e}}, {}, "none", 1),
          Shape({{e}}, {{a}, {b}}, "none", 1),
          Shape({}, {{a}, {b}}, "none", 2),
          Shape({}, {{a}, {b}}, "hit", 2),
          Shape({}, {{a, d}, {b}}, "none", 2)}]

Choices ==
    {x \in (PlainFiles \cup SkipFiles) \X (PlainRules \cup SkipRules) :
        IF x[1].low = {} THEN x[2] \in PlainRules ELSE x[2] \in SkipRules}

MCBooks == {Book(x[1], x[2]) : x \in Choices}

\* r has its only leg in a decoded layer, and nothing it stands on is suppressed;
\* a is, by p.
LayerBooks ==
    {Book(file, [e |-> {d}, q |-> {{b}, {e}}, ua |-> {{p}}, ub |-> {}, up |-> {}, uq |-> {},
                 ur |-> {}, r |-> Shape({{b}}, {}, "none", 1)]) :
        file \in {[f EXCEPT !.view = v] : v \in {{}, {e}},
                                         f \in {g \in PlainFiles : g.hit = {a} /\ g.layer = {b}}}}
=============================================================================
