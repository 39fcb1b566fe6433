------------------------------ MODULE MCScreen ------------------------------
(* Instances of Screen for TLC. *)
EXTENDS Screen

CONSTANTS t1, m1, d1    \* a template, a manual binary, a timing-only harness

\* One timing result of each kind the fold tells apart.
MCOutcomes ==
    {[status |-> "ERROR", validity |-> "error"],
     [status |-> "INSUFFICIENT", validity |-> "insufficient-power"],
     [status |-> "PASS", validity |-> "valid"],
     [status |-> "WARNING", validity |-> "valid"],
     [status |-> "FAIL", validity |-> "valid"],
     [status |-> "FAIL", validity |-> "confounded"]}

\* No entry, or one without a note whose verdict is absent or one of two.
MCTriage ==
    {None} \cup
    {t \in Triages :
        /\ t.verdict \in {None, "robust", "accepted-variable-time"}
        /\ t.review \in {"not-needed", "pending", "reviewed"}
        /\ ~t.note /\ (t.id <=> t.review = "reviewed")}

Plan(templates, manuals, timed, triages) ==
    [templates : {templates}, manuals : {manuals}, timed : {timed}, dudect : BOOLEAN,
     matrixCCs : {{"gcc", "clang"}}, asmCCs : {{"gcc", "clang"}}, opts : {{"O2"}},
     base : {[h \in templates |-> "O2"]}, kat : BOOLEAN, forced : BOOLEAN, triage : triages]

\* A template under two compilers, with its timing harness or without one.
TemplatePlans ==
    LET triages == {[h \in {t1} |-> t] : t \in MCTriage} IN
    {p \in Plan({t1}, {}, {t1}, triages) : p.kat = p.forced}

\* A manual binary beside a harness that only timing knows.
ManualPlans ==
    LET triages == {[h \in {m1, d1} |-> IF h = m1 THEN t ELSE s] : t, s \in MCTriage} IN
    {p \in Plan({}, {m1}, {d1}, triages) : p.kat = p.forced}

\* The scan asked for other compilers than the matrix, and the primary build has
\* a level that the matrix has not.
NarrowPlans ==
    LET triages == {[h \in {t1} |-> t] : t \in MCTriage} IN
    {[p EXCEPT !.matrixCCs = {"clang"}, !.asmCCs = ccs, !.base[t1] = "O0"] :
        p \in {q \in Plan({t1}, {}, {}, triages) : q.kat /\ ~q.forced /\ ~q.dudect},
        ccs \in {{"gcc"}, {"clang"}, {"gcc", "clang"}}}

\* No ct harness at all.
EmptyPlans ==
    {p \in Plan({}, {}, {}, {[h \in {} |-> None]}) : p.kat = p.forced}

MCPlans == TemplatePlans \cup ManualPlans \cup NarrowPlans \cup EmptyPlans

\* One harness that the triage entry declares to need no review.
NotNeededPlans ==
    {p \in TemplatePlans : ~p.dudect /\ p.triage[t1] # None /\ p.triage[t1].review = "not-needed"}

\* A matrix and a scan without the compiler of the primary build.
ClangPlans == {p \in NarrowPlans : p.asmCCs = {"clang"}}
=============================================================================
