------------------------------ MODULE Scoring ------------------------------
(***************************************************************************)
(* The rubric every command grades by (scoring.py, domain.py): points off  *)
(* a hundred, letters in bands, the cap for what was not inspected to the  *)
(* end, and the worst of several letters.                                  *)
(***************************************************************************)
EXTENDS Integers, FiniteSets, FiniteSetsExt

Severity == {"critical", "high", "medium", "low", "info"}

weight == [critical |-> 40, high |-> 20, medium |-> 10, low |-> 3, info |-> 0]

Grade == {"A", "B", "C", "D", "F"}

\* Position of a letter, best first.
GradeRank == [A |-> 0, B |-> 1, C |-> 2, D |-> 3, F |-> 4]

Floored(score) == IF score > 0 THEN score ELSE 0

\* score_findings over a set of findings, each a record with a severity.
score_findings(findings) ==
    Floored(100 - MapThenSumSet(LAMBDA f : weight[f.severity], findings))

grade_for_score(score) ==
    IF score >= 90 THEN "A"
    ELSE IF score >= 80 THEN "B"
    ELSE IF score >= 70 THEN "C"
    ELSE IF score >= 60 THEN "D" ELSE "F"

cap_grade(grade, cap) == IF GradeRank[grade] >= GradeRank[cap] THEN grade ELSE cap

\* An inspection that did not end cannot grade above C.
grade_server(findings, incomplete) ==
    LET grade == grade_for_score(score_findings(findings))
    IN  IF incomplete THEN cap_grade(grade, "C") ELSE grade

worst_grade(grades) ==
    IF grades = {} THEN "A"
    ELSE CHOOSE g \in grades : \A h \in grades : GradeRank[h] <= GradeRank[g]

\* _THRESHOLDS: the severities that fail a command gated at `failOn'.
blocking(failOn) == {s \in Severity \ {"info"} : weight[s] >= weight[failOn]}
=============================================================================
