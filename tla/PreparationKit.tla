--------------------------- MODULE PreparationKit ---------------------------
(***************************************************************************)
(* From a preparation kit, as a model returns it, to the six artifacts     *)
(* that become Content, and the educational quality baseline that decides  *)
(* whether they may.  Texts are abstracted to whether they claim alignment *)
(* with a curriculum; what a validator demands of one text, one question   *)
(* or the names of lesson sections has no counterpart.  The size of a      *)
(* worksheet (6 to 12 questions) is a pair of constants.                   *)
(***************************************************************************)
EXTENDS Naturals, Sequences, FiniteSets, Functions

CONSTANTS Objectives, QuestionIds, Texts, MinQuestions, MaxQuestions

ASSUME KitAssumption == MinQuestions \in Nat /\ MaxQuestions \in Nat

Blooms == {"remember", "understand", "apply"}   \* and three more of no account
Difficulties == {"easy", "medium", "hard"}
Question == [id : QuestionIds, objectives : SUBSET Objectives, answer : Texts,
             bloom : Blooms, difficulty : Difficulties]
Kit == [objectives : Seq(Objectives), lesson : SUBSET Objectives,
        sections : Seq(SUBSET Objectives), worksheet : Seq(Question), quiz : Seq(Question),
        homework : Seq(Question), claim : BOOLEAN]

Unique(s) == IsInjective(s)
Ids(questions) == [i \in DOMAIN questions |-> questions[i].id]
Mapped(questions, known) ==
    \A i \in DOMAIN questions : questions[i].objectives # {} /\ questions[i].objectives \subseteq known

\* The contracts of a component: questions there are, with ids of their own and
\* objectives that exist.
ComponentValid(questions, known) ==
    questions # <<>> /\ Unique(Ids(questions)) /\ Mapped(questions, known)
LessonValid(lesson, sections, known) ==
    /\ lesson # {} /\ lesson \subseteq known
    /\ sections # <<>>
    /\ \A i \in DOMAIN sections : sections[i] # {} /\ sections[i] \subseteq known

KitValid(kit) ==
    LET known == Range(kit.objectives)
    IN /\ kit.objectives # <<>> /\ Unique(kit.objectives)
       /\ LessonValid(kit.lesson, kit.sections, known)
       /\ \A questions \in {kit.worksheet, kit.quiz, kit.homework} : ComponentValid(questions, known)

\* build_answer_key_v1: the answers in the order of the questions, each under
\* the component and the id of its question.
Entries(kind, questions) ==
    [i \in DOMAIN questions |-> [kind |-> kind, id |-> questions[i].id, answer |-> questions[i].answer]]

\* Mutant: the homework is forgotten.
KeyWithoutHomework(worksheet, quiz, homework) ==
    Entries("worksheet", worksheet) \o Entries("quiz", quiz)
AnswerKey(worksheet, quiz, homework) ==
    Entries("worksheet", worksheet) \o Entries("quiz", quiz) \o Entries("homework", homework)

\* A kit may have too few or too many questions for a worksheet: then it cannot
\* be built.
Buildable(kit) == KitValid(kit) /\ Len(kit.worksheet) \in MinQuestions .. MaxQuestions

\* build_preparation_artifact_payloads: every artifact that teaches gets a copy
\* of the shared objectives.
Build(kit) ==
    [lesson |-> [objectives |-> kit.objectives, mapped |-> kit.lesson, sections |-> kit.sections],
     worksheet |-> [objectives |-> kit.objectives, questions |-> kit.worksheet],
     quiz |-> [objectives |-> kit.objectives, questions |-> kit.quiz],
     homework |-> [objectives |-> kit.objectives, questions |-> kit.homework],
     key |-> AnswerKey(kit.worksheet, kit.quiz, kit.homework),
     claim |-> kit.claim]
----------------------------------------------------------------------------
(* The quality baseline: the checks over the artifacts, as coded. *)

Components == {"worksheet", "quiz", "homework"}
KnownTo(artifact) == Range(artifact.objectives)
KeyRefs(a) == [i \in DOMAIN a.key |-> <<a.key[i].kind, a.key[i].id>>]

ObjectivesPresent(a) == \A c \in Components \cup {"lesson"} : a[c].objectives # <<>>
ObjectivesMapped(a) ==
    /\ LessonValid(a.lesson.mapped, a.lesson.sections, KnownTo(a.lesson))
    /\ \A c \in Components : Mapped(a[c].questions, KnownTo(a[c]))
IdentifierIntegrity(a) ==
    (\A c \in Components : Unique(Ids(a[c].questions))) /\ Unique(KeyRefs(a))
KeyComplete(a) ==
    /\ Range(KeyRefs(a)) =
         UNION {{<<c, a[c].questions[i].id>> : i \in DOMAIN a[c].questions} : c \in Components}
    /\ Len(a.key) = Len(a.worksheet.questions) + Len(a.quiz.questions) + Len(a.homework.questions)
\* The index of the questions by component and id answers every entry alike.
KeyAgrees(a) ==
    \A i \in DOMAIN a.key : \E j \in DOMAIN a[a.key[i].kind].questions :
        LET question == a[a.key[i].kind].questions[j]
        IN question.id = a.key[i].id /\ question.answer = a.key[i].answer
SameObjectives(a) == \A c \in Components : a[c].objectives = a.lesson.objectives

\* evaluate_educational_quality_baseline_v1, for the worksheet alone.
WorksheetQuality(w) ==
    LET blooms == {w.questions[i].bloom : i \in DOMAIN w.questions}
        difficulties == {w.questions[i].difficulty : i \in DOMAIN w.questions}
    IN /\ w.objectives # <<>>
       /\ Len(w.questions) \in MinQuestions .. MaxQuestions
       /\ Mapped(w.questions, KnownTo(w))
       /\ Cardinality(blooms) >= 2 /\ blooms \cap {"understand", "apply"} # {}
       /\ Cardinality(difficulties) >= 2

Quality(a) == /\ ObjectivesPresent(a) /\ ObjectivesMapped(a)
              /\ IdentifierIntegrity(a) /\ KeyComplete(a) /\ KeyAgrees(a)
              /\ SameObjectives(a) /\ ~a.claim /\ WorksheetQuality(a.worksheet)
----------------------------------------------------------------------------
\* What teachers and learners rely on: each question of the kit has one answer in
\* the key, its own, and the artifacts pursue the same objectives.
Coherent(a) ==
    /\ \A c \in Components : \A i \in DOMAIN a[c].questions :
          LET question == a[c].questions[i]
              entries == {k \in DOMAIN a.key : a.key[k].kind = c /\ a.key[k].id = question.id}
          IN \E k \in entries : entries = {k} /\ a.key[k].answer = question.answer
    /\ \A c \in Components : a[c].objectives = a.lesson.objectives
=============================================================================
