---------------------------- MODULE DecisionsProofs ----------------------------
(***************************************************************************)
(* The resolver and the placement engine, proved for any project, any      *)
(* finite list of resources in any order, any expectation and any request: *)
(* the order never chooses, what is taken is justified, and what is to be  *)
(* used may be used.                                                       *)
(***************************************************************************)
EXTENDS Decisions, Iteration, FiniteSetTheorems

-----------------------------------------------------------------------------
(* The sum of the evidence, written out *)

Kinds == DOMAIN Weight

Counted(s, x) == IF x \in s THEN Weight[x] ELSE 0

OfRelations(s) ==
    Counted(s, "linked") + Counted(s, "workspace") + Counted(s, "project_workspace")
    + Counted(s, "association") + Counted(s, "project_tag")

OfMetadata(s) ==
    Counted(s, "owner") + Counted(s, "allocation") + Counted(s, "application_type")
    + Counted(s, "job_name") + Counted(s, "cluster") + Counted(s, "provider")

OfHints(s) ==
    Counted(s, "name_hint") + Counted(s, "start_time") + Counted(s, "too_early")
    + Counted(s, "expected_state") + Counted(s, "other_state")
    + Counted(s, "active") + Counted(s, "waiting")

Total(s) == OfRelations(s) + OfMetadata(s) + OfHints(s)

\* The kinds of evidence and what each counts (ResourceResolver._score).
LEMMA Weights ==
    /\ Kinds = {"linked", "workspace", "project_workspace", "association", "project_tag",
                "owner", "allocation", "application_type", "job_name", "name_hint", "cluster",
                "provider", "start_time", "too_early", "expected_state", "other_state",
                "active", "waiting"}
    /\ Weight["linked"] = 150 /\ Weight["workspace"] = 150 /\ Weight["project_workspace"] = 130
    /\ Weight["association"] = 130 /\ Weight["project_tag"] = 120
    /\ Weight["owner"] = 15 /\ Weight["allocation"] = 15 /\ Weight["application_type"] = 14
    /\ Weight["job_name"] = 14 /\ Weight["name_hint"] = 3 /\ Weight["cluster"] = 10
    /\ Weight["provider"] = 8 /\ Weight["start_time"] = 10 /\ Weight["too_early"] = -10
    /\ Weight["expected_state"] = 5 /\ Weight["other_state"] = -5
    /\ Weight["active"] = 8 /\ Weight["waiting"] = 5
  BY DEF Kinds, Weight

\* What a kind of evidence adds is an integer.
LEMMA CountedIsInt == \A s : \A x \in Kinds : Weight[x] \in Int /\ Counted(s, x) \in Int
  BY Weights DEF Counted

\* So is what evidence adds up to.
LEMMA TotalIsInt ==
    ASSUME NEW s
    PROVE  /\ OfRelations(s) \in Int /\ OfMetadata(s) \in Int /\ OfHints(s) \in Int
           /\ Total(s) \in Int
<1>1. OfRelations(s) \in Int
  BY CountedIsInt, Weights DEF OfRelations
<1>2. OfMetadata(s) \in Int
  BY CountedIsInt, Weights DEF OfMetadata
<1>3. OfHints(s) \in Int
  BY CountedIsInt, Weights DEF OfHints
<1> QED BY <1>1, <1>2, <1>3 DEF Total

\* A piece of evidence adds its weight to the rest.
LEMMA OneMore ==
    ASSUME NEW s \in SUBSET Kinds, NEW x \in s
    PROVE  Total(s) = Weight[x] + Total(s \ {x})
<1> DEFINE D(y) == IF y = x THEN Weight[x] ELSE 0
           r == D("linked") + D("workspace") + D("project_workspace") + D("association")
                + D("project_tag")
           m == D("owner") + D("allocation") + D("application_type") + D("job_name")
                + D("cluster") + D("provider")
           h == D("name_hint") + D("start_time") + D("too_early") + D("expected_state")
                + D("other_state") + D("active") + D("waiting")
<1>1. \A y \in Kinds : /\ Counted(s, y) = D(y) + Counted(s \ {x}, y)
                        /\ D(y) \in Int /\ Counted(s, y) \in Int /\ Counted(s \ {x}, y) \in Int
  BY CountedIsInt DEF Counted
<1>2. r \in Int /\ m \in Int /\ h \in Int /\ r + m + h = Weight[x]
  <2>1. Weight[x] \in Int
    BY CountedIsInt
  <2> QED BY <2>1, Weights
<1> HIDE DEF D
<1>3. OfRelations(s) = r + OfRelations(s \ {x})
  BY <1>1, Weights DEF OfRelations
<1>4. OfMetadata(s) = m + OfMetadata(s \ {x})
  BY <1>1, Weights DEF OfMetadata
<1>5. OfHints(s) = h + OfHints(s \ {x})
  BY <1>1, Weights DEF OfHints
<1> HIDE DEF r, m, h
<1> QED BY <1>2, <1>3, <1>4, <1>5, TotalIsInt DEF Total

Summed(s) == MapThenSumSet(LAMBDA x : Weight[x], s)

\* There are finitely many kinds of evidence.
LEMMA KindsAreFinite == IsFiniteSet(Kinds)
<1> DEFINE f == <<"linked", "workspace", "project_workspace", "association", "project_tag", "owner", "allocation", "application_type", "job_name",
                "name_hint", "cluster", "provider", "start_time", "too_early", "expected_state", "other_state", "active", "waiting">>
<1>1. f \in [1..18 -> Kinds]
  BY Weights
<1>2. \A y \in Kinds : \E i \in 1..18 : f[i] = y
  BY Weights
<1>3. ExistsSurjection(1..18, Kinds)
  BY <1>1, <1>2 DEF ExistsSurjection, Surjection
<1> QED BY <1>3, FS_NatSurjection

\* The sum that the score is, is the total as written out.
LEMMA SumIsTotal ==
    ASSUME NEW s \in SUBSET Kinds
    PROVE  Summed(s) = Total(s)
<1> DEFINE Is(F) == F = [u \in SUBSET s |->
                            IF u = {} THEN 0
                            ELSE Weight[CHOOSE x \in u : TRUE] + F[u \ {CHOOSE x \in u : TRUE}]]
           F == CHOOSE F : Is(F)
<1>1. Summed(s) = F[s]
  BY DEF Summed, MapThenSumSet, MapThenFoldSet
<1>2. Is([u \in SUBSET s |-> Total(u)])
  <2>1. Total({}) = 0
    BY DEF Total, OfRelations, OfMetadata, OfHints, Counted
  <2>2. ASSUME NEW u \in SUBSET s, u # {}
        PROVE  Total(u) = Weight[CHOOSE x \in u : TRUE] + Total(u \ {CHOOSE x \in u : TRUE})
    <3>1. (CHOOSE x \in u : TRUE) \in u
      BY <2>2
    <3> QED BY <3>1, OneMore
  <2> QED BY <2>1, <2>2
<1>3. Is(F)
  <2> HIDE DEF Is
  <2> QED BY <1>2
<1>4. ASSUME NEW u \in SUBSET s
      PROVE  /\ u = {} => F[u] = 0
             /\ u # {} => \E x \in u : F[u] = Weight[x] + F[u \ {x}]
  <2> HIDE DEF F
  <2>1. F[u] = IF u = {} THEN 0
               ELSE Weight[CHOOSE x \in u : TRUE] + F[u \ {CHOOSE x \in u : TRUE}]
    BY <1>3
  <2>2. u # {} => (CHOOSE x \in u : TRUE) \in u
    OBVIOUS
  <2> QED BY <2>1, <2>2
<1> HIDE DEF F, Is
<1>5. IsFiniteSet(s) /\ Cardinality(s) \in Nat
  BY KindsAreFinite, FS_Subset, FS_CardinalityType
<1> DEFINE N == Cardinality(s)
           T == {n \in 0..N : \A u \in SUBSET s : Cardinality(u) = n => F[u] = Total(u)}
<1>6. 0 \in T
  <2>1. \A u \in SUBSET s : Cardinality(u) = 0 => u = {}
    BY <1>5, FS_Subset, FS_EmptySet
  <2>2. Total({}) = 0
    BY DEF Total, OfRelations, OfMetadata, OfHints, Counted
  <2>3. F[{}] = 0
    BY <1>4
  <2>4. \A u \in SUBSET s : Cardinality(u) = 0 => F[u] = Total(u)
    BY <2>1, <2>2, <2>3
  <2> QED BY <1>5, <2>4
<1>7. ASSUME NEW n \in 0..N, n \in T, n < N PROVE n + 1 \in T
  <2> SUFFICES ASSUME NEW u \in SUBSET s, Cardinality(u) = n + 1 PROVE F[u] = Total(u)
    BY <1>5, <1>7
  <2>1. IsFiniteSet(u) /\ u # {}
    BY <1>5, <1>7, FS_Subset, FS_EmptySet
  <2>2. PICK x \in u : F[u] = Weight[x] + F[u \ {x}]
    BY <1>4, <2>1
  <2>3. Cardinality(u \ {x}) = n /\ u \ {x} \in SUBSET s
    <3>1. Cardinality(u \ {x}) = Cardinality(u) - 1
      BY <2>1, FS_RemoveElement
    <3> QED BY <1>5, <1>7, <3>1
  <2>4. F[u \ {x}] = Total(u \ {x})
    BY <1>7, <2>3
  <2> QED BY <2>2, <2>4, OneMore
<1>8. s \in SUBSET s /\ \A n \in 0..N : n \in T
  <2> HIDE DEF T
  <2> QED BY <1>5, <1>6, <1>7, UpTo
<1> QED BY <1>1, <1>5, <1>8

-----------------------------------------------------------------------------
(* The score *)

\* What is taken into account is known evidence, and the strong of it are attributes.
LEMMA EvidenceIsKnown ==
    ASSUME NEW p, NEW ws, NEW c, NEW e
    PROVE  /\ Related(p, ws, c, e) \subseteq Relations
           /\ Related(p, ws, c, e) \union Matching(c, e) \in SUBSET Kinds
           /\ Matching(c, e) \intersect Relations = {}
           /\ ~("active" \in Matching(c, e) /\ "waiting" \in Matching(c, e))
           /\ (Related(p, ws, c, e) \union Matching(c, e)) \intersect Strong
                 = {f \in Metadata : Same(e[f], c[f])}
                   \union {x \in {"start_time"} : e.created_after # "" /\ c.created = "after"}
<1>1. Related(p, ws, c, e) \subseteq Relations
  BY DEF Related
<1>2. Relations \in SUBSET Kinds /\ Metadata \in SUBSET Kinds /\ Metadata \intersect Relations = {}
  BY Weights DEF Relations, Metadata
<1>3. Matching(c, e) \subseteq Metadata \union {"name_hint", "start_time", "too_early",
             "expected_state", "other_state", "active", "waiting"}
  BY DEF Matching
<1>4. Matching(c, e) \in SUBSET Kinds /\ Matching(c, e) \intersect Relations = {}
  BY <1>2, <1>3, Weights DEF Relations
<1>5. ~("active" \in Matching(c, e) /\ "waiting" \in Matching(c, e))
  <2>1. "active" \in Matching(c, e) => c.state \in ActiveStates
    BY DEF Matching, Metadata
  <2>2. "waiting" \in Matching(c, e) => c.state \in WaitStates
    BY DEF Matching, Metadata
  <2> QED BY <2>1, <2>2 DEF ActiveStates, WaitStates
<1>6. Matching(c, e) \intersect Strong
                 = {f \in Metadata : Same(e[f], c[f])}
                   \union {x \in {"start_time"} : e.created_after # "" /\ c.created = "after"}
  BY DEF Matching, Strong, Metadata
<1>7. Relations \intersect Strong = {}
  BY DEF Relations, Strong, Metadata
<1> QED BY <1>1, <1>2, <1>4, <1>5, <1>6, <1>7

\* A relation outweighs everything else together.
LEMMA RelationsOutweigh ==
    ASSUME NEW s \in SUBSET Kinds
    PROVE  /\ s \intersect Relations # {} => Total(s) >= 105
           /\ s \intersect Relations = {} /\ ~("active" \in s /\ "waiting" \in s) => Total(s) <= 102
           /\ Total(s) <= 1000
<1>1. \A x \in Kinds : Counted(s, x) = 0 \/ Counted(s, x) = Weight[x]
  BY DEF Counted
<1>2. /\ s \intersect Relations # {} => OfRelations(s) >= 120
      /\ s \intersect Relations = {} => OfRelations(s) = 0
      /\ OfRelations(s) <= 680
  BY <1>1, Weights DEF OfRelations, Relations, Counted
<1>3. OfMetadata(s) >= 0 /\ OfMetadata(s) <= 76
  BY <1>1, Weights DEF OfMetadata
<1>4. /\ OfHints(s) >= -15 /\ OfHints(s) <= 31
      /\ ~("active" \in s /\ "waiting" \in s) => OfHints(s) <= 26
  BY Weights DEF OfHints, Counted
<1> QED BY <1>2, <1>3, <1>4, TotalIsInt DEF Total

\* A resource that something speaks against is excluded.
LEMMA ScoreOfRefuted ==
    ASSUME NEW p, NEW ws, NEW c, NEW e, Refuted(c, e)
    PROVE  Score(p, ws, c, e) = [value |-> -1, explicit |-> FALSE, strong |-> 0]
  BY DEF Score

\* The score of any other: its total, whether it is related, and how much is strong.
LEMMA ScoreIs ==
    ASSUME NEW p, NEW ws, NEW c, NEW e, ~Refuted(c, e)
    PROVE  /\ Score(p, ws, c, e).value = Total(Related(p, ws, c, e) \union Matching(c, e))
           /\ Score(p, ws, c, e).explicit <=> Related(p, ws, c, e) # {}
           /\ Score(p, ws, c, e).strong =
                 Cardinality((Related(p, ws, c, e) \union Matching(c, e)) \intersect Strong)
<1> DEFINE related == Related(p, ws, c, e)
           evidence == related \union Matching(c, e)
<1>1. Score(p, ws, c, e) = [value |-> Summed(evidence), explicit |-> related # {},
                            strong |-> Cardinality(evidence \intersect Strong)]
  BY DEF Score, Summed
<1>2. evidence \in SUBSET Kinds
  BY EvidenceIsKnown
<1> HIDE DEF related, evidence
<1>3. Summed(evidence) = Total(evidence)
  BY <1>2, SumIsTotal
<1>4. Score(p, ws, c, e).explicit = (related # {})
  BY <1>1
<1>5. /\ Score(p, ws, c, e).value = Total(evidence)
      /\ Score(p, ws, c, e).strong = Cardinality(evidence \intersect Strong)
  BY <1>1, <1>3
<1> QED BY <1>4, <1>5 DEF related, evidence

\* Every score is an integer, and bounded.
LEMMA ScoreIsInt ==
    ASSUME NEW p, NEW ws, NEW c, NEW e
    PROVE  Score(p, ws, c, e).value \in Int /\ Score(p, ws, c, e).value <= 1000
<1> DEFINE score == Score(p, ws, c, e)
           evidence == Related(p, ws, c, e) \union Matching(c, e)
<1>1. CASE Refuted(c, e)
  <2>1. score.value = -1
    BY <1>1, ScoreOfRefuted
  <2> HIDE DEF score
  <2>2. score.value \in Int /\ score.value <= 1000
    BY <2>1
  <2> QED BY <2>2 DEF score
<1>2. CASE ~Refuted(c, e)
  <2>1. score.value = Total(evidence)
    BY <1>2, ScoreIs
  <2>2. evidence \in SUBSET Kinds
    BY EvidenceIsKnown
  <2> HIDE DEF score, evidence
  <2>3. score.value \in Int /\ score.value <= 1000
    BY <2>1, <2>2, TotalIsInt, RelationsOutweigh
  <2> QED BY <2>3 DEF score
<1> QED BY <1>1, <1>2

\* The same for the scores of a set of resources.
LEMMA ScoresAreInts ==
    ASSUME NEW S, NEW p, NEW ws, NEW e
    PROVE  \A d \in S : /\ [x \in S |-> Score(p, ws, x, e)][d].value \in Int
                        /\ [x \in S |-> Score(p, ws, x, e)][d].value <= 1000
<1>1. ASSUME NEW d \in S PROVE Score(p, ws, d, e).value \in Int /\ Score(p, ws, d, e).value <= 1000
  BY ScoreIsInt
<1> QED BY <1>1

\* The top of a list is a best one, whatever the order.
LEMMA TopIsBest ==
    ASSUME NEW n \in Nat, NEW scores, DOMAIN scores = 1..n, Viable(scores) # {},
           \A i \in 1..n : scores[i].value \in Int /\ scores[i].value <= 1000
    PROVE  /\ Top(scores) \in Viable(scores)
           /\ \A j \in Viable(scores) : scores[j].value <= scores[Top(scores)].value
<1> DEFINE V == Viable(scores)
           Lacks == {1000 - scores[i].value : i \in V}
           IsTop(i) == \A j \in V \ {i} :
               scores[j].value < scores[i].value \/ (scores[j].value = scores[i].value /\ i < j)
<1>1. \A i \in V : i \in 1..n /\ i \in Nat /\ scores[i].value \in Int /\ 1000 - scores[i].value \in Nat
  BY DEF Viable
<1>2. PICK least \in Lacks : \A l \in Lacks : least <= l
  <2>1. Lacks \in SUBSET Nat /\ Lacks # {}
    BY <1>1
  <2> HIDE DEF Lacks
  <2> QED BY <2>1, LeastOne
<1>3. \A j \in V : least <= 1000 - scores[j].value
  BY <1>2
<1> DEFINE Best == {i \in V : 1000 - scores[i].value = least}
<1>4. PICK b \in Best : \A i \in Best : b <= i
  <2>1. Best \in SUBSET Nat /\ Best # {}
    BY <1>1, <1>2
  <2> HIDE DEF Best
  <2> QED BY <2>1, LeastOne
<1> HIDE DEF V
<1>5. least \in Nat /\ b \in V /\ 1000 - scores[b].value = least
  BY <1>1, <1>4
<1>6. IsTop(b)
  <2> SUFFICES ASSUME NEW j \in V, j # b
               PROVE  scores[j].value < scores[b].value \/ (scores[j].value = scores[b].value /\ b < j)
    OBVIOUS
  <2>1. /\ scores[j].value \in Int /\ scores[b].value \in Int /\ j \in Nat /\ b \in Nat
        /\ least <= 1000 - scores[j].value
    BY <1>1, <1>3, <1>5
  <2>2. 1000 - scores[j].value = least => b <= j
    BY <1>4
  <2> QED BY <1>5, <2>1, <2>2
<1>7. Top(scores) \in V /\ IsTop(Top(scores))
  <2>1. Top(scores) = CHOOSE i \in V : IsTop(i)
    BY DEF Top, V
  <2> HIDE DEF IsTop
  <2> QED BY <1>5, <1>6, <2>1
<1>8. ASSUME NEW j \in V PROVE scores[j].value <= scores[Top(scores)].value
  <2>1. scores[j].value \in Int /\ scores[Top(scores)].value \in Int
    BY <1>1, <1>7
  <2> QED BY <1>7, <2>1
<1> QED BY <1>7, <1>8 DEF V

-----------------------------------------------------------------------------
(* What is taken *)

(* c is the best of the candidates, and no other comes close to it.         *)
BestOf(candidates, p, ws, e, c) ==
    LET score == [d \in candidates |-> Score(p, ws, d, e)]
    IN  /\ c \in candidates /\ c.state \in ActiveStates \union WaitStates
        /\ score[c].value >= 0 /\ Automatic(score[c])
        /\ \A d \in candidates : score[d].value <= score[c].value
        /\ \A d \in candidates \ {c} :
              score[d].value >= 0 /\ score[d].value >= score[c].value - 8 => ~Automatic(score[d])

\* A listing has each resource of a finite set at one place.
LEMMA ListingIsComplete ==
    ASSUME NEW S, IsFiniteSet(S), NEW listed \in SetToSeqs(S)
    PROVE  /\ Cardinality(S) \in Nat /\ listed \in [1..Cardinality(S) -> S]
           /\ \A c \in S : \E i \in 1..Cardinality(S) : listed[i] = c
           /\ \A i, j \in 1..Cardinality(S) : i # j => listed[i] # listed[j]
<1> DEFINE D == 1..Cardinality(S)
<1>1. Cardinality(S) \in Nat
  BY FS_CardinalityType
<1>2. listed \in [D -> S] /\ \A i, j \in D : i # j => listed[i] # listed[j]
  BY DEF SetToSeqs
<1>3. listed \in Injection(D, S)
  BY <1>2 DEF Injection, IsInjective
<1>4. Cardinality(D) = Cardinality(S)
  BY <1>1, FS_Interval
<1>5. listed \in Surjection(D, S)
  BY <1>3, <1>4, FS_Injection
<1> QED BY <1>1, <1>2, <1>5 DEF Surjection

\* The resource that is taken from a listing, in whatever order, is the best of the set.
LEMMA TakenIsBest ==
    ASSUME NEW S, IsFiniteSet(S), NEW listed \in SetToSeqs(S), NEW p, NEW ws, NEW e,
           Resolve(p, ws, listed, e).action \in {"reuse", "wait"}
    PROVE  \E c \in S : c.id = Resolve(p, ws, listed, e).resource /\ BestOf(S, p, ws, e, c)
<1> DEFINE n == Cardinality(S)
           score == [d \in S |-> Score(p, ws, d, e)]
           scores == [i \in DOMAIN listed |-> Score(p, ws, listed[i], e)]
           t == Top(scores)
           c == listed[t]
           answer == Resolve(p, ws, listed, e)
<1>1. /\ n \in Nat /\ listed \in [1..n -> S]
      /\ \A d \in S : \E i \in 1..n : listed[i] = d
      /\ \A i, j \in 1..n : i # j => listed[i] # listed[j]
  BY ListingIsComplete
<1>2. DOMAIN scores = 1..n /\ \A i \in 1..n : listed[i] \in S /\ scores[i] = score[listed[i]]
  BY <1>1
<1>3. \A d \in S : score[d].value \in Int /\ score[d].value <= 1000
  BY ScoresAreInts
<1>4. Viable(scores) # {} /\ answer = ResolvedFrom(listed, scores)
  BY DEF Resolve, Decided
<1> HIDE DEF score, scores, n, answer
<1>5. /\ t \in 1..n /\ c \in S /\ scores[t] = score[c] /\ score[c].value >= 0
      /\ \A j \in Viable(scores) : score[listed[j]].value <= score[c].value
  <2>1. \A i \in 1..n : scores[i].value \in Int /\ scores[i].value <= 1000
    BY <1>2, <1>3
  <2>2. t \in Viable(scores) /\ \A j \in Viable(scores) : scores[j].value <= scores[t].value
    BY <1>1, <1>2, <1>4, <2>1, TopIsBest
  <2> QED BY <1>2, <2>2 DEF Viable
<1>6. /\ Automatic(score[c]) /\ ~(Cardinality(Plausible(scores)) > 1)
      /\ c.state \in ActiveStates \union WaitStates /\ answer.resource = c.id
  <2> DEFINE attach == IF c.state \in ActiveStates THEN "reuse"
                       ELSE IF c.state \in WaitStates THEN "wait" ELSE "choose"
             many == Cardinality(Plausible(scores)) > 1
  <2>1. answer = IF ~Automatic(scores[t]) THEN Decided("choose", "", "none")
                 ELSE IF many \/ attach = "choose" THEN Decided("choose", "", "low")
                 ELSE Decided(attach, c.id, IF scores[t].explicit \/ scores[t].strong >= 5
                                            THEN "high" ELSE "medium")
    BY <1>4 DEF ResolvedFrom
  <2> HIDE DEF many, attach
  <2>2. \A id, confidence : Decided("choose", id, confidence).action = "choose"
    BY DEF Decided
  <2>3. answer.action # "choose"
    BY DEF answer
  <2>4. Automatic(scores[t]) /\ ~many /\ attach # "choose" /\ answer.resource = c.id
    BY <2>1, <2>2, <2>3 DEF Decided
  <2> QED BY <1>5, <2>4 DEF many, attach
<1>7. ASSUME NEW d \in S PROVE score[d].value <= score[c].value
  <2>1. PICK i \in 1..n : listed[i] = d
    BY <1>1
  <2>2. CASE score[d].value >= 0
    <3>1. i \in Viable(scores)
      BY <1>2, <2>1, <2>2 DEF Viable
    <3> QED BY <1>5, <2>1, <3>1
  <2>3. CASE ~(score[d].value >= 0)
    BY <1>3, <1>5, <2>3
  <2> QED BY <2>2, <2>3
<1>8. ASSUME NEW d \in S, d # c, score[d].value >= 0, score[d].value >= score[c].value - 8, Automatic(score[d])
      PROVE  FALSE
  <2>1. PICK i \in 1..n : listed[i] = d
    BY <1>1
  <2>2. i \in Viable(scores) /\ t \in Viable(scores)
    BY <1>2, <1>5, <1>8, <2>1 DEF Viable
  <2>3. score[c].value >= score[c].value - 8
    BY <1>3, <1>5
  <2>4. {i, t} \subseteq Plausible(scores)
    BY <1>2, <1>5, <1>6, <1>8, <2>1, <2>2, <2>3 DEF Plausible
  <2>5. IsFiniteSet(Plausible(scores))
    <3>1. Plausible(scores) \in SUBSET (1..n)
      BY <1>2 DEF Plausible, Viable
    <3>2. IsFiniteSet(1..n)
      BY <1>1, FS_Interval
    <3> QED BY <3>1, <3>2, FS_Subset
  <2>6. i # t
    BY <1>8, <2>1
  <2>7. Cardinality({i, t}) = 2
    <3>1. IsFiniteSet({i}) /\ Cardinality({i}) = 1 /\ {i} \union {t} = {i, t} /\ t \notin {i}
      BY <2>6, FS_Singleton
    <3>2. Cardinality({i} \union {t}) = 1 + 1
      BY <3>1, FS_AddElement
    <3> QED BY <3>1, <3>2
  <2>8. Cardinality({i, t}) <= Cardinality(Plausible(scores)) /\ Cardinality(Plausible(scores)) \in Nat
    BY <2>4, <2>5, FS_Subset, FS_CardinalityType
  <2> QED BY <1>6, <2>7, <2>8
<1>9. BestOf(S, p, ws, e, c)
  BY <1>5, <1>6, <1>7, <1>8 DEF BestOf, score
<1> QED BY <1>5, <1>6, <1>9 DEF answer

\* There is one best at most: any order leads to it.
LEMMA OneBest ==
    ASSUME NEW S, NEW p, NEW ws, NEW e, NEW c, NEW d,
           BestOf(S, p, ws, e, c), BestOf(S, p, ws, e, d)
    PROVE  c = d
<1> DEFINE score == [x \in S |-> Score(p, ws, x, e)]
<1>1. c \in S /\ d \in S /\ score[c].value \in Int /\ score[d].value \in Int
  <2>1. c \in S /\ d \in S
    BY DEF BestOf
  <2> QED BY <2>1, ScoresAreInts
<1>2. /\ score[c].value <= score[d].value /\ score[d].value <= score[c].value
      /\ score[d].value >= 0 /\ Automatic(score[d])
      /\ \A x \in S \ {c} : score[x].value >= 0 /\ score[x].value >= score[c].value - 8 => ~Automatic(score[x])
  BY <1>1 DEF BestOf
<1> HIDE DEF score
<1>3. score[d].value >= score[c].value - 8
  BY <1>1, <1>2
<1> QED BY <1>1, <1>2, <1>3

\* The attributes that a resource shares with what is expected.
Shared(c, e) ==
    {f \in Metadata : Same(e[f], c[f])}
    \union {x \in {"start_time"} : e.created_after # "" /\ c.created = "after"}

\* The best of the candidates is justified.
LEMMA BestIsJustified ==
    ASSUME NEW S, NEW p, NEW ws, NEW e, NEW c, BestOf(S, p, ws, e, c)
    PROVE  /\ c \in S /\ c.state \in ActiveStates \union WaitStates /\ ~Refuted(c, e)
           /\ Related(p, ws, c, e) # {} \/ Cardinality(Shared(c, e)) >= 4
           /\ \A d \in S : Related(p, ws, d, e) # {} /\ ~Refuted(d, e) => Related(p, ws, c, e) # {}
<1> DEFINE evidence(d) == Related(p, ws, d, e) \union Matching(d, e)
<1>1. /\ c \in S /\ c.state \in ActiveStates \union WaitStates
      /\ Score(p, ws, c, e).value >= 0 /\ Automatic(Score(p, ws, c, e))
      /\ \A d \in S : Score(p, ws, d, e).value <= Score(p, ws, c, e).value
  BY DEF BestOf
<1>2. ~Refuted(c, e)
  <2> SUFFICES ASSUME Refuted(c, e) PROVE FALSE
    OBVIOUS
  <2>1. Score(p, ws, c, e).value = -1
    BY ScoreOfRefuted
  <2> QED BY <1>1, <2>1
<1>3. /\ Score(p, ws, c, e).value = Total(evidence(c))
      /\ Score(p, ws, c, e).explicit <=> Related(p, ws, c, e) # {}
      /\ Score(p, ws, c, e).strong = Cardinality(evidence(c) \intersect Strong)
  BY <1>2, ScoreIs
<1>4. evidence(c) \intersect Strong = Shared(c, e)
  BY EvidenceIsKnown DEF Shared
<1>5. Related(p, ws, c, e) # {} \/ Cardinality(Shared(c, e)) >= 4
  <2> HIDE DEF evidence
  <2> QED BY <1>1, <1>3, <1>4 DEF Automatic
<1>6. ASSUME NEW d \in S, Related(p, ws, d, e) # {}, ~Refuted(d, e) PROVE Related(p, ws, c, e) # {}
  <2>1. Total(evidence(d)) <= Total(evidence(c))
    <3>1. Score(p, ws, d, e).value = Total(evidence(d))
      BY <1>6, ScoreIs
    <3>2. Score(p, ws, d, e).value <= Score(p, ws, c, e).value
      BY <1>1
    <3> HIDE DEF evidence
    <3> QED BY <1>3, <3>1, <3>2
  <2>2. evidence(d) \in SUBSET Kinds /\ evidence(d) \intersect Relations # {}
    BY <1>6, EvidenceIsKnown
  <2>3. /\ evidence(c) \in SUBSET Kinds /\ ~("active" \in Matching(c, e) /\ "waiting" \in Matching(c, e))
        /\ Matching(c, e) \intersect Relations = {}
    BY EvidenceIsKnown
  <2>4. SUFFICES ASSUME Related(p, ws, c, e) = {} PROVE FALSE
    OBVIOUS
  <2>5. evidence(c) = Matching(c, e)
    BY <2>4
  <2> HIDE DEF evidence
  <2>6. Total(evidence(d)) >= 105
    BY <2>2, RelationsOutweigh
  <2>7. Total(evidence(c)) <= 102
    BY <2>3, <2>5, RelationsOutweigh
  <2>8. Total(evidence(c)) \in Int /\ Total(evidence(d)) \in Int
    BY TotalIsInt
  <2> QED BY <2>1, <2>6, <2>7, <2>8
<1> QED BY <1>1, <1>2, <1>5, <1>6

-----------------------------------------------------------------------------
(* The inductive invariant: every answer is the resolver's, or the          *)
(* engine's, for what was asked and for some order of the resources.        *)

IsResolved(a) ==
    /\ IsResolution /\ (asked.about = "jobs" => asked.project.id # "")
    /\ \E listed \in SetToSeqs(asked.candidates) :
          a = Resolve(asked.project, asked.workspaces, listed, Intent)

IsPlaced(a) ==
    \/ asked.about = "workload" /\ a = Decide(Registry, asked.request, asked.allowed)
    \/ asked.about = "application" /\ a = Decide(Registry, RequestOf(asked.application), asked.allowed)

DInv ==
    /\ asked \in Questions
    /\ \A a \in answers :
          \/ IsResolved(a)
          \/ asked.about = "jobs" /\ a = Decided("choose", "", "low")
          \/ IsPlaced(a)

\* Every answer is given by the resolver or the engine, for what was asked.
LEMMA DecisionInvariance == DecisionSpec => []DInv
<1>1. DecisionInit => DInv
  BY DEF DecisionInit, DInv
<1>2. DInv /\ [DecisionNext]_decisionVars => DInv'
  <2> SUFFICES ASSUME DInv, [DecisionNext]_decisionVars PROVE DInv'
    OBVIOUS
  <2> DEFINE Given(a) == \/ IsResolved(a)
                         \/ asked.about = "jobs" /\ a = Decided("choose", "", "low")
                         \/ IsPlaced(a)
  <2>1. ASSUME asked' = asked, NEW a, Given(a) PROVE Given(a)'
    BY <2>1 DEF IsResolved, IsPlaced, IsResolution, Intent, Registry
  <2>2. ASSUME NEW a, Answer(a), Given(a) PROVE DInv'
    <3>1. asked' = asked /\ answers' = answers \union {a} /\ \A b \in answers : Given(b)
      BY <2>2 DEF Answer, DInv
    <3>2. \A b \in answers' : Given(b)'
      <4> HIDE DEF Given
      <4> QED BY <2>1, <2>2, <3>1
    <3> QED BY <3>1, <3>2 DEF DInv
  <2>3. CASE ResolveWorkspace
    <3>1. PICK listed \in SetToSeqs(asked.candidates) :
              /\ asked.about = "workspace"
              /\ Answer(Resolve(asked.project, asked.workspaces, listed, asked.expected))
      BY <2>3 DEF ResolveWorkspace
    <3>2. IsResolved(Resolve(asked.project, asked.workspaces, listed, asked.expected))
      BY <3>1 DEF IsResolved, IsResolution, Intent
    <3> QED BY <2>2, <3>1, <3>2
  <2>4. CASE ResolveJobs
    <3>1. PICK listed \in SetToSeqs(asked.candidates) :
              /\ asked.about = "jobs"
              /\ Answer(ResolveLocally(asked.project, asked.workspaces, asked.current, listed))
      BY <2>4 DEF ResolveJobs
    <3> DEFINE a == ResolveLocally(asked.project, asked.workspaces, asked.current, listed)
    <3>2. CASE asked.project.id = ""
      <4>1. a = Decided("choose", "", "low")
        BY <3>2 DEF ResolveLocally
      <4> QED BY <2>2, <3>1, <4>1
    <3>3. CASE asked.project.id # ""
      <4>1. a = Resolve(asked.project, asked.workspaces, listed, Intent)
        BY <3>1, <3>3 DEF ResolveLocally, Intent
      <4>2. IsResolved(a)
        BY <3>1, <3>3, <4>1 DEF IsResolved, IsResolution
      <4> QED BY <2>2, <3>1, <4>2
    <3> QED BY <3>2, <3>3
  <2>5. CASE PreviewPlacement
    BY <2>2, <2>5 DEF PreviewPlacement, IsPlaced
  <2>6. CASE PlanPlacement
    BY <2>2, <2>6 DEF PlanPlacement, IsPlaced
  <2>7. CASE PlanApplication
    BY <2>2, <2>7 DEF PlanApplication, IsPlaced
  <2>8. CASE PlanHostedApplication
    BY <2>2, <2>8 DEF PlanHostedApplication, IsPlaced
  <2>9. CASE UNCHANGED decisionVars
    <3>1. asked' = asked /\ answers' = answers
      BY <2>9 DEF decisionVars
    <3>2. \A b \in answers' : Given(b)'
      <4>1. \A b \in answers : Given(b)
        BY DEF DInv
      <4> HIDE DEF Given
      <4> QED BY <2>1, <3>1, <4>1
    <3> QED BY <3>1, <3>2 DEF DInv
  <2> QED BY <2>3, <2>4, <2>5, <2>6, <2>7, <2>8, <2>9 DEF DecisionNext
<1> QED BY <1>1, <1>2, PTL DEF DecisionSpec

\* What is taken is the best of what was listed.
LEMMA AttachedIsBest ==
    ASSUME DInv, IsResolution, NEW r \in Attached
    PROVE  /\ asked.about = "jobs" => asked.project.id # ""
           /\ \E c \in asked.candidates :
                 c.id = r /\ BestOf(asked.candidates, asked.project, asked.workspaces, Intent, c)
<1>1. PICK a \in answers : a.action \in {"reuse", "wait"} /\ r = a.resource
  BY DEF Attached
<1>2. Decided("choose", "", "low").action = "choose"
  BY DEF Decided
<1>3. ~IsPlaced(a)
  BY DEF IsPlaced, IsResolution
<1>4. IsResolved(a)
  BY <1>1, <1>2, <1>3 DEF DInv
<1>5. PICK listed \in SetToSeqs(asked.candidates) :
          a = Resolve(asked.project, asked.workspaces, listed, Intent)
  BY <1>4 DEF IsResolved
<1>6. IsFiniteSet(asked.candidates)
  BY QuestionsAssumption DEF DInv, IsResolution
<1>7. \E c \in asked.candidates :
          /\ c.id = Resolve(asked.project, asked.workspaces, listed, Intent).resource
          /\ BestOf(asked.candidates, asked.project, asked.workspaces, Intent, c)
  BY <1>1, <1>5, <1>6, TakenIsBest
<1> QED BY <1>1, <1>4, <1>5, <1>7 DEF IsResolved

-----------------------------------------------------------------------------
(* The order in which a provider lists its resources never decides which of *)
(* them the resolver takes, for any project, resources and expectation.     *)
THEOREM TheOrderNeverChooses == DecisionSpec => []OrderNeverChooses
<1>1. DInv => OrderNeverChooses
  <2> SUFFICES ASSUME DInv, IsResolution, NEW r \in Attached, NEW s \in Attached PROVE r = s
    BY DEF OrderNeverChooses
  <2>1. PICK c \in asked.candidates :
            c.id = r /\ BestOf(asked.candidates, asked.project, asked.workspaces, Intent, c)
    BY AttachedIsBest
  <2>2. PICK d \in asked.candidates :
            d.id = s /\ BestOf(asked.candidates, asked.project, asked.workspaces, Intent, d)
    BY AttachedIsBest
  <2>3. c = d
    BY <2>1, <2>2, OneBest
  <2> QED BY <2>1, <2>2, <2>3
<1> QED BY <1>1, DecisionInvariance, PTL

(* What the resolver takes can be used, contradicts nothing known of the    *)
(* user's intent, rests on a recorded relation or on four attributes, and   *)
(* attributes never win over a relation.                                    *)
THEOREM AttachmentsAreJustified == DecisionSpec => []AttachmentIsJustified
<1>1. DInv => AttachmentIsJustified
  <2> SUFFICES ASSUME DInv, IsResolution PROVE AttachmentIsJustified
    BY DEF AttachmentIsJustified
  <2> DEFINE Relation(c) == Related(asked.project, asked.workspaces, c, Intent) # {}
             Agreeing(c) ==
                {f \in Metadata : Same(Intent[f], c[f])}
                \union {x \in {"start_time"} : Intent.created_after # "" /\ c.created = "after"}
             Justified(c, r) ==
                  /\ c.id = r /\ r # ""
                  /\ c.state \in ActiveStates \union WaitStates
                  /\ Intent.owner # "" /\ c.owner # "" => c.owner = Intent.owner
                  /\ Intent.provider # "" => c.provider = Intent.provider
                  /\ Relation(c) \/ Cardinality(Agreeing(c)) >= 4
                  /\ (\E d \in asked.candidates : Relation(d) /\ ~Refuted(d, Intent)) => Relation(c)
  <2>1. ASSUME NEW r \in Attached
        PROVE  /\ asked.about = "jobs" => asked.project.id # ""
               /\ \E c \in asked.candidates : Justified(c, r)
    <3>1. PICK c \in asked.candidates :
              c.id = r /\ BestOf(asked.candidates, asked.project, asked.workspaces, Intent, c)
      BY AttachedIsBest
    <3>2. /\ c.state \in ActiveStates \union WaitStates /\ ~Refuted(c, Intent)
          /\ Relation(c) \/ Cardinality(Shared(c, Intent)) >= 4
          /\ \A d \in asked.candidates : Relation(d) /\ ~Refuted(d, Intent) => Relation(c)
      BY <3>1, BestIsJustified
    <3>3. /\ c.id # ""
          /\ Intent["owner"] # "" => c["owner"] \in {"", Intent["owner"]}
          /\ Intent.provider # "" => c.provider = Intent.provider
      BY <3>2 DEF Refuted
    <3>4. Agreeing(c) = Shared(c, Intent)
      BY DEF Shared
    <3> HIDE DEF Relation, Agreeing
    <3>5. Justified(c, r)
      BY <3>1, <3>2, <3>3, <3>4
    <3> QED BY <3>5, AttachedIsBest
  <2> QED BY <2>1 DEF AttachmentIsJustified
<1> QED BY <1>1, DecisionInvariance, PTL

-----------------------------------------------------------------------------
(* Placement *)

IsRegistry(R) == R = DefaultProviders \/ R = HostedProviders

\* What the code's two registries have in common, and what the hosted one adds.
LEMMA RegistriesAre ==
    ASSUME NEW R, IsRegistry(R)
    PROVE  /\ DOMAIN R = 1..4 /\ ToSet(R) = {R[i] : i \in 1..4}
           /\ \A i \in 1..4 :
                 /\ R[i].status \in {"available", "planned"}
                 /\ R[i].status = "available" =>
                       \/ R[i].id = "browser" /\ R[i].modes = {"browser", "interactive"}
                       \/ R[i].id = "arc" /\ R[i].modes = {"interactive", "batch"}
                 /\ R[i].status = "available" => ~R[i].persistent
                 /\ R = HostedProviders /\ R[i].status = "available" => R[i].id = "browser"
<1> DEFINE D == DefaultProviders
<1>1. /\ DOMAIN D = 1..4
      /\ D[1] = Provider("browser", {"browser", "interactive"}, "available", FALSE, FALSE, FALSE)
      /\ D[2] = Provider("arc", {"interactive", "batch"}, "available", TRUE, TRUE, FALSE)
      /\ D[3] = Provider("common-platform", {"service"}, "planned", FALSE, TRUE, TRUE)
      /\ D[4] = Provider("cloud", {"batch", "service"}, "planned", TRUE, TRUE, TRUE)
  BY DEF DefaultProviders
<1> HIDE DEF D
<1>2. \A i \in 1..4 : i = 1 \/ i = 2 \/ i = 3 \/ i = 4
  OBVIOUS
<1>3. /\ D[1].id = "browser" /\ D[1].modes = {"browser", "interactive"} /\ D[1].status = "available"
      /\ ~D[1].persistent
  BY <1>1 DEF Provider
<1>4. /\ D[2].id = "arc" /\ D[2].modes = {"interactive", "batch"} /\ D[2].status = "available"
      /\ ~D[2].persistent
  BY <1>1 DEF Provider
<1>5. D[3].status = "planned" /\ D[4].status = "planned"
  BY <1>1 DEF Provider
<1>6. CASE R = D
  <2>1. D # HostedProviders
    <3>1. HostedProviders[2].status = "planned"
      BY <1>1, <1>4 DEF HostedProviders, D, Provider
    <3> QED BY <1>4, <3>1
  <2> QED BY <1>1, <1>2, <1>3, <1>4, <1>5, <1>6, <2>1 DEF ToSet
<1>7. CASE R = HostedProviders
  <2> DEFINE Hosted(i) == IF D[i].id = "browser" THEN D[i] ELSE [D[i] EXCEPT !.status = "planned"]
  <2>a. R = [i \in DOMAIN D |-> Hosted(i)]
    BY <1>7 DEF HostedProviders, D
  <2>1. DOMAIN R = 1..4 /\ R[1] = D[1] /\ \A i \in 1..4 : R[i] = Hosted(i)
    <3>1. Hosted(1) = D[1]
      BY <1>3
    <3>2. DOMAIN D = 1..4
      BY <1>1
    <3> HIDE DEF Hosted
    <3>3. DOMAIN R = 1..4 /\ \A i \in 1..4 : R[i] = Hosted(i)
      BY ONLY <2>a, <3>2
    <3> QED BY <3>1, <3>3
  <2>2. \A i \in 2..4 : R[i].status = "planned"
    <3>1. \A i \in 2..4 : i = 2 \/ i = 3 \/ i = 4
      OBVIOUS
    <3>2. D[2].id # "browser" /\ D[3].id # "browser" /\ D[4].id # "browser"
      BY <1>1 DEF Provider
    <3>3. \A i \in 2..4 : R[i] = [D[i] EXCEPT !.status = "planned"]
      <4>1. \A i \in 2..4 : Hosted(i) = [D[i] EXCEPT !.status = "planned"]
        BY <3>1, <3>2
      <4> HIDE DEF Hosted
      <4> QED BY <2>1, <4>1
    <3>4. \A i \in 2..4 : [D[i] EXCEPT !.status = "planned"].status = "planned"
      BY <1>1, <3>1 DEF Provider
    <3> QED BY <3>3, <3>4
  <2>3. \A i \in 1..4 : R[i].status = "available" => i = 1
    BY <2>2
  <2> QED BY <1>3, <2>1, <2>2, <2>3 DEF ToSet
<1> QED BY <1>6, <1>7 DEF IsRegistry, D

\* The first of some places.
LEMMA FirstIsOne ==
    ASSUME NEW P \in SUBSET (1..4), P # {}
    PROVE  Min(P) \in P
<1>1. P \in SUBSET Nat
  OBVIOUS
<1>2. \E i \in P : \A j \in P : i <= j
  BY <1>1, LeastOne
<1> QED BY <1>2 DEF Min

(* What is promised of one answer, with the enabled providers and those     *)
(* that fit as sets.                                                        *)
Allowed(R, allowed) == {p \in ToSet(R) : allowed = {} \/ p.id \in allowed}

Fitting(R, request, allowed) == {p \in Allowed(R, allowed) : Fits(p, request)}

EnabledOnes(R, request, allowed) == {p \in Fitting(R, request, allowed) : p.status = "available"}

IsHonest(R, request, allowed, a) ==
    /\ a.action = "use" => \E p \in EnabledOnes(R, request, allowed) : p.id = a.provider
    /\ a.action = "use" /\ R = HostedProviders => a.provider = "browser"
    /\ request.preferred # "auto" => a.provider \in {request.preferred, ""}
    /\ request.preferred = "auto" /\ EnabledOnes(R, request, allowed) # {} => a.action = "use"
    /\ request.preferred = "auto" /\ Fitting(R, request, allowed) # {}
         => \E p \in Fitting(R, request, allowed) : p.id = a.provider

\* An answer that says to use a provider names an enabled one that fits.
LEMMA UsedMayBeUsed ==
    ASSUME NEW R, IsRegistry(R), NEW request, NEW allowed,
           NEW p \in ToSet(R), allowed = {} \/ p.id \in allowed, Supports(p, request)
    PROVE  /\ p \in EnabledOnes(R, request, allowed) /\ p \in Fitting(R, request, allowed)
           /\ R = HostedProviders => p.id = "browser"
<1>1. PICK i \in 1..4 : p = R[i]
  BY RegistriesAre
<1>2. p.status \in {"available", "planned"}
  BY <1>1, RegistriesAre
<1>3. Fits(p, request) /\ p.status = "available"
  BY <1>2 DEF Supports
<1>4. R = HostedProviders => p.id = "browser"
  BY <1>1, <1>3, RegistriesAre
<1> QED BY <1>3, <1>4 DEF EnabledOnes, Fitting, Allowed

\* A provider that was asked for by name is used only if it may be, and never replaced.
LEMMA PreferredIsHonest ==
    ASSUME NEW R, IsRegistry(R), NEW request, NEW allowed, request.preferred # "auto"
    PROVE  IsHonest(R, request, allowed, DecidePreferred(R, request, allowed))
<1> DEFINE named == {p \in ToSet(R) : p.id = request.preferred}
           provider == CHOOSE p \in named : TRUE
           a == DecidePreferred(R, request, allowed)
<1>1. CASE named = {}
  <2>1. a = Decision("", "error", "")
    BY <1>1 DEF DecidePreferred, Raised
  <2> HIDE DEF a
  <2>2. a.provider = "" /\ a.action = "error"
    BY <2>1 DEF Decision
  <2>3. IsHonest(R, request, allowed, a)
    BY <2>2 DEF IsHonest
  <2> QED BY <2>3 DEF a
<1>2. CASE named # {}
  <2>1. provider \in ToSet(R) /\ provider.id = request.preferred
    <3>1. provider \in named
      BY <1>2
    <3> QED BY <3>1
  <2> DEFINE may == allowed = {} \/ provider.id \in allowed
             use == may /\ Supports(provider, request)
  <2>2. a = IF use THEN Decision(provider.id, "use", "high")
            ELSE Decision(IF may THEN provider.id ELSE "", "review", "high")
    <3>1. a = IF named = {} THEN Raised
              ELSE IF allowed # {} /\ provider.id \notin allowed THEN Decision("", "review", "high")
              ELSE IF Supports(provider, request) THEN Decision(provider.id, "use", "high")
              ELSE Decision(provider.id, "review", "high")
      BY DEF DecidePreferred
    <3> HIDE DEF a, named, provider
    <3> QED BY <1>2, <3>1
  <2>3. use => /\ provider \in EnabledOnes(R, request, allowed)
               /\ R = HostedProviders => provider.id = "browser"
    BY <2>1, UsedMayBeUsed
  <2> HIDE DEF provider, use, may, a
  <2>4. /\ a.action = "use" => use /\ a.provider = provider.id
        /\ a.provider \in {request.preferred, ""}
    <3>1. CASE use
      BY <2>1, <2>2, <3>1 DEF Decision
    <3>2. CASE ~use
      <4>1. a.action = "review" /\ a.provider = IF may THEN provider.id ELSE ""
        BY <2>2, <3>2 DEF Decision
      <4> QED BY <2>1, <4>1
    <3> QED BY <3>1, <3>2
  <2>5. IsHonest(R, request, allowed, a)
    BY <2>3, <2>4 DEF IsHonest
  <2> QED BY <2>5 DEF a
<1> QED BY <1>1, <1>2

\* With a free choice an enabled provider that fits is found, and else a planned one.
LEMMA FreeChoiceIsHonest ==
    ASSUME NEW R, IsRegistry(R), NEW request, NEW allowed, request.preferred = "auto"
    PROVE  IsHonest(R, request, allowed, DecideAuto(R, request, allowed))
<1> DEFINE candidates == {i \in DOMAIN R : allowed = {} \/ R[i].id \in allowed}
           On(id, modes) ==
               request.mode \in modes /\ \E i \in candidates : R[i].id = id /\ Supports(R[i], request)
           browser == On("browser", {"browser", "interactive"})
           arc == On("arc", {"interactive", "batch"})
           persistent == {i \in candidates : R[i].persistent /\ Supports(R[i], request)}
           planned == {i \in candidates : R[i].status = "planned" /\ Fits(R[i], request)}
           enabled == EnabledOnes(R, request, allowed)
           fitting == Fitting(R, request, allowed)
           a == DecideAuto(R, request, allowed)
<1>1. /\ candidates \in SUBSET (1..4)
      /\ \A i \in candidates : R[i] \in ToSet(R) /\ (allowed = {} \/ R[i].id \in allowed)
      /\ \A p \in Allowed(R, allowed) : \E i \in candidates : p = R[i]
  BY RegistriesAre DEF Allowed
<1>2. \A i \in candidates : Supports(R[i], request) =>
          /\ R[i] \in enabled /\ R[i] \in fitting
          /\ R[i].status = "available" /\ R = HostedProviders => R[i].id = "browser"
  BY <1>1, UsedMayBeUsed
<1>3. \A i \in candidates : Supports(R[i], request) => R[i].status = "available" /\ ~R[i].persistent
  <2>1. \A i \in candidates : R[i].status \in {"available", "planned"}
    BY <1>1, RegistriesAre
  <2>2. \A i \in candidates : R[i].status = "available" => ~R[i].persistent
    BY <1>1, RegistriesAre
  <2> QED BY <2>1, <2>2 DEF Supports
<1>4. persistent = {}
  BY <1>3
<1>5. a = IF browser THEN Decision("browser", "use", "high")
          ELSE IF arc THEN Decision("arc", "use", "high")
          ELSE IF planned # {} THEN Decision(R[Min(planned)].id, "review", "medium")
          ELSE Decision("", "review", "high")
  BY <1>4 DEF DecideAuto
<1>6. ASSUME NEW p \in enabled PROVE browser \/ arc
  <2>1. p \in Allowed(R, allowed) /\ Fits(p, request) /\ p.status = "available"
    BY DEF EnabledOnes, Fitting
  <2>2. PICK i \in candidates : p = R[i]
    BY <1>1, <2>1
  <2>3. Supports(R[i], request) /\ request.mode \in R[i].modes
    BY <2>1, <2>2 DEF Supports, Fits
  <2>4. \/ R[i].id = "browser" /\ R[i].modes = {"browser", "interactive"}
        \/ R[i].id = "arc" /\ R[i].modes = {"interactive", "batch"}
    BY <1>1, <2>1, <2>2, RegistriesAre
  <2> QED BY <2>3, <2>4
<1>7. ASSUME NEW p \in fitting, ~browser, ~arc PROVE planned # {}
  <2>1. p \in Allowed(R, allowed) /\ Fits(p, request)
    BY DEF Fitting
  <2>2. PICK i \in candidates : p = R[i]
    BY <1>1, <2>1
  <2>3. p.status # "available"
    BY <1>6, <1>7, <2>1 DEF EnabledOnes, Fitting
  <2>4. p.status = "planned"
    BY <1>1, <2>2, <2>3, RegistriesAre
  <2> QED BY <2>1, <2>2, <2>4
<1>8. \A i \in planned : i \in candidates /\ R[i] \in fitting
  BY <1>1 DEF Fitting, Allowed
<1>9. planned # {} => Min(planned) \in planned
  <2>1. planned \in SUBSET (1..4)
    BY <1>1
  <2> HIDE DEF planned
  <2> QED BY <2>1, FirstIsOne
<1>10. browser => \E i \in candidates : R[i].id = "browser" /\ Supports(R[i], request)
  OBVIOUS
<1>11. arc => \E i \in candidates : R[i].id = "arc" /\ Supports(R[i], request)
  OBVIOUS
<1> HIDE DEF candidates, browser, arc, persistent, planned, enabled, fitting, a
<1>12. IsHonest(R, request, allowed, a)
  <2>1. CASE browser
    <3>1. a.provider = "browser" /\ a.action = "use"
      BY <1>5, <2>1 DEF Decision
    <3>2. \E p \in enabled : p.id = "browser" /\ p \in fitting
      BY <1>2, <1>10, <2>1
    <3> QED BY <3>1, <3>2 DEF IsHonest, enabled, fitting
  <2>2. CASE ~browser /\ arc
    <3>1. a.provider = "arc" /\ a.action = "use"
      BY <1>5, <2>2 DEF Decision
    <3>2. PICK p \in enabled : p.id = "arc" /\ p \in fitting /\ (R = HostedProviders => p.id = "browser")
      BY <1>2, <1>3, <1>11, <2>2
    <3> QED BY <3>1, <3>2 DEF IsHonest, enabled, fitting
  <2>3. CASE ~browser /\ ~arc /\ planned # {}
    <3>1. a.provider = R[Min(planned)].id /\ a.action = "review"
      BY <1>5, <2>3 DEF Decision
    <3>2. R[Min(planned)] \in fitting /\ enabled = {}
      BY <1>6, <1>8, <1>9, <2>3
    <3> QED BY <3>1, <3>2 DEF IsHonest, enabled, fitting
  <2>4. CASE ~browser /\ ~arc /\ planned = {}
    <3>1. a.provider = "" /\ a.action = "review"
      BY <1>5, <2>4 DEF Decision
    <3>2. fitting = {} /\ enabled = {}
      BY <1>6, <1>7, <2>4
    <3> QED BY <3>1, <3>2 DEF IsHonest, enabled, fitting
  <2> QED BY <2>1, <2>2, <2>3, <2>4
<1> QED BY <1>12 DEF a

(* Every answer about a placement, for any request, application and set of  *)
(* allowed providers, names an enabled provider that fits if it says to use *)
(* it, never replaces the one that was asked for, and finds one with a free *)
(* choice if there is one.                                                  *)
THEOREM PlacementsAreHonest == DecisionSpec => []PlacementIsHonest
<1>1. DInv => PlacementIsHonest
  <2> SUFFICES ASSUME DInv, asked.about \in {"workload", "application"} PROVE PlacementIsHonest
    BY DEF PlacementIsHonest
  <2> DEFINE request == IF asked.about = "workload" THEN asked.request ELSE RequestOf(asked.application)
  <2>1. IsRegistry(Registry) /\ (asked.hosted => Registry = HostedProviders)
    BY DEF IsRegistry, Registry
  <2>2. ASSUME NEW a \in answers PROVE a = Decide(Registry, request, asked.allowed)
    BY DEF DInv, IsResolved, IsResolution, IsPlaced
  <2>3. ASSUME NEW a \in answers PROVE IsHonest(Registry, request, asked.allowed, a)
    <3>1. a = Decide(Registry, request, asked.allowed)
      BY <2>2
    <3> HIDE DEF request
    <3>2. CASE request.preferred = "auto"
      BY <2>1, <3>1, <3>2, FreeChoiceIsHonest DEF Decide
    <3>3. CASE request.preferred # "auto"
      BY <2>1, <3>1, <3>3, PreferredIsHonest DEF Decide
    <3> QED BY <3>2, <3>3
  <2> QED BY <2>1, <2>3 DEF PlacementIsHonest, IsHonest, EnabledOnes, Fitting, Allowed
<1> QED BY <1>1, DecisionInvariance, PTL

=============================================================================
