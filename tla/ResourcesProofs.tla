---------------------------- MODULE ResourcesProofs ----------------------------
(***************************************************************************)
(* The records of jobs and workspaces and the managed vLLM service, proved  *)
(* for every number of jobs, every set of profiles and limits of any size:  *)
(* an answered submission is never lost, what is recorded as ended has      *)
(* ended, no running service is forgotten, its key stays with it, and the   *)
(* registry and the projects agree in memory and in the file.               *)
(*                                                                         *)
(* The helper's faults, its ends and the order of its commands are those of *)
(* Resources; the bounds MaxJobs, MaxRestarts, ... are any numbers.         *)
(***************************************************************************)
EXTENDS Resources, Iteration, SequenceTheorems, TLAPS

-----------------------------------------------------------------------------
(* Sequences of records *)

Distinct(reg) == \A i, j \in DOMAIN reg : reg[i].id = reg[j].id => i = j

\* b is the last part of s, from a place on.
IsEnd(b, s) ==
    \E cut \in 0..Len(s) :
        Len(b) = Len(s) - cut /\ \A i \in 1..Len(b) : b[i] = s[cut + i]

\* A bounded sequence keeps its end, as much of it as the limit allows.
LEMMA BoundedIsEnd ==
    ASSUME NEW S, NEW s \in Seq(S), NEW limit \in Nat \ {0}
    PROVE  /\ Bounded(s, limit) \in Seq(S) /\ Len(Bounded(s, limit)) <= limit
           /\ IsEnd(Bounded(s, limit), s)
           /\ Len(s) <= limit => Bounded(s, limit) = s
           /\ Len(s) > 0 => Len(Bounded(s, limit)) > 0
<1>1. CASE Len(s) <= limit
  <2>1. Bounded(s, limit) = s /\ Len(s) \in Nat
    BY <1>1 DEF Bounded
  <2>2. 0 \in 0..Len(s) /\ Len(s) = Len(s) - 0 /\ \A i \in 1..Len(s) : s[i] = s[0 + i]
    BY <2>1
  <2> QED BY <1>1, <2>1, <2>2 DEF IsEnd
<1>2. CASE ~(Len(s) <= limit)
  <2> DEFINE n == Len(s)  b == SubSeq(s, n - limit + 1, n)
  <2>1. n \in Nat /\ n - limit + 1 \in 1..n /\ n - limit \in 0..n
    BY <1>2
  <2>2. Bounded(s, limit) = b
    BY <1>2 DEF Bounded
  <2>3. b \in Seq(S) /\ Len(b) = limit /\ \A i \in 1..limit : b[i] = s[(n - limit) + i]
    BY <2>1, SubSeqProperties
  <2> HIDE DEF b
  <2>4. limit = n - (n - limit)
    BY <2>1
  <2>5. IsEnd(b, s)
    <3> DEFINE cut == n - limit
    <3>1. cut \in 0..n /\ Len(b) = n - cut /\ \A i \in 1..Len(b) : b[i] = s[cut + i]
      BY <2>1, <2>3, <2>4
    <3> HIDE DEF cut
    <3> QED BY <3>1 DEF IsEnd
  <2> QED BY <1>2, <2>2, <2>3, <2>5
<1> QED BY <1>1, <1>2

\* The end of distinct records has some of them, and its last is theirs.
LEMMA EndKeeps ==
    ASSUME NEW S, NEW s \in Seq(S), NEW b \in Seq(S), IsEnd(b, s)
    PROVE  /\ ToSet(b) \subseteq ToSet(s) /\ Len(b) <= Len(s)
           /\ Len(b) > 0 => b[Len(b)] = s[Len(s)]
           /\ \A i \in DOMAIN b : \E k \in DOMAIN s : b[i] = s[k]
           /\ Distinct(s) => Distinct(b)
<1>1. PICK cut \in 0..Len(s) : Len(b) = Len(s) - cut /\ \A i \in 1..Len(b) : b[i] = s[cut + i]
  BY DEF IsEnd
<1>2. Len(s) \in Nat /\ DOMAIN s = 1..Len(s) /\ DOMAIN b = 1..Len(b) /\ Len(b) \in Nat
  OBVIOUS
<1>3. \A i \in 1..Len(b) : cut + i \in 1..Len(s)
  BY <1>1, <1>2
<1>4. \A i \in DOMAIN b : \E k \in DOMAIN s : b[i] = s[k]
  BY <1>1, <1>2, <1>3
<1>5. ToSet(b) \subseteq ToSet(s)
  BY <1>4 DEF ToSet
<1>6. Len(b) > 0 => b[Len(b)] = s[Len(s)]
  <2> SUFFICES ASSUME Len(b) > 0 PROVE b[Len(b)] = s[Len(s)]
    OBVIOUS
  <2>1. Len(b) \in 1..Len(b) /\ cut + Len(b) = Len(s)
    BY <1>1, <1>2
  <2> QED BY <1>1, <2>1
<1>7. ASSUME Distinct(s) PROVE Distinct(b)
  <2> SUFFICES ASSUME NEW i \in 1..Len(b), NEW j \in 1..Len(b), b[i].id = b[j].id PROVE i = j
    BY <1>2 DEF Distinct
  <2>1. s[cut + i].id = s[cut + j].id
    BY <1>1
  <2>2. cut + i = cut + j
    BY <1>2, <1>3, <1>7, <2>1 DEF Distinct
  <2> QED BY <1>2, <2>2
<1> QED BY <1>1, <1>2, <1>4, <1>5, <1>6, <1>7

\* Get finds the record of an id that is there.
LEMMA GetFinds ==
    ASSUME NEW reg, NEW id \in Ids(reg)
    PROVE  Get(reg, id) \in ToSet(reg) /\ Get(reg, id).id = id
<1>1. \E r \in ToSet(reg) : r.id = id
  BY DEF Ids
<1> QED BY <1>1 DEF Get

\* A record that is appended to others is the last; one with a new id leaves them distinct.
LEMMA AppendKeeps ==
    ASSUME NEW S, NEW s \in Seq(S), NEW r \in S
    PROVE  /\ Append(s, r) \in Seq(S) /\ Len(Append(s, r)) = Len(s) + 1
           /\ Append(s, r)[Len(s) + 1] = r
           /\ \A i \in 1..Len(s) : Append(s, r)[i] = s[i]
           /\ ToSet(Append(s, r)) = ToSet(s) \cup {r}
           /\ Distinct(s) /\ r.id \notin Ids(s) => Distinct(Append(s, r))
<1>1. Append(s, r) \in Seq(S) /\ Len(Append(s, r)) = Len(s) + 1 /\ Append(s, r)[Len(s) + 1] = r
      /\ \A i \in 1..Len(s) : Append(s, r)[i] = s[i]
  BY AppendProperties
<1>2. Len(s) \in Nat /\ DOMAIN s = 1..Len(s) /\ DOMAIN Append(s, r) = 1..(Len(s) + 1)
      /\ 1..(Len(s) + 1) = 1..Len(s) \cup {Len(s) + 1}
  BY <1>1
<1>3. ToSet(Append(s, r)) = ToSet(s) \cup {r}
  BY <1>1, <1>2 DEF ToSet
<1>4. ASSUME Distinct(s), r.id \notin Ids(s) PROVE Distinct(Append(s, r))
  <2>1. \A i \in 1..Len(s) : s[i].id # r.id
    BY <1>2, <1>4 DEF Ids, ToSet
  <2> QED BY <1>1, <1>2, <1>4, <2>1 DEF Distinct
<1> QED BY <1>1, <1>3, <1>4
\* A record that is touched takes its place at the end; the others keep their order.
LEMMA TouchedMoves ==
    ASSUME NEW S, NEW reg \in Seq(S), Distinct(reg), NEW r \in S, r.id \in Ids(reg)
    PROVE  /\ Touched(reg, r) \in Seq(S) /\ Len(Touched(reg, r)) = Len(reg)
           /\ Len(reg) > 0 /\ Touched(reg, r)[Len(reg)] = r
           /\ Distinct(Touched(reg, r))
           /\ ToSet(Touched(reg, r)) = {x \in ToSet(reg) : x.id # r.id} \cup {r}
<1> DEFINE n == Len(reg)
           place == CHOOSE i \in DOMAIN reg : reg[i].id = r.id
           front == SubSeq(reg, 1, place - 1)
           back == SubSeq(reg, place + 1, n)
           rest == front \o back
<1>1. n \in Nat /\ DOMAIN reg = 1..n
  OBVIOUS
<1>2. place \in 1..n /\ reg[place].id = r.id
  <2>1. \E i \in DOMAIN reg : reg[i].id = r.id
    BY DEF Ids, ToSet
  <2> QED BY <1>1, <2>1
<1>3. \A i \in 1..n : reg[i].id = r.id => i = place
  BY <1>1, <1>2 DEF Distinct
<1>4. Touched(reg, r) = Append(rest, r)
  BY DEF Touched, RemoveAt
<1> HIDE DEF place
<1>5. /\ front \in Seq(S) /\ Len(front) = place - 1
      /\ \A i \in 1..(place - 1) : front[i] = reg[i]
  <2>1. 1 \in 1..n + 1 /\ place - 1 \in 0..n /\ \A i \in 1..place - 1 : 1 + i - 1 = i
    BY <1>1, <1>2
  <2>2. CASE place = 1
    <3>1. front = <<>>
      BY <1>1, <2>2
    <3> QED BY <2>2, <3>1
  <2>3. CASE place # 1
    <3>1. 1 \in 1..n /\ place - 1 \in 1..n /\ (place - 1) - 1 + 1 = place - 1
      BY <1>1, <1>2, <2>3
    <3>2. \A i \in 1..n : reg[i] \in S
      BY <1>1
    <3> QED BY <2>1, <3>1, <3>2, SubSeqProperties
  <2> QED BY <2>2, <2>3
<1>6. /\ back \in Seq(S) /\ Len(back) = n - place
      /\ \A i \in 1..(n - place) : back[i] = reg[place + i]
  <2>1. CASE place = n
    <3>1. back = <<>>
      BY <1>1, <2>1
    <3> QED BY <1>1, <2>1, <3>1
  <2>2. CASE place # n
    <3>1. place + 1 \in 1..n /\ n \in 1..n /\ n - (place + 1) + 1 = n - place
      <4>1. \A m \in Nat : \A k \in 1..m : k # m =>
                /\ k + 1 \in 1..m /\ m \in 1..m
                /\ m - (k + 1) + 1 = m - k
        OBVIOUS
      <4> QED BY <1>1, <1>2, <2>2, <4>1
    <3>2. \A i \in 1..(n - place) : (place + 1) + i - 1 = place + i
      BY <1>1, <1>2
    <3> QED BY <3>1, <3>2, SubSeqProperties
  <2> QED BY <2>1, <2>2
<1> HIDE DEF front, back
<1>7. /\ rest \in Seq(S) /\ Len(rest) = n - 1
      /\ \A i \in 1..(n - 1) : rest[i] = IF i < place THEN reg[i] ELSE reg[i + 1]
  <2>1. rest \in Seq(S) /\ Len(rest) = Len(front) + Len(back)
        /\ \A i \in 1..Len(rest) : rest[i] = IF i <= Len(front) THEN front[i] ELSE back[i - Len(front)]
    BY <1>5, <1>6, ConcatProperties
  <2>2. Len(rest) = n - 1
    BY <1>1, <1>2, <1>5, <1>6, <2>1
  <2>3. ASSUME NEW i \in 1..(n - 1)
        PROVE rest[i] = IF i < place THEN reg[i] ELSE reg[i + 1]
    <3>1. CASE i < place
      <4>1. i \in 1..(place - 1) /\ i <= Len(front)
        BY <1>1, <1>2, <1>5, <2>3, <3>1
      <4> QED BY <1>5, <2>1, <2>2, <2>3, <3>1, <4>1
    <3>2. CASE ~(i < place)
      <4>1. /\ i - Len(front) \in 1..(n - place) /\ ~(i <= Len(front))
            /\ place + (i - Len(front)) = i + 1
        BY <1>1, <1>2, <1>5, <2>3, <3>2
      <4> QED BY <1>6, <2>1, <2>2, <2>3, <3>2, <4>1
    <3> QED BY <3>1, <3>2
  <2> QED BY <2>1, <2>2, <2>3
<1> HIDE DEF rest
<1>8. \A i \in 1..(n - 1) : rest[i].id # r.id
  <2> SUFFICES ASSUME NEW i \in 1..(n - 1) PROVE rest[i].id # r.id
    OBVIOUS
  <2>1. CASE i < place
    BY <1>1, <1>2, <1>3, <1>7, <2>1
  <2>2. CASE ~(i < place)
    <3>1. i + 1 \in 1..n /\ i + 1 # place
      BY <1>1, <1>2, <2>2
    <3> QED BY <1>3, <1>7, <2>2, <3>1
  <2> QED BY <2>1, <2>2
<1>9. ToSet(rest) = {x \in ToSet(reg) : x.id # r.id}
  <2>1. DOMAIN rest = 1..(n - 1)
    BY <1>7
  <2>2. ASSUME NEW i \in 1..(n - 1) PROVE rest[i] \in {x \in ToSet(reg) : x.id # r.id}
    <3>1. i \in 1..n /\ i + 1 \in 1..n
      BY <1>1, <2>2
    <3> QED BY <1>1, <1>7, <1>8, <3>1 DEF ToSet
  <2>3. ASSUME NEW k \in 1..n, reg[k].id # r.id PROVE reg[k] \in ToSet(rest)
    <3>1. CASE k < place
      <4>1. k \in 1..(n - 1)
        BY <1>1, <1>2, <2>3, <3>1
      <4> QED BY <1>7, <2>1, <3>1, <4>1 DEF ToSet
    <3>2. CASE place < k
      <4>1. k - 1 \in 1..(n - 1) /\ ~(k - 1 < place) /\ (k - 1) + 1 = k
        BY <1>1, <1>2, <2>3, <3>2
      <4>2. rest[k - 1] = reg[k]
        BY <1>7, <4>1
      <4> QED BY <2>1, <4>1, <4>2 DEF ToSet
    <3> QED BY <1>1, <1>2, <2>3, <3>1, <3>2
  <2> QED BY <1>1, <2>1, <2>2, <2>3 DEF ToSet
<1>10. Distinct(rest)
  <2> SUFFICES ASSUME NEW i \in 1..(n - 1), NEW j \in 1..(n - 1), rest[i].id = rest[j].id PROVE i = j
    BY <1>7 DEF Distinct
  <2> DEFINE at(k) == IF k < place THEN k ELSE k + 1
  <2>1. at(i) \in 1..n /\ at(j) \in 1..n /\ rest[i] = reg[at(i)] /\ rest[j] = reg[at(j)]
    BY <1>1, <1>2, <1>7
  <2>2. at(i) = at(j)
    <3> HIDE DEF at
    <3> QED BY <1>1, <2>1 DEF Distinct
  <2> QED BY <1>1, <1>2, <2>2
<1>11. r.id \notin Ids(rest)
  BY <1>9 DEF Ids
<1>12. n > 0 /\ (n - 1) + 1 = n
  BY <1>1, <1>2
<1> QED BY <1>4, <1>7, <1>9, <1>10, <1>11, <1>12, AppendKeeps

\* A record that is replaced keeps its place.
LEMMA ReplacedStays ==
    ASSUME NEW S, NEW reg \in Seq(S), Distinct(reg), NEW r \in S
    PROVE  /\ Replaced(reg, r) \in Seq(S) /\ Len(Replaced(reg, r)) = Len(reg)
           /\ Distinct(Replaced(reg, r))
           /\ \A i \in DOMAIN reg : Replaced(reg, r)[i].id = reg[i].id
           /\ ToSet(Replaced(reg, r)) \subseteq {x \in ToSet(reg) : x.id # r.id} \cup {r}
           /\ Ids(Replaced(reg, r)) = Ids(reg)
<1> DEFINE t == Replaced(reg, r)
<1>1. Len(reg) \in Nat /\ DOMAIN reg = 1..Len(reg) /\ \A i \in 1..Len(reg) : reg[i] \in S
  OBVIOUS
<1>2. t = [i \in 1..Len(reg) |-> IF reg[i].id = r.id THEN r ELSE reg[i]]
  BY <1>1 DEF Replaced
<1>3. t \in Seq(S) /\ Len(t) = Len(reg) /\ DOMAIN t = 1..Len(reg)
  BY <1>1, <1>2, IsASeq
<1>4. \A i \in 1..Len(reg) : /\ t[i] = IF reg[i].id = r.id THEN r ELSE reg[i]
                             /\ t[i].id = reg[i].id
  BY <1>2
<1> HIDE DEF t
<1>5. Distinct(t)
  BY <1>1, <1>3, <1>4 DEF Distinct
<1>6. ToSet(t) \subseteq {x \in ToSet(reg) : x.id # r.id} \cup {r}
  BY <1>1, <1>3, <1>4 DEF ToSet
<1>7. Ids(t) = Ids(reg)
  <2>1. \A q : Ids(q) = {q[i].id : i \in DOMAIN q}
    BY DEF Ids, ToSet
  <2> QED BY <1>1, <1>3, <1>4, <2>1
<1> QED BY <1>1, <1>3, <1>4, <1>5, <1>6, <1>7 DEF t
-----------------------------------------------------------------------------
(* Restored takes the sound records, one after the other.                   *)

\* It is what the steps lead to.
LEMMA RestoredRuns ==
    ASSUME NEW S, NEW reg \in Seq(S)
    PROVE  \E F : /\ F[0] = <<>> /\ Restored(reg) = F[Len(reg)]
                  /\ \A n \in 1..Len(reg) :
                        F[n] = IF reg[n].sound THEN Append(F[n - 1], reg[n]) ELSE F[n - 1]
<1> DEFINE N == Len(reg)
           Q == Seq(S)
           f == [n \in 1..N |-> [s \in Q |-> IF reg[n].sound THEN Append(s, reg[n]) ELSE s]]
           Is(G) == G = [n \in 0..N |-> IF n = 0 THEN <<>> ELSE IF reg[n].sound
                                        THEN Append(G[n - 1], reg[n]) ELSE G[n - 1]]
<1>1. N \in Nat /\ <<>> \in Q
  OBVIOUS
<1>2. f \in [1..N -> [Q -> Q]]
  OBVIOUS
<1>3. PICK G : IsIteration(G, Q, <<>>, N, f)
  <2> HIDE DEF f, N, Q
  <2> QED BY <1>1, <1>2, Iterates
<1>4. Is(G)
  <2>1. G \in [0..N -> Q] /\ G[0] = <<>> /\ \A j \in 1..N : G[j] = f[j][G[j - 1]]
    BY <1>3 DEF IsIteration
  <2>2. \A j \in 1..N : j - 1 \in 0..N /\ G[j - 1] \in Q
    <3> HIDE DEF N, Q, f
    <3> QED BY <1>1, <2>1
  <2>3. \A j \in 1..N : G[j] = IF reg[j].sound THEN Append(G[j - 1], reg[j]) ELSE G[j - 1]
    <3> HIDE DEF N, Q
    <3> QED BY <2>1, <2>2
  <2>4. \A j \in 0..N : j = 0 \/ j \in 1..N
    BY <1>1
  <2> HIDE DEF N, Q, f
  <2> QED BY <2>1, <2>3, <2>4
<1> DEFINE F == CHOOSE H : Is(H)
<1>5. Is(F)
  <2> HIDE DEF Is
  <2> QED BY <1>4
<1>6. Restored(reg) = F[N]
  BY DEF Restored
<1>7. F[0] = <<>> /\ \A n \in 1..N : F[n] = IF reg[n].sound THEN Append(F[n - 1], reg[n]) ELSE F[n - 1]
  <2>1. 0 \in 0..N /\ \A n \in 1..N : n \in 0..N /\ n # 0
    BY <1>1
  <2> HIDE DEF F, N
  <2> QED BY <1>5, <2>1
<1> HIDE DEF F, Is
<1> QED BY <1>6, <1>7

\* Restored keeps exactly the sound records, and the last one if it is sound.
LEMMA RestoredKeeps ==
    ASSUME NEW S, NEW reg \in Seq(S), Distinct(reg)
    PROVE  /\ Restored(reg) \in Seq(S) /\ Len(Restored(reg)) <= Len(reg)
           /\ Distinct(Restored(reg))
           /\ ToSet(Restored(reg)) = {r \in ToSet(reg) : r.sound}
           /\ Len(reg) > 0 /\ reg[Len(reg)].sound =>
                  /\ Len(Restored(reg)) > 0
                  /\ Restored(reg)[Len(Restored(reg))] = reg[Len(reg)]
<1> DEFINE N == Len(reg)
<1>1. N \in Nat /\ DOMAIN reg = 1..N /\ \A i \in 1..N : reg[i] \in S
  OBVIOUS
<1>2. PICK F : /\ F[0] = <<>> /\ Restored(reg) = F[N]
               /\ \A n \in 1..N : F[n] = IF reg[n].sound THEN Append(F[n - 1], reg[n]) ELSE F[n - 1]
  BY RestoredRuns
<1> DEFINE Good(n) == /\ F[n] \in Seq(S) /\ Len(F[n]) <= n /\ Distinct(F[n])
                      /\ ToSet(F[n]) = {reg[i] : i \in {k \in 1..n : reg[k].sound}}
           T == {n \in 0..N : Good(n)}
<1>3. 0 \in T
  <2>1. <<>> \in Seq(S) /\ Len(<<>>) = 0 /\ Distinct(<<>>) /\ ToSet(<<>>) = {}
    BY DEF Distinct, ToSet
  <2>2. {reg[i] : i \in {k \in 1..0 : reg[k].sound}} = {}
    OBVIOUS
  <2>3. Good(0)
    BY <1>2, <2>1, <2>2
  <2>4. 0 \in 0..N
    BY <1>1
  <2> HIDE DEF Good
  <2> QED BY <2>3, <2>4
<1>4. ASSUME NEW n \in 0..N, n \in T, n < N PROVE n + 1 \in T
  <2>1. /\ n + 1 \in 1..N /\ n + 1 \in 0..N /\ (n + 1) - 1 = n /\ n \in Nat
        /\ 1..(n + 1) = 1..n \cup {n + 1} /\ 1..n \subseteq 1..N
    BY <1>1, <1>4
  <2>2. Good(n)
    BY <1>4
  <2>3. CASE ~reg[n + 1].sound
    <3>1. F[n + 1] = F[n]
      BY <1>2, <2>1, <2>3
    <3>2. {k \in 1..(n + 1) : reg[k].sound} = {k \in 1..n : reg[k].sound}
      BY <2>1, <2>3
    <3>3. Len(F[n]) <= n + 1
      BY <2>1, <2>2
    <3> QED BY <2>1, <2>2, <3>1, <3>2, <3>3
  <2>4. CASE reg[n + 1].sound
    <3> DEFINE r == reg[n + 1]
    <3>1. F[n + 1] = Append(F[n], r) /\ r \in S
      BY <1>1, <1>2, <2>1, <2>4
    <3>2. r.id \notin Ids(F[n])
      <4>1. \A k \in 1..n : reg[k].id # r.id
        <5>1. \A k \in 1..n : k \in 1..N /\ k # n + 1
          BY <2>1
        <5> QED BY <1>1, <2>1, <5>1 DEF Distinct
      <4> QED BY <2>2, <4>1 DEF Ids
    <3>3. {reg[i] : i \in {k \in 1..(n + 1) : reg[k].sound}}
              = {reg[i] : i \in {k \in 1..n : reg[k].sound}} \cup {r}
      BY <2>1, <2>4
    <3>4. Append(F[n], r) \in Seq(S) /\ Len(Append(F[n], r)) = Len(F[n]) + 1
          /\ ToSet(Append(F[n], r)) = ToSet(F[n]) \cup {r} /\ Distinct(Append(F[n], r))
      BY <2>2, <3>1, <3>2, AppendKeeps
    <3>5. Len(F[n]) + 1 <= n + 1
      BY <2>1, <2>2
    <3> HIDE DEF r
    <3> QED BY <2>1, <2>2, <3>1, <3>3, <3>4, <3>5
  <2> QED BY <2>3, <2>4
<1>5. \A n \in 0..N : n \in T
  <2> HIDE DEF T, N
  <2>1. \A n \in 0..N : n \in T /\ n < N => n + 1 \in T
    BY <1>4
  <2> QED BY <1>1, <1>3, <2>1, UpTo
<1>6. Good(N)
  <2>1. N \in T
    <3> HIDE DEF T, N
    <3> QED BY <1>1, <1>5
  <2> HIDE DEF Good, N
  <2> QED BY <2>1
<1>7. ToSet(Restored(reg)) = {r \in ToSet(reg) : r.sound}
  <2>1. ToSet(Restored(reg)) = {reg[i] : i \in {k \in 1..N : reg[k].sound}}
    BY <1>2, <1>6
  <2> HIDE DEF N
  <2>2. ToSet(reg) = {reg[i] : i \in 1..N}
    BY <1>1 DEF ToSet
  <2> QED BY <2>1, <2>2
<1>8. ASSUME N > 0, reg[N].sound
      PROVE  Len(Restored(reg)) > 0 /\ Restored(reg)[Len(Restored(reg))] = reg[N]
  <2>1. N \in 1..N /\ N - 1 \in 0..N /\ reg[N] \in S
    BY <1>1, <1>8
  <2>2. Restored(reg) = Append(F[N - 1], reg[N]) /\ F[N - 1] \in Seq(S)
    BY <1>2, <1>5, <1>8, <2>1
  <2> HIDE DEF N
  <2> QED BY <2>1, <2>2, AppendKeeps
<1> QED BY <1>2, <1>6, <1>7, <1>8
-----------------------------------------------------------------------------
(* Job histories: their entries have a job each, and are bounded.           *)

DistinctJobs(h) == \A i, j \in DOMAIN h : h[i].job = h[j].job => i = j

\* An entry that is entered is there; of the others some stay, each as it was.
LEMMA AddedKeeps ==
    ASSUME NEW S, NEW h \in Seq(S), NEW e \in S, Len(h) <= HistoryLimit, DistinctJobs(h)
    PROVE  /\ Added(h, e) \in Seq(S) /\ Len(Added(h, e)) <= HistoryLimit
           /\ DistinctJobs(Added(h, e))
           /\ ToSet(Added(h, e)) \subseteq {x \in ToSet(h) : x.job # e.job} \cup {e}
<1> DEFINE t == Added(h, e)
<1>1. Len(h) \in Nat /\ DOMAIN h = 1..Len(h) /\ \A i \in 1..Len(h) : h[i] \in S
  OBVIOUS
<1>2. CASE e.job \in Known(h)
  <2>1. t = [i \in 1..Len(h) |-> IF h[i].job = e.job THEN e ELSE h[i]]
    BY <1>1, <1>2 DEF Added
  <2>2. t \in Seq(S) /\ Len(t) = Len(h) /\ DOMAIN t = 1..Len(h)
    BY <1>1, <2>1
  <2>3. \A i \in 1..Len(h) : /\ t[i] = IF h[i].job = e.job THEN e ELSE h[i]
                             /\ t[i].job = h[i].job
    BY <2>1
  <2> HIDE DEF t
  <2>4. DistinctJobs(t)
    BY <1>1, <2>2, <2>3 DEF DistinctJobs
  <2>5. ToSet(t) \subseteq {x \in ToSet(h) : x.job # e.job} \cup {e}
    BY <1>1, <2>2, <2>3 DEF ToSet
  <2> QED BY <2>2, <2>4, <2>5 DEF t
<1>3. CASE e.job \notin Known(h)
  <2> DEFINE a == Append(h, e)
  <2>1. t = Bounded(a, HistoryLimit)
    BY <1>3 DEF Added
  <2>2. /\ a \in Seq(S) /\ Len(a) = Len(h) + 1 /\ a[Len(h) + 1] = e
        /\ \A i \in 1..Len(h) : a[i] = h[i]
        /\ ToSet(a) = ToSet(h) \cup {e}
    BY AppendKeeps
  <2>3. \A x \in ToSet(h) : x.job # e.job
    BY <1>3 DEF Known
  <2>4. DistinctJobs(a)
    <3>1. DOMAIN a = 1..(Len(h) + 1) /\ \A i \in 1..(Len(h) + 1) : i = Len(h) + 1 \/ i \in 1..Len(h)
      BY <1>1, <2>2
    <3>2. \A i \in 1..Len(h) : a[i].job # a[Len(h) + 1].job
      BY <1>1, <2>2, <2>3 DEF ToSet
    <3> HIDE DEF a
    <3> QED BY <1>1, <2>2, <3>1, <3>2 DEF DistinctJobs
  <2> HIDE DEF a
  <2>5. t \in Seq(S) /\ Len(t) <= HistoryLimit /\ IsEnd(t, a)
    BY <2>1, <2>2, BoundedIsEnd, RegistriesAssumption
  <2>6. ToSet(t) \subseteq ToSet(a)
    BY <2>2, <2>5, EndKeeps
  <2>7. DistinctJobs(t)
    <3>1. PICK cut \in 0..Len(a) : Len(t) = Len(a) - cut /\ \A i \in 1..Len(t) : t[i] = a[cut + i]
      BY <2>5 DEF IsEnd
    <3>2. Len(a) \in Nat /\ DOMAIN a = 1..Len(a) /\ DOMAIN t = 1..Len(t)
      BY <2>2, <2>5
    <3>3. \A i \in 1..Len(t) : cut + i \in 1..Len(a)
      BY <3>1, <3>2
    <3>4. \A i, j \in 1..Len(t) : cut + i = cut + j => i = j
      BY <3>1, <3>2
    <3> HIDE DEF t, a
    <3>5. ASSUME NEW i \in 1..Len(t), NEW j \in 1..Len(t), t[i].job = t[j].job PROVE i = j
      <4>1. a[cut + i].job = a[cut + j].job
        BY <3>1, <3>5
      <4>2. cut + i = cut + j
        BY <2>4, <3>2, <3>3, <4>1 DEF DistinctJobs
      <4> QED BY <3>4, <4>2
    <3> QED BY <3>2, <3>5 DEF DistinctJobs
  <2> HIDE DEF t
  <2> QED BY <2>2, <2>3, <2>5, <2>6, <2>7 DEF t
<1> QED BY <1>2, <1>3

\* Histories with entries of a kind, of one job each, within the limit.
Histories(S) == {h \in Seq(S) : Len(h) <= HistoryLimit /\ DistinctJobs(h)}

\* An entry that is added to a jobHistory leaves one.
LEMMA AddedStays ==
    ASSUME NEW S, NEW h \in Histories(S), NEW e \in S
    PROVE  Added(h, e) \in Histories(S)
  BY AddedKeeps DEF Histories

\* The empty jobHistory is one.
LEMMA EmptyHistory == ASSUME NEW S PROVE <<>> \in Histories(S)
  BY RegistriesAssumption DEF Histories, DistinctJobs

\* job_list enters what is listed, one after the other: all that was known may only
\* have been replaced by an entry that is not over, or dropped.
LEMMA UpdatedAllStays ==
    ASSUME NEW S, NEW h \in Histories(S), NEW jobs, NEW upto \in Nat,
           \A j \in jobs : [job |-> j, over |-> FALSE] \in S
    PROVE  UpdatedAll(h, jobs, upto) \in Histories(S)
<1> DEFINE N == upto
           Q == Histories(S)
           E(n, s) == IF n \in jobs THEN Updated(s, n, FALSE) ELSE s
           f == [n \in 1..N |-> [s \in Q |-> E(n, s)]]
           Is(G) == G = [n \in 0..N |-> IF n = 0 THEN h ELSE E(n, G[n - 1])]
<1>1. \A n \in 1..N, s \in Q : E(n, s) \in Q
  BY AddedStays DEF Updated
<1>2. f \in [1..N -> [Q -> Q]]
  <2> HIDE DEF E
  <2> QED BY <1>1
<1>3. PICK G : IsIteration(G, Q, h, N, f)
  <2> HIDE DEF f, Q
  <2> QED BY <1>2, Iterates DEF Q
<1>4. Is(G)
  <2>1. G \in [0..N -> Q] /\ G[0] = h /\ \A j \in 1..N : G[j] = f[j][G[j - 1]]
    BY <1>3 DEF IsIteration
  <2>2. \A j \in 1..N : j - 1 \in 0..N /\ G[j - 1] \in Q
    <3> HIDE DEF Q, f
    <3> QED BY <2>1
  <2>3. \A j \in 1..N : G[j] = E(j, G[j - 1])
    <3> HIDE DEF E, Q
    <3> QED BY <2>1, <2>2
  <2>4. \A j \in 0..N : j = 0 \/ j \in 1..N
    OBVIOUS
  <2> HIDE DEF E, Q, f
  <2> QED BY <2>1, <2>3, <2>4
<1> DEFINE F == CHOOSE H : Is(H)
<1>5. Is(F)
  <2> HIDE DEF Is
  <2> QED BY <1>4
<1>6. UpdatedAll(h, jobs, upto) = F[N]
  BY DEF UpdatedAll
<1>7. F[0] = h /\ \A n \in 1..N : F[n] = E(n, F[n - 1])
  <2>1. 0 \in 0..N /\ \A n \in 1..N : n \in 0..N /\ n # 0
    OBVIOUS
  <2> HIDE DEF F, E
  <2> QED BY <1>5, <2>1
<1> DEFINE T == {n \in 0..N : F[n] \in Q}
<1>8. 0 \in T
  <2> HIDE DEF F, Q
  <2> QED BY <1>7 DEF Q
<1>9. \A n \in 0..N : n \in T /\ n < N => n + 1 \in T
  <2> SUFFICES ASSUME NEW n \in 0..N, n \in T, n < N PROVE n + 1 \in T
    OBVIOUS
  <2>1. n + 1 \in 1..N /\ n + 1 \in 0..N /\ (n + 1) - 1 = n
    OBVIOUS
  <2> HIDE DEF F, E, Q
  <2> QED BY <1>1, <1>7, <2>1
<1>10. \A n \in 0..N : n \in T
  <2> HIDE DEF T
  <2> QED BY <1>8, <1>9, UpTo
<1> HIDE DEF F, Q, E
<1> QED BY <1>6, <1>10 DEF Q
\* The entries of a saved jobHistory are put in one after the other.
LEMMA RestoredHistoryStays ==
    ASSUME NEW S, NEW h \in Histories(S)
    PROVE  RestoredHistory(h) \in Histories(S)
<1> DEFINE N == Len(h)
           Q == Histories(S)
           f == [n \in 1..N |-> [s \in Q |-> Added(s, h[n])]]
           Is(G) == G = [n \in 0..N |-> IF n = 0 THEN <<>> ELSE Added(G[n - 1], h[n])]
<1>1. N \in Nat /\ \A n \in 1..N : h[n] \in S
  BY DEF Histories
<1>2. \A n \in 1..N, s \in Q : Added(s, h[n]) \in Q
  BY <1>1, AddedStays
<1>3. f \in [1..N -> [Q -> Q]] /\ <<>> \in Q
  <2> HIDE DEF Q, N
  <2> QED BY <1>2, EmptyHistory DEF Q
<1>4. PICK G : IsIteration(G, Q, <<>>, N, f)
  <2> HIDE DEF f, Q, N
  <2> QED BY <1>1, <1>3, Iterates
<1>5. Is(G)
  <2>1. G \in [0..N -> Q] /\ G[0] = <<>> /\ \A j \in 1..N : G[j] = f[j][G[j - 1]]
    BY <1>4 DEF IsIteration
  <2>2. \A j \in 1..N : j - 1 \in 0..N /\ G[j - 1] \in Q
    <3> HIDE DEF Q, f, N
    <3> QED BY <1>1, <2>1
  <2>3. \A j \in 1..N : G[j] = Added(G[j - 1], h[j])
    <3> HIDE DEF Q, N
    <3> QED BY <2>1, <2>2
  <2>4. \A j \in 0..N : j = 0 \/ j \in 1..N
    BY <1>1
  <2> HIDE DEF Q, f, N
  <2> QED BY <2>1, <2>3, <2>4
<1> DEFINE F == CHOOSE H : Is(H)
<1>6. Is(F)
  <2> HIDE DEF Is
  <2> QED BY <1>5
<1>7. RestoredHistory(h) = F[N]
  <2>1. Bounded(h, HistoryLimit) = h
    BY DEF Bounded, Histories
  <2> QED BY <2>1 DEF RestoredHistory
<1>8. F[0] = <<>> /\ \A n \in 1..N : F[n] = Added(F[n - 1], h[n])
  <2>1. 0 \in 0..N /\ \A n \in 1..N : n \in 0..N /\ n # 0
    BY <1>1
  <2> HIDE DEF F, N
  <2> QED BY <1>6, <2>1
<1> DEFINE T == {n \in 0..N : F[n] \in Q}
<1>9. 0 \in T
  <2>1. 0 \in 0..N
    BY <1>1
  <2> HIDE DEF F, Q, N
  <2> QED BY <1>3, <1>8, <2>1
<1>10. \A n \in 0..N : n \in T /\ n < N => n + 1 \in T
  <2> SUFFICES ASSUME NEW n \in 0..N, n \in T, n < N PROVE n + 1 \in T
    OBVIOUS
  <2>1. n + 1 \in 1..N /\ n + 1 \in 0..N /\ (n + 1) - 1 = n
    BY <1>1
  <2> HIDE DEF F, Q, N
  <2> QED BY <1>2, <1>8, <2>1
<1>11. \A n \in 0..N : n \in T
  <2> HIDE DEF T, N
  <2> QED BY <1>1, <1>9, <1>10, UpTo
<1>12. N \in 0..N
  BY <1>1
<1> HIDE DEF F, Q, N
<1> QED BY <1>7, <1>11, <1>12 DEF Q

-----------------------------------------------------------------------------
(* The invariant *)

(* An entry that says a job is over tells the truth about Slurm.            *)
Truthful(jobstates) == {e \in Entries : e.over => jobstates[e.job] = "ended"}

(* A control plane whose records are well formed, whose current workspace   *)
(* is the newest and whose projects list what belongs to them.              *)
PlaneIsSound(pl) ==
    /\ IsPlane(pl)
    /\ pl.current # NoWorkspace =>
          pl.workspaces # <<>> /\ pl.workspaces[Len(pl.workspaces)].id = pl.current
    /\ \A r \in ToSet(pl.workspaces) :
          /\ r.id \in pl.projects[r.project].workspaces
          /\ r.jobs \subseteq pl.projects[r.project].jobs

(* An answered submission is in the project as it is in memory too: the     *)
(* next command that saves writes the file from there.                      *)
RecordsAreSound ==
    /\ profile \in Profiles /\ last \in 0..MaxJobs
    /\ saved.last \in 0..MaxJobs /\ saved.profile \in Profiles
    /\ jobHistory \in Histories(Truthful(slurm)) /\ saved.jobHistory \in Histories(Truthful(slurm))
    /\ PlaneIsSound(plane) /\ PlaneIsSound(saved.plane)
    /\ told \subseteq [job : Jobs, profile : Profiles]
    /\ \A t \in told : /\ t.job \in plane.projects[t.profile].jobs
                       /\ t.job \in saved.plane.projects[t.profile].jobs

ServiceIsSound ==
    /\ service \in [job : 0..MaxJobs, node : 0..MaxJobs, state : States]
    /\ service.node \in {0, service.job}
    /\ service.job # 0 => slurm[service.job] # "none"
    /\ service.job # 0 /\ service.state \in Over => slurm[service.job] = "ended"
    /\ started \subseteq Jobs /\ \A j \in started : slurm[j] # "none"
    /\ NoForgottenService

TunnelIsSound ==
    /\ tunnel \in [to : 0..MaxJobs, up : BOOLEAN]
    /\ tunnel.up => service.job # 0 /\ tunnel.to # 0
    /\ stray \subseteq Jobs
    /\ endpoints \in [Jobs -> 0..MaxJobs]
    /\ KeyStaysUnlessStray

(* The inductive invariant.                                                 *)
IInv ==
    /\ slurm \in [Jobs -> Active \union {"none", "ended"}]
    /\ RecordsAreSound /\ ServiceIsSound /\ TunnelIsSound
    /\ restarts \in 0..MaxRestarts /\ choices \in 0..MaxChoices /\ faults \in 0..MaxFaults

-----------------------------------------------------------------------------
(* What a call of the registry or of the control plane keeps.               *)

Registry(reg) == reg \in Seq(WorkspaceRecords) /\ Len(reg) <= WorkspaceLimit /\ Distinct(reg)

\* The registry of the type invariant, as it is used here.
LEMMA RegistryIs == ASSUME NEW reg PROVE IsRegistry(reg) <=> Registry(reg)
  BY DEF IsRegistry, Registry, Distinct

\* A workspace is named once: what is found under the id of a record is that record.
LEMMA GetIsTheOne ==
    ASSUME NEW reg, Registry(reg), NEW k \in DOMAIN reg
    PROVE  reg[k].id \in Ids(reg) /\ Get(reg, reg[k].id) = reg[k]
<1>1. reg[k] \in ToSet(reg) /\ reg[k].id \in Ids(reg)
  BY DEF Ids, ToSet
<1>2. Get(reg, reg[k].id) \in ToSet(reg) /\ Get(reg, reg[k].id).id = reg[k].id
  BY <1>1, GetFinds
<1>3. PICK i \in DOMAIN reg : Get(reg, reg[k].id) = reg[i]
  BY <1>2 DEF ToSet
<1> QED BY <1>1, <1>2, <1>3 DEF Registry, Distinct

\* r stands for the same workspace as x, with the same jobs.
SameWorkspace(r, x) == r.id = x.id /\ r.project = x.project /\ r.jobs = x.jobs

\* ensure: when it accepts, the workspace is the newest; when not, all stay in place.
\* Every other record is one that was there before.
LEMMA EnsuredKeeps ==
    ASSUME NEW reg, Registry(reg), NEW wanted \in WorkspaceRecords, NEW described \in BOOLEAN
    PROVE  /\ Registry(Ensured(reg, wanted, described))
           /\ \A r \in ToSet(Ensured(reg, wanted, described)) :
                 r = wanted \/ \E x \in ToSet(reg) : SameWorkspace(r, x)
           /\ Accepts(reg, wanted, described) =>
                 LET new == Ensured(reg, wanted, described)
                 IN  /\ Len(new) > 0 /\ new[Len(new)].id = wanted.id
                     /\ new[Len(new)].project = wanted.project
           /\ ~Accepts(reg, wanted, described) =>
                 /\ Len(Ensured(reg, wanted, described)) = Len(reg)
                 /\ \A i \in DOMAIN reg : Ensured(reg, wanted, described)[i].id = reg[i].id
                 /\ \A r \in ToSet(Ensured(reg, wanted, described)) : \E x \in ToSet(reg) : SameWorkspace(r, x)
<1> DEFINE W == WorkspaceRecords
           new == Ensured(reg, wanted, described)
<1>1. reg \in Seq(W) /\ Len(reg) <= WorkspaceLimit /\ Distinct(reg) /\ Len(reg) \in Nat
      /\ DOMAIN reg = 1..Len(reg) /\ WorkspaceLimit \in Nat \ {0}
  BY RegistriesAssumption DEF Registry
<1>2. \A x \in ToSet(reg) : x \in W
  BY <1>1 DEF ToSet
<1>3. \A x : SameWorkspace(x, x)
  BY DEF SameWorkspace
<1>4. CASE wanted.id \notin Ids(reg)
  <2>1. CASE wanted.sound
    <3> DEFINE a == Append(reg, wanted)
    <3>1. /\ a \in Seq(W) /\ Len(a) = Len(reg) + 1 /\ a[Len(reg) + 1] = wanted
          /\ ToSet(a) = ToSet(reg) \cup {wanted} /\ Distinct(a)
      <4> HIDE DEF W
      <4> QED BY <1>1, <1>4, AppendKeeps DEF W
    <3>2. new = Bounded(a, WorkspaceLimit) /\ Accepts(reg, wanted, described)
      BY <1>4, <2>1 DEF Ensured, Accepts
    <3> HIDE DEF a, W
    <3>3. /\ new \in Seq(W) /\ Len(new) <= WorkspaceLimit /\ IsEnd(new, a) /\ Len(new) > 0
      BY <1>1, <3>1, <3>2, BoundedIsEnd
    <3>4. ToSet(new) \subseteq ToSet(a) /\ Distinct(new) /\ new[Len(new)] = wanted
      BY <1>1, <3>1, <3>3, EndKeeps
    <3>5. Registry(new)
      BY <3>3, <3>4 DEF Registry, W
    <3>6. \A r \in ToSet(new) : r = wanted \/ \E x \in ToSet(reg) : SameWorkspace(r, x)
      BY <1>3, <3>1, <3>4
    <3> QED BY <3>2, <3>3, <3>4, <3>5, <3>6
  <2>2. CASE ~wanted.sound
    <3>1. new = reg /\ ~Accepts(reg, wanted, described)
      BY <1>4, <2>2 DEF Ensured, Accepts
    <3> HIDE DEF new, W
    <3> QED BY <1>3, <3>1 DEF new
  <2> QED BY <2>1, <2>2
<1>5. CASE wanted.id \in Ids(reg)
  <2> DEFINE old == Get(reg, wanted.id)
             renamed == [old EXCEPT !.sound = wanted.sound]
             changed == [renamed EXCEPT !.state = wanted.state]
  <2>1. old \in ToSet(reg) /\ old.id = wanted.id /\ old \in W
    BY <1>2, <1>5, GetFinds
  <2>2. renamed \in W /\ renamed.id = old.id /\ renamed.project = old.project
        /\ renamed.jobs = old.jobs
    <3> HIDE DEF old
    <3> QED BY <2>1 DEF WorkspaceRecords
  <2>3. changed \in W /\ changed.id = old.id /\ changed.project = old.project
        /\ changed.jobs = old.jobs
    <3> HIDE DEF renamed
    <3> QED BY <2>2 DEF WorkspaceRecords
  <2>4. SameWorkspace(renamed, old) /\ SameWorkspace(changed, old)
    BY <2>2, <2>3 DEF SameWorkspace
  <2>5. CASE old.project # wanted.project \/ old.provider # wanted.provider
    <3>1. new = reg /\ ~Accepts(reg, wanted, described)
      BY <1>5, <2>5 DEF Ensured, Accepts
    <3> HIDE DEF new, W
    <3> QED BY <1>3, <3>1 DEF new
  <2>6. CASE old.project = wanted.project /\ old.provider = wanted.provider
             /\ Follows(old, wanted, described)
    <3>1. new = Touched(reg, changed) /\ Accepts(reg, wanted, described)
      BY <1>5, <2>6 DEF Ensured, Accepts
    <3> HIDE DEF changed, renamed, old, W
    <3>2. /\ new \in Seq(W) /\ Len(new) = Len(reg) /\ Len(reg) > 0 /\ new[Len(reg)] = changed
          /\ Distinct(new) /\ ToSet(new) \subseteq ToSet(reg) \cup {changed}
      BY <1>1, <1>5, <2>1, <2>3, <3>1, TouchedMoves
    <3>3. Registry(new)
      BY <1>1, <3>2 DEF Registry, W
    <3> QED BY <1>3, <2>1, <2>3, <2>4, <2>6, <3>1, <3>2, <3>3
  <2>7. CASE old.project = wanted.project /\ old.provider = wanted.provider
             /\ ~Follows(old, wanted, described)
    <3>1. new = Replaced(reg, renamed) /\ ~Accepts(reg, wanted, described)
      BY <1>5, <2>7 DEF Ensured, Accepts
    <3> HIDE DEF changed, renamed, old, W
    <3>2. /\ new \in Seq(W) /\ Len(new) = Len(reg) /\ Distinct(new)
          /\ \A i \in DOMAIN reg : new[i].id = reg[i].id
          /\ ToSet(new) \subseteq ToSet(reg) \cup {renamed}
      <4> DEFINE rep == Replaced(reg, renamed)
      <4>1. /\ rep \in Seq(W) /\ Len(rep) = Len(reg) /\ Distinct(rep)
            /\ \A i \in DOMAIN reg : rep[i].id = reg[i].id
            /\ ToSet(rep) \subseteq {x \in ToSet(reg) : x.id # renamed.id} \cup {renamed}
        BY <1>1, <2>2, ReplacedStays
      <4> HIDE DEF rep, new
      <4>2. new = rep
        BY <3>1 DEF rep, new
      <4> QED BY <4>1, <4>2
    <3>3. Registry(new)
      BY <1>1, <3>2 DEF Registry, W
    <3> QED BY <1>3, <2>1, <2>4, <3>1, <3>2, <3>3
  <2> QED BY <2>5, <2>6, <2>7
<1> QED BY <1>4, <1>5
\* No workspace has the id that stands for none.
LEMMA NoneIsNone == NoWorkspace \notin WorkspaceIds
  BY DEF NoWorkspace, WorkspaceIds, Sources

\* The projects of q have every job that those of p have.
Grown(p, q) == \A x \in Profiles : p[x].jobs \subseteq q[x].jobs

\* What the soundness of a control plane says of its parts.
LEMMA PlaneParts ==
    ASSUME NEW pl, PlaneIsSound(pl)
    PROVE  /\ Registry(pl.workspaces) /\ pl.projects \in [Profiles -> Projects]
           /\ pl.current \in Ids(pl.workspaces) \union {NoWorkspace}
           /\ pl = [workspaces |-> pl.workspaces, current |-> pl.current, projects |-> pl.projects]
           /\ \A r \in ToSet(pl.workspaces) : r \in WorkspaceRecords
           /\ Grown(pl.projects, pl.projects)
<1>1. Registry(pl.workspaces)
  BY RegistryIs DEF PlaneIsSound, IsPlane
<1>2. \A r \in ToSet(pl.workspaces) : r \in WorkspaceRecords
  BY <1>1 DEF Registry, ToSet
<1> QED BY <1>1, <1>2 DEF PlaneIsSound, IsPlane, Grown

\* A plane is sound when its registry, its current workspace and its projects are.
LEMMA PlaneFromParts ==
    ASSUME NEW reg, NEW cur, NEW projects \in [Profiles -> Projects], Registry(reg),
           cur # NoWorkspace => Len(reg) > 0 /\ reg[Len(reg)].id = cur,
           \A r \in ToSet(reg) : /\ r.id \in projects[r.project].workspaces
                                 /\ r.jobs \subseteq projects[r.project].jobs
    PROVE  PlaneIsSound([workspaces |-> reg, current |-> cur, projects |-> projects])
<1> DEFINE pl == [workspaces |-> reg, current |-> cur, projects |-> projects]
<1>1. pl.workspaces = reg /\ pl.current = cur /\ pl.projects = projects
  OBVIOUS
<1>2. IsRegistry(reg) /\ Len(reg) \in Nat /\ DOMAIN reg = 1..Len(reg)
  BY RegistryIs DEF Registry
<1>3. cur \in Ids(reg) \union {NoWorkspace}
  <2>1. CASE cur # NoWorkspace
    <3>1. Len(reg) \in DOMAIN reg
      BY <1>2, <2>1
    <3> QED BY <2>1, <3>1, GetIsTheOne
  <2> QED BY <2>1
<1>4. cur # NoWorkspace => reg # <<>>
  BY <1>2
<1> QED BY <1>1, <1>2, <1>3, <1>4 DEF PlaneIsSound, IsPlane

\* A new control plane is sound.
LEMMA EmptyPlane == PlaneIsSound(NewPlane)
<1>1. Registry(<<>>) /\ ToSet(<<>>) = {}
  BY RegistriesAssumption DEF Registry, Distinct, ToSet
<1>2. [p \in Profiles |-> NewProject] \in [Profiles -> Projects]
  BY DEF NewProject, Projects
<1> QED BY <1>1, <1>2, PlaneFromParts DEF NewPlane

\* EnsureWorkspace keeps the plane sound, also when it raises.
LEMMA EnsureKeeps ==
    ASSUME NEW pl, PlaneIsSound(pl), NEW wanted \in WorkspaceRecords, wanted.jobs = {},
           NEW described \in BOOLEAN
    PROVE  LET e == EnsureWorkspace(pl, wanted, described)
           IN  /\ PlaneIsSound(e.plane) /\ Grown(pl.projects, e.plane.projects)
               /\ e.ok => LET reg == e.plane.workspaces
                          IN  /\ wanted.id \in Ids(reg)
                              /\ Get(reg, wanted.id).project = wanted.project
<1> DEFINE e == EnsureWorkspace(pl, wanted, described)
           reg == pl.workspaces
           new == Ensured(reg, wanted, described)
           p == wanted.project
           P == pl.projects
           Q == [P EXCEPT ![p] = LinkWorkspace(@, wanted.id)]
<1>1. /\ Registry(reg) /\ P \in [Profiles -> Projects] /\ Grown(P, P)
      /\ pl = [workspaces |-> reg, current |-> pl.current, projects |-> P]
      /\ \A r \in ToSet(reg) : r \in WorkspaceRecords
  BY PlaneParts
<1>2. /\ p \in Profiles /\ wanted.id \in WorkspaceIds
      /\ \A r \in ToSet(reg) : r.project \in Profiles
  BY <1>1 DEF WorkspaceRecords
<1>3. /\ pl.current # NoWorkspace => reg # <<>> /\ reg[Len(reg)].id = pl.current
      /\ \A r \in ToSet(reg) : /\ r.id \in P[r.project].workspaces
                               /\ r.jobs \subseteq P[r.project].jobs
  BY DEF PlaneIsSound
<1>4. /\ Registry(new)
      /\ \A r \in ToSet(new) : r = wanted \/ \E x \in ToSet(reg) : SameWorkspace(r, x)
      /\ Accepts(reg, wanted, described) => /\ Len(new) > 0 /\ new[Len(new)].id = wanted.id
                                 /\ new[Len(new)].project = wanted.project
      /\ ~Accepts(reg, wanted, described) =>
            /\ Len(new) = Len(reg)
            /\ \A i \in DOMAIN reg : new[i].id = reg[i].id
            /\ \A r \in ToSet(new) : \E x \in ToSet(reg) : SameWorkspace(r, x)
  BY <1>1, EnsuredKeeps
<1>5. CASE wanted.provider \notin Allowed[p]
  <2>1. e.ok = FALSE /\ e.plane = pl
    BY <1>5 DEF EnsureWorkspace, Raises
  <2> QED BY <1>1, <2>1
<1>6. CASE wanted.provider \in Allowed[p] /\ ~Accepts(reg, wanted, described)
  <2>1. e.ok = FALSE /\ e.plane = [workspaces |-> new, current |-> pl.current, projects |-> P]
    BY <1>1, <1>6 DEF EnsureWorkspace, Raises
  <2> HIDE DEF e, new
  <2>2. pl.current # NoWorkspace => Len(new) > 0 /\ new[Len(new)].id = pl.current
    <3> HIDE DEF reg
    <3>1. reg # <<>> => Len(reg) > 0 /\ Len(reg) \in DOMAIN reg
      BY <1>1 DEF Registry
    <3> QED BY <1>3, <1>4, <1>6, <3>1
  <2>3. \A r \in ToSet(new) : /\ r.id \in P[r.project].workspaces
                              /\ r.jobs \subseteq P[r.project].jobs
    BY <1>3, <1>4, <1>6 DEF SameWorkspace
  <2>4. PlaneIsSound(e.plane)
    <3> HIDE DEF P
    <3> QED BY <1>1, <1>4, <2>1, <2>2, <2>3, PlaneFromParts
  <2>5. Grown(P, e.plane.projects) /\ e.ok = FALSE
    BY <1>1, <2>1
  <2> QED BY <2>4, <2>5 DEF e
<1>7. CASE wanted.provider \in Allowed[p] /\ Accepts(reg, wanted, described)
  <2>1. e.ok = TRUE /\ e.plane = [workspaces |-> new, current |-> wanted.id, projects |-> Q]
    BY <1>7 DEF EnsureWorkspace, Returns
  <2>2. Q \in [Profiles -> Projects] /\ \A x \in Profiles :
           /\ Q[x].jobs = P[x].jobs /\ P[x].workspaces \subseteq Q[x].workspaces
           /\ wanted.id \in Q[p].workspaces
    <3> DEFINE L == LinkWorkspace(P[p], wanted.id)
    <3>1. P[p] \in Projects
      BY <1>1, <1>2
    <3>2. L \in Projects /\ L.jobs = P[p].jobs /\ P[p].workspaces \subseteq L.workspaces
          /\ wanted.id \in L.workspaces
      BY <1>2, <3>1 DEF LinkWorkspace, Projects
    <3> HIDE DEF L, P
    <3>3. Q = [P EXCEPT ![p] = L]
      BY DEF L
    <3> QED BY <1>1, <1>2, <3>2, <3>3
  <2> HIDE DEF e, new, Q
  <2>3. \A r \in ToSet(new) : /\ r.id \in Q[r.project].workspaces
                              /\ r.jobs \subseteq Q[r.project].jobs
    <3> SUFFICES ASSUME NEW r \in ToSet(new)
                 PROVE  r.id \in Q[r.project].workspaces /\ r.jobs \subseteq Q[r.project].jobs
      OBVIOUS
    <3>1. CASE r = wanted
      BY <1>2, <2>2, <3>1
    <3>2. CASE \E x \in ToSet(reg) : SameWorkspace(r, x)
      <4> HIDE DEF P, reg
      <4>1. PICK x \in ToSet(reg) : SameWorkspace(r, x)
        BY <3>2
      <4>2. x.project \in Profiles /\ x.id \in P[x.project].workspaces
            /\ x.jobs \subseteq P[x.project].jobs
        BY <1>2, <1>3
      <4> QED BY <2>2, <4>1, <4>2 DEF SameWorkspace
    <3> QED BY <1>4, <3>1, <3>2
  <2>4. PlaneIsSound(e.plane)
    BY <1>4, <1>7, <2>1, <2>2, <2>3, PlaneFromParts
  <2>5. wanted.id \in Ids(new) /\ Get(new, wanted.id).project = wanted.project
    <3>1. Len(new) \in DOMAIN new
      BY <1>4, <1>7 DEF Registry
    <3> QED BY <1>4, <1>7, <3>1, GetIsTheOne
  <2>6. Grown(P, e.plane.projects) /\ e.plane.workspaces = new
    BY <2>1, <2>2 DEF Grown
  <2> QED BY <2>4, <2>5, <2>6 DEF e
<1> QED BY <1>5, <1>6, <1>7

\* The projects after a job was linked to one of them.
Linked(P, p, job) == [P EXCEPT ![p] = LinkJob(P[p], job)]

\* A job that is linked to a project of a sound plane: it stays sound.
LEMMA LinkedKeeps ==
    ASSUME NEW P \in [Profiles -> Projects], NEW p \in Profiles, NEW job \in Jobs,
           NEW Q, Q = Linked(P, p, job)
    PROVE  /\ Q \in [Profiles -> Projects] /\ Grown(P, Q) /\ job \in Q[p].jobs
           /\ \A x \in Profiles : Q[x].workspaces = P[x].workspaces
<1> DEFINE L == LinkJob(P[p], job)
<1>0. Q = [P EXCEPT ![p] = L]
  BY DEF Linked
<1>1. P[p] \in Projects
  OBVIOUS
<1>2. L \in Projects /\ L.jobs = P[p].jobs \cup {job} /\ L.workspaces = P[p].workspaces
  <2> DEFINE o == P[p]
  <2>1. o \in Projects
    BY <1>1
  <2> HIDE DEF o
  <2>2. LinkJob(o, job) \in Projects /\ LinkJob(o, job).jobs = o.jobs \cup {job}
        /\ LinkJob(o, job).workspaces = o.workspaces
    BY <2>1 DEF LinkJob, Projects
  <2> QED BY <2>2 DEF o
<1> HIDE DEF L
<1>3. Q \in [Profiles -> Projects] /\ Grown(P, Q) /\ job \in Q[p].jobs
      /\ \A x \in Profiles : Q[x].workspaces = P[x].workspaces
  BY <1>0, <1>2 DEF Grown
<1> QED BY <1>3

\* What is written before the recovery file is: the job submitted last is linked.
LEMMA SettledKeeps ==
    ASSUME NEW pl, PlaneIsSound(pl), NEW p \in Profiles, NEW lst \in 0..MaxJobs
    PROVE  /\ PlaneIsSound(Settled(pl, p, lst)) /\ Grown(pl.projects, Settled(pl, p, lst).projects)
           /\ lst # 0 => lst \in Settled(pl, p, lst).projects[p].jobs
<1> DEFINE reg == pl.workspaces
           P == pl.projects
           Q == [P EXCEPT ![p] = LinkJob(@, lst)]
           e == Settled(pl, p, lst)
<1>1. /\ Registry(reg) /\ P \in [Profiles -> Projects] /\ Grown(P, P)
      /\ pl = [workspaces |-> reg, current |-> pl.current, projects |-> P]
      /\ \A r \in ToSet(reg) : r \in WorkspaceRecords
  BY PlaneParts
<1>2. CASE lst = 0
  <2>1. e = pl
    BY <1>2 DEF Settled
  <2> QED BY <1>1, <1>2, <2>1
<1>3. CASE lst # 0
  <2>1. e = [workspaces |-> reg, current |-> pl.current, projects |-> Q]
    BY <1>1, <1>3 DEF Settled
  <2>2. lst \in Jobs
    BY <1>3, ResourcesAssumption DEF Jobs
  <2>3. /\ Q \in [Profiles -> Projects] /\ Grown(P, Q) /\ lst \in Q[p].jobs
        /\ \A x \in Profiles : Q[x].workspaces = P[x].workspaces
    <3>1. Q = Linked(P, p, lst)
      BY DEF Linked
    <3> HIDE DEF Q
    <3> QED BY <1>1, <2>2, <3>1, LinkedKeeps
  <2>4. /\ pl.current # NoWorkspace => reg # <<>> /\ reg[Len(reg)].id = pl.current
        /\ \A r \in ToSet(reg) : /\ r.id \in P[r.project].workspaces
                                 /\ r.jobs \subseteq P[r.project].jobs
    BY DEF PlaneIsSound
  <2> HIDE DEF e, Q
  <2>5. \A r \in ToSet(reg) : /\ r.id \in Q[r.project].workspaces
                              /\ r.jobs \subseteq Q[r.project].jobs
    <3>1. \A r \in ToSet(reg) : r.project \in Profiles
      BY <1>1 DEF WorkspaceRecords
    <3> QED BY <2>3, <2>4, <3>1 DEF Grown
  <2>6. pl.current # NoWorkspace => Len(reg) > 0 /\ reg[Len(reg)].id = pl.current
    <3> HIDE DEF reg
    <3> QED BY <1>1, <2>4 DEF Registry
  <2>7. PlaneIsSound(e)
    <3> HIDE DEF reg
    <3> QED BY <1>1, <2>1, <2>3, <2>5, <2>6, PlaneFromParts
  <2>8. e.projects = Q
    BY <2>1
  <2> QED BY <2>3, <2>7, <2>8 DEF e
<1> QED BY <1>2, <1>3

\* A workspace that is touched becomes the newest; it keeps its project and gains jobs
\* that the project has.
LEMMA TouchedPlane ==
    ASSUME NEW pl, PlaneIsSound(pl), NEW P \in [Profiles -> Projects], NEW id \in Ids(pl.workspaces),
           Grown(pl.projects, P),
           \A x \in Profiles : P[x].workspaces = pl.projects[x].workspaces,
           NEW r \in WorkspaceRecords, r.id = id,
           r.project = Get(pl.workspaces, id).project, r.jobs \subseteq P[r.project].jobs
    PROVE  PlaneIsSound([workspaces |-> Touched(pl.workspaces, r), current |-> id, projects |-> P])
<1> DEFINE reg == pl.workspaces
           new == Touched(reg, r)
           W == WorkspaceRecords
<1>1. Registry(reg) /\ \A x \in ToSet(reg) : x \in WorkspaceRecords
  BY PlaneParts
<1>2. \A x \in ToSet(reg) : /\ x.id \in pl.projects[x.project].workspaces
                            /\ x.jobs \subseteq pl.projects[x.project].jobs
  BY DEF PlaneIsSound
<1>3. Get(reg, id) \in ToSet(reg) /\ Get(reg, id).id = id
  BY GetFinds
<1>4. reg \in Seq(W) /\ Distinct(reg) /\ Len(reg) <= WorkspaceLimit
  BY <1>1 DEF Registry
<1>5. /\ new \in Seq(W) /\ Len(new) = Len(reg) /\ Len(reg) > 0 /\ new[Len(reg)] = r
      /\ Distinct(new) /\ ToSet(new) = {x \in ToSet(reg) : x.id # r.id} \cup {r}
  <2> HIDE DEF W, reg
  <2> QED BY <1>4, TouchedMoves DEF W, reg
<1> HIDE DEF new, reg
<1>6. Registry(new)
  BY <1>4, <1>5 DEF Registry
<1>7. \A x \in ToSet(new) : x.id \in P[x.project].workspaces /\ x.jobs \subseteq P[x.project].jobs
  <2> SUFFICES ASSUME NEW x \in ToSet(new)
               PROVE  x.id \in P[x.project].workspaces /\ x.jobs \subseteq P[x.project].jobs
    OBVIOUS
  <2>1. CASE x \in ToSet(reg)
    <3>1. x.project \in Profiles
      BY <1>1, <2>1 DEF WorkspaceRecords
    <3> QED BY <1>2, <2>1, <3>1 DEF Grown
  <2>2. CASE x = r
    <3>1. r.project \in Profiles
      BY DEF WorkspaceRecords
    <3>2. Get(reg, id).id \in P[r.project].workspaces
      BY <1>2, <1>3, <3>1 DEF reg
    <3> QED BY <1>3, <2>2, <3>2
  <2> QED BY <1>5, <2>1, <2>2
<1> QED BY <1>5, <1>6, <1>7, PlaneFromParts DEF new, reg
\* The workspace that a resource goes to belongs to the project.
LEMMA TargetKeeps ==
    ASSUME NEW pl, PlaneIsSound(pl), NEW p \in Profiles, NEW resource \in WorkspaceIds,
           NEW selected, NEW sound \in BOOLEAN, NEW described \in BOOLEAN
    PROVE  LET t == Target(pl, p, resource, selected, sound, described)
               id == IF selected = NoWorkspace THEN resource ELSE selected
           IN  /\ PlaneIsSound(t.plane) /\ Grown(pl.projects, t.plane.projects)
               /\ t.ok => /\ id \in Ids(t.plane.workspaces)
                          /\ Get(t.plane.workspaces, id).project = p
<1> DEFINE t == Target(pl, p, resource, selected, sound, described)
<1>1. CASE selected = NoWorkspace
  <2> DEFINE w == Record(resource, p, "arc", "queued", sound)
  <2>1. w \in WorkspaceRecords /\ w.jobs = {} /\ w.id = resource /\ w.project = p
    BY DEF Record, WorkspaceRecords
  <2>2. t = EnsureWorkspace(pl, w, described)
    BY <1>1 DEF Target
  <2> HIDE DEF w
  <2>3. LET e == EnsureWorkspace(pl, w, described)
        IN  /\ PlaneIsSound(e.plane) /\ Grown(pl.projects, e.plane.projects)
            /\ e.ok => LET reg == e.plane.workspaces
                       IN  w.id \in Ids(reg) /\ Get(reg, w.id).project = w.project
    BY <2>1, EnsureKeeps
  <2> HIDE DEF t
  <2>4. /\ PlaneIsSound(t.plane) /\ Grown(pl.projects, t.plane.projects)
        /\ t.ok => /\ resource \in Ids(t.plane.workspaces)
                   /\ Get(t.plane.workspaces, resource).project = p
    BY <2>1, <2>2, <2>3
  <2> QED BY <1>1, <2>4 DEF t
<1>2. CASE selected # NoWorkspace
  <2>1. /\ t.plane = pl
        /\ t.ok => /\ selected \in Ids(pl.workspaces)
                   /\ Get(pl.workspaces, selected).project = p
    BY <1>2 DEF Target, Returns, Raises
  <2>2. Grown(pl.projects, pl.projects)
    BY PlaneParts
  <2> QED BY <1>2, <2>1, <2>2
<1> QED BY <1>1, <1>2

\* associate_resource keeps the plane sound, also when it raises half way.
LEMMA AssociateKeeps ==
    ASSUME NEW pl, PlaneIsSound(pl), NEW p \in Profiles, NEW resource \in WorkspaceIds,
           resource[1] = "job" => resource[2] \in Jobs,
           NEW selected, NEW sound \in BOOLEAN, NEW described \in BOOLEAN
    PROVE  LET a == Associate(pl, p, resource, selected, sound, described)
           IN  PlaneIsSound(a.plane) /\ Grown(pl.projects, a.plane.projects)
<1> DEFINE a == Associate(pl, p, resource, selected, sound, described)
           t == Target(pl, p, resource, selected, sound, described)
           id == IF selected = NoWorkspace THEN resource ELSE selected
           job == resource[2]
           record == Get(t.plane.workspaces, id)
           r == [record EXCEPT !.jobs = @ \union {job}]
           P == t.plane.projects
           Q == [P EXCEPT ![p] = LinkJob(@, job)]
<1>1. /\ PlaneIsSound(t.plane) /\ Grown(pl.projects, P)
      /\ t.ok => id \in Ids(t.plane.workspaces) /\ record.project = p
  BY TargetKeeps
<1>2. CASE "arc" \notin Allowed[p]
  <2>1. a.plane = pl
    BY <1>2 DEF Associate, Raises
  <2>2. Grown(pl.projects, pl.projects)
    BY PlaneParts
  <2> QED BY <2>1, <2>2
<1>3. CASE "arc" \in Allowed[p] /\ (~t.ok \/ resource[1] # "job")
  <2>1. a.plane = t.plane
    BY <1>3 DEF Associate, Raises
  <2> HIDE DEF a, t
  <2>2. PlaneIsSound(a.plane) /\ Grown(pl.projects, a.plane.projects)
    BY <1>1, <2>1
  <2> QED BY <2>2 DEF a
<1>4. CASE "arc" \in Allowed[p] /\ t.ok /\ resource[1] = "job"
  <2>1. a.plane = [workspaces |-> Touched(t.plane.workspaces, r), current |-> id, projects |-> Q]
    BY <1>4 DEF Associate, Returns
  <2>2. job \in Jobs
    BY <1>4
  <2> HIDE DEF t, a
  <2>3. /\ P \in [Profiles -> Projects]
        /\ \A x \in ToSet(t.plane.workspaces) :
              x \in WorkspaceRecords /\ x.jobs \subseteq P[x.project].jobs
    BY <1>1, PlaneParts DEF PlaneIsSound
  <2> HIDE DEF job
  <2>4. /\ Q \in [Profiles -> Projects] /\ Grown(P, Q) /\ job \in Q[p].jobs
        /\ \A x \in Profiles : Q[x].workspaces = P[x].workspaces
    <3> HIDE DEF P
    <3>1. Q = Linked(P, p, job)
      BY DEF Linked
    <3> HIDE DEF Q
    <3> QED BY <2>2, <2>3, <3>1, LinkedKeeps
  <2>5. record \in ToSet(t.plane.workspaces) /\ record.id = id
    BY <1>1, <1>4, GetFinds
  <2> HIDE DEF record, id, Q
  <2>6. record \in WorkspaceRecords /\ record.jobs \subseteq P[p].jobs
    BY <1>1, <1>4, <2>3, <2>5
  <2>7. r \in WorkspaceRecords /\ r.id = id /\ r.project = p /\ r.jobs = record.jobs \cup {job}
    BY <1>1, <1>4, <2>2, <2>5, <2>6 DEF WorkspaceRecords
  <2> HIDE DEF r, P
  <2>8. r.jobs \subseteq Q[r.project].jobs
    BY <2>4, <2>6, <2>7 DEF Grown
  <2>9. PlaneIsSound(a.plane)
    <3>1. id \in Ids(t.plane.workspaces) /\ r.project = Get(t.plane.workspaces, id).project
          /\ Grown(t.plane.projects, Q)
          /\ \A x \in Profiles : Q[x].workspaces = t.plane.projects[x].workspaces
      BY <1>1, <1>4, <2>4, <2>7 DEF record, P
    <3> DEFINE tp == t.plane
    <3>2. PlaneIsSound(tp)
      BY <1>1
    <3>3. PlaneIsSound([workspaces |-> Touched(tp.workspaces, r), current |-> id, projects |-> Q])
      <4> HIDE DEF tp
      <4> QED BY <2>4, <2>7, <2>8, <3>1, <3>2, TouchedPlane DEF tp
    <3> QED BY <2>1, <3>3
  <2>10. Grown(pl.projects, a.plane.projects)
    BY <1>1, <2>1, <2>4 DEF Grown
  <2> QED BY <2>9, <2>10 DEF a
<1> QED BY <1>2, <1>3, <1>4

\* A workspace that is stopped.
LEMMA StoppedKeeps ==
    ASSUME NEW pl, PlaneIsSound(pl), pl.current # NoWorkspace
    PROVE  LET record == Get(pl.workspaces, pl.current)
               stopped == Touched(pl.workspaces, [record EXCEPT !.state = "stopped"])
           IN  PlaneIsSound([pl EXCEPT !.workspaces = stopped])
<1> DEFINE record == Get(pl.workspaces, pl.current)
           r == [record EXCEPT !.state = "stopped"]
<1>1. /\ Registry(pl.workspaces) /\ pl.projects \in [Profiles -> Projects]
      /\ pl.current \in Ids(pl.workspaces)
      /\ pl = [workspaces |-> pl.workspaces, current |-> pl.current, projects |-> pl.projects]
      /\ \A x \in ToSet(pl.workspaces) : x \in WorkspaceRecords
      /\ Grown(pl.projects, pl.projects)
  BY PlaneParts
<1>2. record \in ToSet(pl.workspaces) /\ record.id = pl.current
  BY <1>1, GetFinds
<1>3. record \in WorkspaceRecords /\ record.jobs \subseteq pl.projects[record.project].jobs
  BY <1>1, <1>2 DEF PlaneIsSound
<1> HIDE DEF record
<1>4. r \in WorkspaceRecords /\ r.id = pl.current /\ r.project = record.project /\ r.jobs = record.jobs
  BY <1>2, <1>3 DEF WorkspaceRecords
<1> HIDE DEF r
<1>5. PlaneIsSound([workspaces |-> Touched(pl.workspaces, r), current |-> pl.current,
                    projects |-> pl.projects])
  BY <1>1, <1>3, <1>4, TouchedPlane DEF record
<1>6. [pl EXCEPT !.workspaces = Touched(pl.workspaces, r)]
          = [workspaces |-> Touched(pl.workspaces, r), current |-> pl.current,
             projects |-> pl.projects]
  BY <1>1
<1> QED BY <1>5, <1>6 DEF r, record

\* What a restart finds in the file.
LEMMA FoundKeeps ==
    ASSUME PlaneIsSound(saved.plane)
    PROVE  PlaneIsSound(Found) /\ Found.projects = saved.plane.projects
<1> DEFINE old == saved.plane.workspaces
           reg == Restored(old)
           P == saved.plane.projects
           cur == IF saved.plane.current \in Ids(reg) THEN saved.plane.current ELSE NoWorkspace
           W == WorkspaceRecords
<1>1. /\ Registry(old) /\ P \in [Profiles -> Projects]
      /\ saved.plane.current # NoWorkspace =>
            old # <<>> /\ old[Len(old)].id = saved.plane.current
      /\ \A r \in ToSet(old) : /\ r.id \in P[r.project].workspaces
                               /\ r.jobs \subseteq P[r.project].jobs
  <2>1. Registry(old) /\ P \in [Profiles -> Projects]
    BY PlaneParts
  <2> QED BY <2>1 DEF PlaneIsSound
<1>2. old \in Seq(W) /\ Distinct(old) /\ Len(old) \in Nat /\ Len(old) <= WorkspaceLimit
      /\ DOMAIN old = 1..Len(old)
  BY <1>1 DEF Registry
<1>3. /\ reg \in Seq(W) /\ Len(reg) <= Len(old) /\ Distinct(reg)
      /\ ToSet(reg) = {r \in ToSet(old) : r.sound}
      /\ Len(old) > 0 /\ old[Len(old)].sound =>
             Len(reg) > 0 /\ reg[Len(reg)] = old[Len(old)]
  <2> HIDE DEF W, old
  <2> QED BY <1>2, RestoredKeeps
<1>4. Found = [workspaces |-> reg, current |-> cur, projects |-> P]
  BY DEF Found
<1>5. Registry(reg)
  <2> HIDE DEF reg, old
  <2>1. Len(reg) \in Nat /\ WorkspaceLimit \in Nat
    BY <1>3, RegistriesAssumption
  <2> QED BY <1>2, <1>3, <2>1 DEF Registry
<1> HIDE DEF reg
<1>6. ASSUME cur # NoWorkspace PROVE Len(reg) > 0 /\ reg[Len(reg)].id = cur
  <2>1. cur \in Ids(reg) /\ cur = saved.plane.current
    BY <1>6
  <2> HIDE DEF cur
  <2>2. PICK r \in ToSet(old) : r.sound /\ r.id = cur
    BY <1>3, <2>1 DEF Ids
  <2>3. PICK k \in DOMAIN old : r = old[k]
    BY <2>2 DEF ToSet
  <2>4. Len(old) > 0 /\ Len(old) \in DOMAIN old /\ old[Len(old)].id = cur
    BY <1>1, <1>2, <1>6, <2>1, <2>3
  <2>5. k = Len(old)
    BY <1>2, <2>2, <2>3, <2>4 DEF Distinct
  <2>6. reg[Len(reg)] = old[Len(old)] /\ Len(reg) > 0
    BY <1>3, <2>2, <2>3, <2>4, <2>5
  <2> QED BY <2>4, <2>6
<1>7. \A r \in ToSet(reg) : /\ r.id \in P[r.project].workspaces
                            /\ r.jobs \subseteq P[r.project].jobs
  BY <1>1, <1>3
<1>8. PlaneIsSound(Found)
  <2> HIDE DEF P, cur
  <2> QED BY <1>1, <1>4, <1>5, <1>6, <1>7, PlaneFromParts
<1> QED BY <1>4, <1>8
-----------------------------------------------------------------------------
(* What Slurm does, and the bounds *)

\* A job never comes back, neither from its end nor to before its submission.
SlurmMovesOn ==
    \A j \in Jobs : /\ slurm[j] = "ended" => slurm'[j] = "ended"
                    /\ slurm[j] # "none" => slurm'[j] # "none"
                    /\ slurm'[j] \in Active => slurm[j] \in Active \union {"none"}

SlurmStates == Active \union {"none", "ended"}

\* A submission queues a job that was not there.
LEMMA QueuesMovesOn ==
    ASSUME slurm \in [Jobs -> SlurmStates], NEW j \in Jobs, Queues(j)
    PROVE  /\ slurm' \in [Jobs -> SlurmStates] /\ SlurmMovesOn
           /\ slurm[j] = "none" /\ slurm'[j] = "PENDING"
           /\ \A i \in Jobs : i # j => slurm'[i] = slurm[i]
<1>1. slurm[j] = "none" /\ slurm' = [slurm EXCEPT ![j] = "PENDING"]
  BY DEF Queues
<1>2. \A i \in Jobs : slurm'[i] = IF i = j THEN "PENDING" ELSE slurm[i]
  BY <1>1
<1> QED BY <1>1, <1>2 DEF SlurmMovesOn, SlurmStates, Active

\* A cancellation ends a job, or changes nothing.
LEMMA CancelsMovesOn ==
    ASSUME slurm \in [Jobs -> SlurmStates], NEW j \in Jobs, Cancels(j)
    PROVE  /\ slurm' \in [Jobs -> SlurmStates] /\ SlurmMovesOn
           /\ slurm[j] # "none" => slurm'[j] = "ended"
           /\ \A i \in Jobs : slurm'[i] \in Active => slurm'[i] = slurm[i]
<1>1. \A i \in Jobs : slurm'[i] = IF i = j /\ slurm[j] \in Active THEN "ended" ELSE slurm[i]
  BY DEF Cancels
<1>2. slurm' \in [Jobs -> SlurmStates]
  BY DEF Cancels, SlurmStates
<1>3. slurm[j] \in SlurmStates
  OBVIOUS
<1> QED BY <1>1, <1>2, <1>3 DEF SlurmMovesOn, SlurmStates, Active

\* What leaves Slurm alone moves it on.
LEMMA SlurmRests ==
    ASSUME slurm \in [Jobs -> SlurmStates], slurm' = slurm
    PROVE  slurm' \in [Jobs -> SlurmStates] /\ SlurmMovesOn
  BY DEF SlurmMovesOn, SlurmStates

\* Every action moves Slurm on: a job is queued once, and stays ended.
LEMMA SlurmStep ==
    ASSUME IInv, [Next]_vars
    PROVE  slurm' \in [Jobs -> SlurmStates] /\ SlurmMovesOn
<1> USE DEF SlurmStates
<1>1. slurm \in [Jobs -> SlurmStates] /\ service.job \in 0..MaxJobs
  BY DEF IInv, ServiceIsSound
<1>2. CASE UNCHANGED vars
  BY <1>1, <1>2, SlurmRests DEF vars
<1>3. CASE Progress
  <2>1. PICK j \in Jobs : \/ slurm[j] = "PENDING" /\ slurm' = [slurm EXCEPT ![j] = "RUNNING"]
                          \/ slurm[j] \in Active /\ slurm' = [slurm EXCEPT ![j] = "ended"]
    BY <1>3 DEF Progress
  <2>2. CASE slurm[j] = "PENDING" /\ slurm' = [slurm EXCEPT ![j] = "RUNNING"]
    <3>1. \A i \in Jobs : slurm'[i] = IF i = j THEN "RUNNING" ELSE slurm[i]
      BY <1>1, <2>2
    <3> QED BY <1>1, <2>2, <3>1 DEF SlurmMovesOn, Active
  <2>3. CASE slurm[j] \in Active /\ slurm' = [slurm EXCEPT ![j] = "ended"]
    <3>1. \A i \in Jobs : slurm'[i] = IF i = j THEN "ended" ELSE slurm[i]
      BY <1>1, <2>3
    <3> QED BY <1>1, <2>3, <3>1 DEF SlurmMovesOn, Active
  <2> QED BY <2>1, <2>2, <2>3
<1>4. CASE JobSubmit
  BY <1>1, <1>4, QueuesMovesOn DEF JobSubmit
<1>5. CASE VllmStart
  BY <1>1, <1>5, QueuesMovesOn DEF VllmStart
<1>6. CASE JobCancel
  BY <1>1, <1>6, CancelsMovesOn DEF JobCancel, Submittable
<1>7. CASE VllmStop
  <2>1. service.job \in Jobs
    BY <1>1, <1>7, ResourcesAssumption DEF VllmStop, Jobs
  <2>2. Cancels(service.job) \/ slurm' = slurm
    BY <1>7 DEF VllmStop
  <2> QED BY <1>1, <2>1, <2>2, CancelsMovesOn, SlurmRests
<1>8. CASE slurm' = slurm
  BY <1>1, <1>8, SlurmRests
<1>9. ASSUME \/ TunnelDies \/ JobList \/ JobStatus \/ JobLogs \/ VllmRefresh \/ OpenTunnel
             \/ ManagedChat \/ AssociateResource \/ AttachServer \/ OpenBrowserNotebook
             \/ StopWorkspace \/ Restart
      PROVE  slurm' = slurm
  BY <1>9 DEF TunnelDies, JobList, JobStatus, JobLogs, VllmRefresh, OpenTunnel, ManagedChat,
       AssociateResource, AttachServer, OpenBrowserNotebook, StopWorkspace, Restart
<1> QED BY <1>2, <1>3, <1>4, <1>5, <1>6, <1>7, <1>8, <1>9 DEF Next

\* A write that fails is counted as a fault.
LEMMA PersistFaults ==
    ASSUME faults \in 0..MaxFaults, NEW lst, NEW hist, NEW pl, NEW written,
           Persist(lst, hist, pl, written)
    PROVE  faults' \in 0..MaxFaults
<1>1. faults' = faults \/ Fault
  BY DEF Persist
<1>2. faults' = faults \/ (faults < MaxFaults /\ faults' = faults + 1)
  BY <1>1 DEF Fault
<1> QED BY <1>2, ResourcesAssumption

\* The bounded counters stay within their bounds.
LEMMA BoundsStep ==
    ASSUME IInv, [Next]_vars
    PROVE  restarts' \in 0..MaxRestarts /\ choices' \in 0..MaxChoices /\ faults' \in 0..MaxFaults
<1> USE ResourcesAssumption
<1>1. restarts \in 0..MaxRestarts /\ choices \in 0..MaxChoices /\ faults \in 0..MaxFaults
  BY DEF IInv
<1>2. restarts' \in 0..MaxRestarts
  <2>1. restarts' = restarts \/ (restarts < MaxRestarts /\ restarts' = restarts + 1)
    BY DEF Next, vars, bounds, Progress, TunnelDies, JobSubmit, JobList, JobStatus, JobLogs,
       JobCancel, VllmStart, VllmRefresh, VllmStop, OpenTunnel, ManagedChat, AssociateResource,
       AttachServer, OpenBrowserNotebook, StopWorkspace, Restart
  <2> QED BY <1>1, <2>1
<1>3. choices' \in 0..MaxChoices
  <2>1. choices' = choices \/ Choice
    BY DEF Next, vars, bounds, Progress, TunnelDies, JobSubmit, JobList, JobStatus, JobLogs,
       JobCancel, VllmStart, VllmRefresh, VllmStop, OpenTunnel, ManagedChat, AssociateResource,
       AttachServer, OpenBrowserNotebook, StopWorkspace, Restart
  <2>2. choices' = choices \/ (choices < MaxChoices /\ choices' = choices + 1)
    BY <2>1 DEF Choice
  <2> QED BY <1>1, <2>2
<1>4. faults' \in 0..MaxFaults
  <2>1. ASSUME faults' = faults \/ Fault PROVE faults' \in 0..MaxFaults
    <3>1. faults' = faults \/ (faults < MaxFaults /\ faults' = faults + 1)
      BY <2>1 DEF Fault
    <3> QED BY <1>1, <3>1
  <2>2. ASSUME \/ UNCHANGED vars \/ Progress \/ TunnelDies \/ OpenTunnel \/ ManagedChat \/ Restart
        PROVE  faults' = faults
    BY <2>2 DEF vars, bounds, Progress, TunnelDies, OpenTunnel, ManagedChat, Restart
  <2>3. CASE JobSubmit
    <3>1. PICK j \in Jobs : RecordSubmission(j) \/ Fault
      BY <2>3 DEF JobSubmit
    <3>2. CASE RecordSubmission(j)
      <4>1. \/ faults' = faults
            \/ \E pl, written : Persist(j, Submitted(j), pl, written)
        BY <3>2 DEF RecordSubmission
      <4> QED BY <1>1, <2>1, <4>1, PersistFaults
    <3> QED BY <2>1, <3>1, <3>2
  <2>4. CASE JobList
    <3>1. Fault \/ \E hist, written : Persist(last, hist, plane, written)
      BY <2>4 DEF JobList
    <3> QED BY <1>1, <2>1, <3>1, PersistFaults
  <2>5. CASE JobStatus \/ JobLogs \/ JobCancel
    <3>1. Fault \/ \E hist, written : Persist(last, hist, plane, written)
      BY <2>5 DEF JobStatus, JobLogs, JobCancel
    <3> QED BY <1>1, <2>1, <3>1, PersistFaults
  <2>6. CASE VllmStart
    <3>1. Fault \/ \E j, hist, written : Persist(j, hist, plane, written)
      BY <2>6 DEF VllmStart
    <3> QED BY <1>1, <2>1, <3>1, PersistFaults
  <2>7. CASE VllmRefresh
    <3>1. \E hist, written : Persist(last, hist, plane, written)
      BY <2>7 DEF VllmRefresh
    <3> QED BY <1>1, <3>1, PersistFaults
  <2>8. CASE VllmStop
    <3>1. Fault \/ \E hist, written : Persist(last, hist, plane, written)
      BY <2>8 DEF VllmStop
    <3> QED BY <1>1, <2>1, <3>1, PersistFaults
  <2>9. CASE AssociateResource
    <3>1. faults' = faults \/ \E pl, written : Persist(last, jobHistory, pl, written)
      BY <2>9 DEF AssociateResource
    <3> QED BY <1>1, <2>1, <3>1, PersistFaults
  <2>10. CASE AttachServer \/ OpenBrowserNotebook
    <3>1. faults' = faults \/ \E pl, written : Persist(last, jobHistory, pl, written)
      BY <2>10 DEF AttachServer, OpenBrowserNotebook, Remember
    <3> QED BY <1>1, <2>1, <3>1, PersistFaults
  <2>11. CASE StopWorkspace
    <3>1. \E pl, written : Persist(last, jobHistory, pl, written)
      BY <2>11 DEF StopWorkspace
    <3> QED BY <1>1, <3>1, PersistFaults
  <2> QED BY <2>1, <2>2, <2>3, <2>4, <2>5, <2>6, <2>7, <2>8, <2>9, <2>10, <2>11 DEF Next
<1> QED BY <1>2, <1>3, <1>4
-----------------------------------------------------------------------------
(* The records: a command changes them and saves them, or only changes them. *)

\* A jobHistory stays truthful as Slurm moves on.
LEMMA HistoriesKeep ==
    ASSUME SlurmMovesOn, NEW h \in Histories(Truthful(slurm))
    PROVE  h \in Histories(Truthful(slurm'))
<1>1. \A e \in Truthful(slurm) : e \in Truthful(slurm')
  BY DEF Truthful, SlurmMovesOn, Entries
<1>2. h \in Seq(Truthful(slurm)) /\ Len(h) <= HistoryLimit /\ DistinctJobs(h)
  BY DEF Histories
<1>3. h \in Seq(Truthful(slurm'))
  <2> DEFINE A == Truthful(slurm)
             B == Truthful(slurm')
  <2> HIDE DEF A, B
  <2>1. h \in Seq(A) /\ \A e \in A : e \in B
    BY <1>1, <1>2 DEF A, B
  <2>2. h \in Seq(B)
    BY <2>1
  <2> QED BY <2>2 DEF B
<1> QED BY <1>2, <1>3 DEF Histories

\* The plane has grown: what was answered is still in it.
LEMMA RecordsChanged ==
    ASSUME RecordsAreSound, SlurmMovesOn, profile' = profile, told' = told, saved' = saved,
           last' \in 0..MaxJobs, jobHistory' \in Histories(Truthful(slurm')),
           PlaneIsSound(plane'), Grown(plane.projects, plane'.projects)
    PROVE  RecordsAreSound'
<1>1. saved.jobHistory \in Histories(Truthful(slurm'))
  BY HistoriesKeep DEF RecordsAreSound
<1>2. \A t \in told : t.job \in plane'.projects[t.profile].jobs
  BY DEF RecordsAreSound, Grown
<1> QED BY <1>1, <1>2 DEF RecordsAreSound

\* The command is answered when the file is written: then its job is in the project.
LEMMA RecordsPersisted ==
    ASSUME RecordsAreSound, SlurmMovesOn, profile' = profile,
           NEW lst \in 0..MaxJobs, NEW hist \in Histories(Truthful(slurm')),
           NEW pl, PlaneIsSound(pl), Grown(plane.projects, pl.projects), NEW written \in BOOLEAN,
           Persist(lst, hist, pl, written),
           \/ told' = told
           \/ lst \in Jobs /\ written /\ told' = told \cup {[job |-> lst, profile |-> profile]}
    PROVE  RecordsAreSound'
<1>1. /\ profile \in Profiles /\ told \subseteq [job : Jobs, profile : Profiles]
      /\ saved.last \in 0..MaxJobs /\ saved.profile \in Profiles /\ PlaneIsSound(saved.plane)
      /\ \A t \in told : /\ t.job \in plane.projects[t.profile].jobs
                         /\ t.job \in saved.plane.projects[t.profile].jobs
  BY DEF RecordsAreSound
<1>2. /\ last' = lst /\ jobHistory' = hist /\ plane' = Settled(pl, profile, lst)
      /\ saved' = IF written THEN File(lst, hist, plane') ELSE saved
  BY DEF Persist
<1>3. /\ PlaneIsSound(plane') /\ Grown(pl.projects, plane'.projects)
      /\ lst # 0 => lst \in plane'.projects[profile].jobs
  BY <1>1, <1>2, SettledKeeps
<1>4. Grown(plane.projects, plane'.projects)
  BY <1>3 DEF Grown
<1>5. \A t \in told : t.job \in plane'.projects[t.profile].jobs
  BY <1>1, <1>4 DEF Grown
<1>6. CASE told' = told
  <2>1. CASE written
    <3>1. saved' = [last |-> lst, jobHistory |-> hist, plane |-> plane', profile |-> profile]
      BY <1>2, <2>1 DEF File
    <3> QED BY <1>1, <1>2, <1>3, <1>5, <1>6, <3>1 DEF RecordsAreSound
  <2>2. CASE ~written
    <3>1. saved' = saved
      BY <1>2, <2>2
    <3> QED BY <1>2, <1>3, <1>4, <1>6, <3>1, RecordsChanged
  <2> QED BY <2>1, <2>2
<1>7. CASE lst \in Jobs /\ written /\ told' = told \cup {[job |-> lst, profile |-> profile]}
  <2>1. saved' = [last |-> lst, jobHistory |-> hist, plane |-> plane', profile |-> profile]
    BY <1>2, <1>7 DEF File
  <2>2. lst # 0
    BY <1>7 DEF Jobs
  <2>3. \A t \in told' : t.job \in plane'.projects[t.profile].jobs
    BY <1>3, <1>5, <1>7, <2>2
  <2>4. told' \subseteq [job : Jobs, profile : Profiles]
    BY <1>1, <1>7
  <2> QED BY <1>1, <1>2, <1>3, <2>1, <2>3, <2>4 DEF RecordsAreSound
<1> QED BY <1>6, <1>7

\* A job whose end is entered only if it has ended.
LEMMA EntryIsTruthful ==
    ASSUME NEW sl, NEW h \in Histories(Truthful(sl)), NEW j \in Jobs, NEW over \in BOOLEAN,
           over => sl[j] = "ended"
    PROVE  Added(h, [job |-> j, over |-> over]) \in Histories(Truthful(sl))
<1>1. [job |-> j, over |-> over] \in Truthful(sl)
  BY DEF Truthful, Entries
<1> QED BY <1>1, AddedStays

\* Records that no command touches stay sound as Slurm moves on.
LEMMA RecordsRest ==
    ASSUME RecordsAreSound, SlurmMovesOn, profile' = profile, told' = told, UNCHANGED records
    PROVE  RecordsAreSound'
<1>1. PlaneIsSound(plane) /\ Grown(plane.projects, plane.projects)
  BY PlaneParts DEF RecordsAreSound
<1>2. last' = last /\ jobHistory' = jobHistory /\ plane' = plane /\ saved' = saved
  BY DEF records
<1>3. last \in 0..MaxJobs /\ jobHistory \in Histories(Truthful(slurm'))
  BY HistoriesKeep DEF RecordsAreSound
<1> QED BY <1>1, <1>2, <1>3, RecordsChanged

\* Every action keeps the records sound.
LEMMA RecordsStep ==
    ASSUME IInv, [Next]_vars
    PROVE  RecordsAreSound'
<1>1. /\ RecordsAreSound /\ SlurmMovesOn /\ slurm \in [Jobs -> SlurmStates]
      /\ slurm' \in [Jobs -> SlurmStates] /\ service.job \in 0..MaxJobs
      /\ service.job # 0 => slurm[service.job] # "none" /\ service.job \in Jobs
  BY SlurmStep, ResourcesAssumption DEF IInv, SlurmStates, ServiceIsSound, Jobs
<1>2. /\ profile \in Profiles /\ last \in 0..MaxJobs
      /\ jobHistory \in Histories(Truthful(slurm')) /\ PlaneIsSound(plane)
      /\ Grown(plane.projects, plane.projects)
  BY <1>1, HistoriesKeep, PlaneParts DEF RecordsAreSound
<1>3. \A j \in Jobs : j \in 0..MaxJobs
  BY ResourcesAssumption DEF Jobs
<1>4. CASE \/ UNCHANGED vars \/ Progress \/ TunnelDies \/ OpenTunnel \/ ManagedChat
  <2>1. profile' = profile /\ told' = told /\ UNCHANGED records
    BY <1>4 DEF vars, Progress, TunnelDies, OpenTunnel, ManagedChat
  <2> QED BY <1>1, <2>1, RecordsRest
<1>5. CASE JobSubmit
  <2>1. PICK j \in Jobs : /\ Queues(j)
                          /\ RecordSubmission(j) \/ (Fault /\ UNCHANGED <<records, told>>)
    BY <1>5 DEF JobSubmit
  <2>2. profile' = profile
    BY <1>5 DEF JobSubmit
  <2> DEFINE a == Associate(plane, profile, <<"job", j>>, NoWorkspace, TRUE, TRUE)
  <2>3. PlaneIsSound(a.plane) /\ Grown(plane.projects, a.plane.projects)
    <3>1. <<"job", j>> \in WorkspaceIds /\ <<"job", j>>[2] = j
      BY DEF WorkspaceIds
    <3> QED BY <1>2, <3>1, AssociateKeeps
  <2>4. Submitted(j) \in Histories(Truthful(slurm'))
    BY <1>2, EntryIsTruthful DEF Submitted
  <2>5. CASE UNCHANGED <<records, told>>
    BY <1>1, <2>2, <2>5, RecordsRest
  <2>6. CASE RecordSubmission(j) /\ a.ok
    <3>1. PICK written \in BOOLEAN : Persist(j, Submitted(j), a.plane, written) /\ Tell(j, written)
      BY <2>6 DEF RecordSubmission
    <3>2. \/ told' = told
          \/ j \in Jobs /\ written /\ told' = told \cup {[job |-> j, profile |-> profile]}
      BY <3>1 DEF Tell
    <3> HIDE DEF a
    <3> QED BY <1>1, <1>3, <2>2, <2>3, <2>4, <3>1, <3>2, RecordsPersisted
  <2>7. CASE RecordSubmission(j) /\ ~a.ok
    <3>1. /\ last' = j /\ jobHistory' = Submitted(j) /\ plane' = a.plane
          /\ saved' = saved /\ told' = told
      BY <2>7 DEF RecordSubmission
    <3> HIDE DEF a
    <3> QED BY <1>1, <1>3, <2>2, <2>3, <2>4, <3>1, RecordsChanged
  <2> QED BY <2>1, <2>5, <2>6, <2>7
<1>6. CASE JobList
  <2> DEFINE listed == {j \in Jobs : slurm[j] \in Active}
  <2>1. profile' = profile /\ told' = told
    BY <1>6 DEF JobList
  <2>2. \A k \in Nat : UpdatedAll(jobHistory, listed, k) \in Histories(Truthful(slurm'))
    <3>1. \A j \in listed : [job |-> j, over |-> FALSE] \in Truthful(slurm')
      BY DEF Truthful, Entries
    <3> HIDE DEF listed
    <3> QED BY <1>2, <3>1, UpdatedAllStays
  <2>3. CASE \E written \in BOOLEAN :
                Persist(last, UpdatedAll(jobHistory, listed, MaxJobs), plane, written)
    <3> HIDE DEF listed
    <3> QED BY <1>1, <1>2, <2>1, <2>2, <2>3, RecordsPersisted, ResourcesAssumption
  <2>4. CASE /\ \E k \in listed : jobHistory' = UpdatedAll(jobHistory, listed, k)
             /\ UNCHANGED <<last, plane, saved>>
    <3>1. \A k \in listed : k \in Nat
      BY DEF Jobs
    <3> HIDE DEF listed
    <3>2. jobHistory' \in Histories(Truthful(slurm'))
      BY <2>2, <2>4, <3>1
    <3> QED BY <1>1, <1>2, <2>1, <2>4, <3>2, RecordsChanged
  <2> QED BY <1>6, <2>3, <2>4 DEF JobList
<1>7. CASE JobStatus
  <2>1. PICK j \in Submittable, written \in BOOLEAN :
           Persist(last, Updated(jobHistory, j, slurm[j] = "ended"), plane, written)
    BY <1>7 DEF JobStatus
  <2>2. profile' = profile /\ told' = told /\ j \in Jobs
    BY <1>7 DEF JobStatus, Submittable
  <2>3. Updated(jobHistory, j, slurm[j] = "ended") \in Histories(Truthful(slurm'))
    <3> DEFINE over == slurm[j] = "ended"
    <3>1. over \in BOOLEAN /\ (over => slurm'[j] = "ended")
      BY <1>1, <2>2 DEF SlurmMovesOn
    <3> HIDE DEF over
    <3>2. Updated(jobHistory, j, over) \in Histories(Truthful(slurm'))
      BY <1>2, <2>2, <3>1, EntryIsTruthful DEF Updated
    <3> QED BY <3>2 DEF over
  <2> QED BY <1>1, <1>2, <2>1, <2>2, <2>3, RecordsPersisted
<1>8. CASE JobLogs
  <2>1. PICK written \in BOOLEAN : Persist(last, jobHistory, plane, written)
    BY <1>8 DEF JobLogs
  <2>2. profile' = profile /\ told' = told
    BY <1>8 DEF JobLogs
  <2> QED BY <1>1, <1>2, <2>1, <2>2, RecordsPersisted
<1>9. CASE JobCancel
  <2>1. PICK j \in Submittable :
           /\ Cancels(j)
           /\ \/ \E written \in BOOLEAN : Persist(last, Updated(jobHistory, j, TRUE), plane, written)
              \/ Fault /\ UNCHANGED records
    BY <1>9 DEF JobCancel
  <2>2. profile' = profile /\ told' = told /\ j \in Jobs /\ slurm[j] # "none"
    BY <1>9 DEF JobCancel, Submittable
  <2>3. slurm'[j] = "ended"
    BY <1>1, <2>1, <2>2, CancelsMovesOn
  <2>4. Updated(jobHistory, j, TRUE) \in Histories(Truthful(slurm'))
    BY <1>2, <2>2, <2>3, EntryIsTruthful DEF Updated
  <2>5. CASE UNCHANGED records
    BY <1>1, <2>2, <2>5, RecordsRest
  <2> QED BY <1>1, <1>2, <2>1, <2>2, <2>4, <2>5, RecordsPersisted
<1>10. CASE VllmStart
  <2>1. PICK j \in Jobs :
           \/ \E written \in BOOLEAN : Persist(j, Submitted(j), plane, written) /\ Tell(j, written)
           \/ UNCHANGED <<records, told>>
    BY <1>10 DEF VllmStart
  <2>2. profile' = profile
    BY <1>10 DEF VllmStart
  <2>3. Submitted(j) \in Histories(Truthful(slurm'))
    BY <1>2, EntryIsTruthful DEF Submitted
  <2>4. CASE UNCHANGED <<records, told>>
    BY <1>1, <2>2, <2>4, RecordsRest
  <2>5. ASSUME NEW written \in BOOLEAN, Persist(j, Submitted(j), plane, written), Tell(j, written)
        PROVE  RecordsAreSound'
    <3>1. \/ told' = told
          \/ j \in Jobs /\ written /\ told' = told \cup {[job |-> j, profile |-> profile]}
      BY <2>5 DEF Tell
    <3> QED BY <1>1, <1>2, <1>3, <2>2, <2>3, <2>5, <3>1, RecordsPersisted
  <2> QED BY <2>1, <2>4, <2>5
<1>11. CASE VllmRefresh
  <2>1. PICK shown \in BOOLEAN, written \in BOOLEAN :
           Persist(last, Updated(jobHistory, service.job, Report(shown)[service.job] \in Over),
                   plane, written)
    BY <1>11 DEF VllmRefresh
  <2>2. profile' = profile /\ told' = told /\ service.job # 0
    BY <1>11 DEF VllmRefresh
  <2> DEFINE over == Report(shown)[service.job] \in Over
  <2>3. over \in BOOLEAN /\ (over => slurm'[service.job] = "ended")
    <3>1. service.job \in Jobs
      BY <1>1, <2>2
    <3>2. Report(shown)[service.job] \in Over => slurm[service.job] = "ended"
      BY <3>1, <1>1 DEF Report, Over, SlurmStates, Active
    <3> QED BY <1>1, <3>1, <3>2 DEF SlurmMovesOn
  <2> HIDE DEF over
  <2>4. Updated(jobHistory, service.job, over) \in Histories(Truthful(slurm'))
    BY <1>1, <1>2, <2>2, <2>3, EntryIsTruthful DEF Updated
  <2>5. Persist(last, Updated(jobHistory, service.job, over), plane, written)
    BY <2>1 DEF over
  <2> QED BY <1>1, <1>2, <2>2, <2>4, <2>5, RecordsPersisted
<1>12. CASE VllmStop
  <2>1. profile' = profile /\ told' = told /\ service.job # 0
    BY <1>12 DEF VllmStop
  <2>2. CASE UNCHANGED records
    BY <1>1, <2>1, <2>2, RecordsRest
  <2>3. ASSUME Cancels(service.job), NEW written \in BOOLEAN,
               Persist(last, Updated(jobHistory, service.job, TRUE), plane, written)
        PROVE  RecordsAreSound'
    <3>1. service.job \in Jobs /\ slurm'[service.job] = "ended"
      BY <1>1, <2>1, <2>3, CancelsMovesOn
    <3>2. Updated(jobHistory, service.job, TRUE) \in Histories(Truthful(slurm'))
      BY <1>2, <3>1, EntryIsTruthful DEF Updated
    <3> QED BY <1>1, <1>2, <2>1, <2>3, <3>2, RecordsPersisted
  <2> QED BY <1>12, <2>2, <2>3 DEF VllmStop
<1>13. CASE AssociateResource
  <2>1. profile' = profile /\ told' = told
    BY <1>13 DEF AssociateResource
  <2>2. PICK resource \in {<<"job", j>> : j \in Submittable} \union {<<"other", 1>>},
             selected \in Ids(plane.workspaces) \union {NoWorkspace} :
          \E sound, described \in IF selected = NoWorkspace THEN BOOLEAN ELSE {TRUE} :
             LET a == Associate(plane, profile, resource, selected, sound, described)
             IN  IF a.ok
                 THEN \E written \in BOOLEAN : Persist(last, jobHistory, a.plane, written)
                 ELSE plane' = a.plane /\ UNCHANGED <<last, jobHistory, saved, faults>>
    BY <1>13 DEF AssociateResource
  <2>3. PICK sound, described \in IF selected = NoWorkspace THEN BOOLEAN ELSE {TRUE} :
          LET a == Associate(plane, profile, resource, selected, sound, described)
          IN  IF a.ok
              THEN \E written \in BOOLEAN : Persist(last, jobHistory, a.plane, written)
              ELSE plane' = a.plane /\ UNCHANGED <<last, jobHistory, saved, faults>>
    BY <2>2
  <2> DEFINE a == Associate(plane, profile, resource, selected, sound, described)
  <2>4. /\ resource \in WorkspaceIds /\ (resource[1] = "job" => resource[2] \in Jobs)
        /\ sound \in BOOLEAN /\ described \in BOOLEAN
    <3>1. sound \in BOOLEAN /\ described \in BOOLEAN
      BY <2>3
    <3>2. CASE resource \in {<<"job", j>> : j \in Submittable}
      <4>1. PICK j \in Jobs : resource = <<"job", j>>
        BY <3>2 DEF Submittable
      <4> QED BY <3>1, <4>1 DEF WorkspaceIds
    <3>3. CASE resource = <<"other", 1>>
      <4>1. resource[1] # "job"
        BY <3>3
      <4> QED BY <3>1, <3>3, <4>1 DEF WorkspaceIds
    <3> QED BY <2>2, <3>2, <3>3
  <2>5. PlaneIsSound(a.plane) /\ Grown(plane.projects, a.plane.projects)
    BY <1>2, <2>4, AssociateKeeps
  <2>6. \/ \E written \in BOOLEAN : Persist(last, jobHistory, a.plane, written)
        \/ plane' = a.plane /\ UNCHANGED <<last, jobHistory, saved>>
    BY <2>3
  <2> HIDE DEF a
  <2> QED BY <1>1, <1>2, <2>1, <2>5, <2>6, RecordsPersisted, RecordsChanged
<1>14. CASE AttachServer \/ OpenBrowserNotebook
  <2>1. profile' = profile /\ told' = told
    BY <1>14 DEF AttachServer, OpenBrowserNotebook
  <2>2. PICK source \in Sources, provider \in {"arc", "browser"} : Remember(source, provider)
    BY <1>14 DEF AttachServer, OpenBrowserNotebook, Sources
  <2> DEFINE w == Record(source, profile, provider, "ready", TRUE)
             e == EnsureWorkspace(plane, w, FALSE)
  <2>3. w \in WorkspaceRecords /\ w.jobs = {}
    BY <1>2 DEF Record, WorkspaceRecords, WorkspaceIds
  <2>4. PlaneIsSound(e.plane) /\ Grown(plane.projects, e.plane.projects)
    <3> HIDE DEF w
    <3> QED BY <1>2, <2>3, EnsureKeeps
  <2>5. \/ \E written \in BOOLEAN : Persist(last, jobHistory, e.plane, written)
        \/ plane' = e.plane /\ UNCHANGED <<last, jobHistory, saved>>
    BY <2>2 DEF Remember
  <2> HIDE DEF e
  <2> QED BY <1>1, <1>2, <2>1, <2>4, <2>5, RecordsPersisted, RecordsChanged
<1>15. CASE StopWorkspace
  <2>1. profile' = profile /\ told' = told
    BY <1>15 DEF StopWorkspace
  <2> DEFINE record == Get(plane.workspaces, plane.current)
             stopped == Touched(plane.workspaces, [record EXCEPT !.state = "stopped"])
             pl == [plane EXCEPT !.workspaces = stopped]
  <2>2. \/ \E written \in BOOLEAN : Persist(last, jobHistory, plane, written)
        \/ /\ plane.current # NoWorkspace
           /\ \E written \in BOOLEAN : Persist(last, jobHistory, pl, written)
    BY <1>15 DEF StopWorkspace
  <2>3. CASE \E written \in BOOLEAN : Persist(last, jobHistory, plane, written)
    BY <1>1, <1>2, <2>1, <2>3, RecordsPersisted
  <2>4. CASE /\ plane.current # NoWorkspace
             /\ \E written \in BOOLEAN : Persist(last, jobHistory, pl, written)
    <3>1. PlaneIsSound(pl)
      BY <1>2, <2>4, StoppedKeeps
    <3>2. pl.projects = plane.projects
      <4>1. plane = [workspaces |-> plane.workspaces, current |-> plane.current,
                     projects |-> plane.projects]
        BY <1>2, PlaneParts
      <4> HIDE DEF stopped
      <4> QED BY <4>1
    <3> HIDE DEF pl
    <3> QED BY <1>1, <1>2, <2>1, <2>4, <3>1, <3>2, RecordsPersisted
  <2> QED BY <2>2, <2>3, <2>4
<1>16. CASE Restart
  <2>1. PICK p \in Profiles :
          /\ profile' = p
          /\ plane' = IF saved.profile = p /\ saved.last \in Known(saved.jobHistory)
                      THEN Settled(Found, p, saved.last) ELSE Found
    BY <1>16 DEF Restart
  <2>2. /\ last' = saved.last /\ jobHistory' = RestoredHistory(saved.jobHistory)
        /\ saved' = saved /\ told' = told /\ slurm' = slurm
    BY <1>16 DEF Restart
  <2>3. /\ saved.last \in 0..MaxJobs /\ saved.jobHistory \in Histories(Truthful(slurm))
        /\ PlaneIsSound(saved.plane) /\ saved.profile \in Profiles
        /\ told \subseteq [job : Jobs, profile : Profiles]
        /\ \A t \in told : t.job \in saved.plane.projects[t.profile].jobs
    BY <1>1 DEF RecordsAreSound
  <2>4. PlaneIsSound(Found) /\ Found.projects = saved.plane.projects
    BY <2>3, FoundKeeps
  <2>5. PlaneIsSound(plane') /\ Grown(saved.plane.projects, plane'.projects)
    <3>1. Grown(Found.projects, Found.projects)
      BY <2>4, PlaneParts
    <3>2. PlaneIsSound(Settled(Found, p, saved.last))
          /\ Grown(Found.projects, Settled(Found, p, saved.last).projects)
      BY <2>3, <2>4, SettledKeeps
    <3> QED BY <2>1, <2>4, <3>1, <3>2
  <2>6. jobHistory' \in Histories(Truthful(slurm))
    BY <2>2, <2>3, RestoredHistoryStays
  <2>7. \A t \in told : t.job \in plane'.projects[t.profile].jobs
    BY <2>3, <2>5 DEF Grown
  <2> QED BY <2>1, <2>2, <2>3, <2>5, <2>6, <2>7 DEF RecordsAreSound
<1> QED BY <1>4, <1>5, <1>6, <1>7, <1>8, <1>9, <1>10, <1>11, <1>12, <1>13, <1>14, <1>15, <1>16
     DEF Next
-----------------------------------------------------------------------------
(* The managed service *)

\* A service that no command touches stays sound as Slurm moves on.
LEMMA ServiceRests ==
    ASSUME ServiceIsSound, SlurmMovesOn, service' = service, started' = started
    PROVE  ServiceIsSound'
<1>1. service.job \in 0..MaxJobs /\ (service.job # 0 => service.job \in Jobs)
  BY ResourcesAssumption DEF ServiceIsSound, Jobs
<1>2. NoForgottenService'
  BY DEF ServiceIsSound, NoForgottenService, SlurmMovesOn, Active
<1>3. \A j \in started : j \in Jobs /\ slurm'[j] # "none"
  BY DEF ServiceIsSound, SlurmMovesOn
<1>4. /\ service.job # 0 => slurm'[service.job] # "none"
      /\ service.job # 0 /\ service.state \in Over => slurm'[service.job] = "ended"
  BY <1>1 DEF ServiceIsSound, SlurmMovesOn
<1> QED BY <1>2, <1>3, <1>4 DEF ServiceIsSound

\* A new service starts only when the tracked one has ended: no other one is running.
LEMMA ServiceStarts ==
    ASSUME ServiceIsSound, ~Tracked, slurm \in [Jobs -> SlurmStates], NEW j \in Jobs, Queues(j),
           service' = [job |-> j, node |-> 0, state |-> "SUBMITTED"],
           started' = started \cup {j}
    PROVE  ServiceIsSound'
<1>1. /\ SlurmMovesOn /\ slurm'[j] = "PENDING"
      /\ \A i \in Jobs : i # j => slurm'[i] = slurm[i]
  BY QueuesMovesOn
<1>2. \A i \in started : slurm[i] \notin Active
  <2>1. \A i \in started : i \in Jobs /\ i # 0 /\ (slurm[i] \in Active => service.job = i)
    BY ResourcesAssumption DEF ServiceIsSound, NoForgottenService, Jobs
  <2>2. service.job = 0 \/ (service.job # 0 /\ service.state \in Over)
    BY DEF Tracked, Over
  <2>3. CASE service.job = 0
    BY <2>1, <2>3
  <2>4. CASE service.job # 0 /\ service.state \in Over
    <3>1. slurm[service.job] = "ended"
      BY <2>4 DEF ServiceIsSound
    <3> QED BY <2>1, <3>1 DEF Active
  <2> QED BY <2>2, <2>3, <2>4
<1>3. service'.job = j /\ service'.node = 0 /\ service'.state = "SUBMITTED"
  OBVIOUS
<1>4. NoForgottenService'
  <2> SUFFICES ASSUME NEW i \in started', slurm'[i] \in Active PROVE service'.job = i
    BY DEF NoForgottenService
  <2>1. CASE i = j
    BY <1>3, <2>1
  <2>2. CASE i # j
    BY <1>1, <1>2, <2>2 DEF ServiceIsSound
  <2> QED BY <2>1, <2>2
<1>5. service' \in [job : 0..MaxJobs, node : 0..MaxJobs, state : States]
  BY ResourcesAssumption DEF Jobs, States
<1>6. started' \subseteq Jobs /\ \A i \in started' : slurm'[i] # "none"
  BY <1>1 DEF ServiceIsSound, SlurmMovesOn
<1> QED BY <1>1, <1>3, <1>4, <1>5, <1>6 DEF ServiceIsSound, Over

\* Every action keeps the service sound.
LEMMA ServiceStep ==
    ASSUME IInv, [Next]_vars
    PROVE  ServiceIsSound'
<1>1. /\ ServiceIsSound /\ SlurmMovesOn /\ slurm \in [Jobs -> SlurmStates]
      /\ slurm' \in [Jobs -> SlurmStates] /\ service.job \in 0..MaxJobs
      /\ service.job # 0 => slurm[service.job] # "none" /\ service.job \in Jobs
  BY SlurmStep, ResourcesAssumption DEF IInv, SlurmStates, ServiceIsSound, Jobs
<1>2. ASSUME \/ UNCHANGED vars \/ Progress \/ TunnelDies \/ OpenTunnel \/ ManagedChat
             \/ JobSubmit \/ JobList \/ JobStatus \/ JobLogs \/ JobCancel
             \/ AssociateResource \/ AttachServer \/ OpenBrowserNotebook \/ StopWorkspace
      PROVE  ServiceIsSound'
  <2>1. service' = service /\ started' = started
    BY <1>2 DEF vars, vllm, Progress, TunnelDies, OpenTunnel, ManagedChat, JobSubmit, JobList,
       JobStatus, JobLogs, JobCancel, AssociateResource, AttachServer, OpenBrowserNotebook,
       StopWorkspace
  <2> QED BY <1>1, <2>1, ServiceRests
<1>3. CASE VllmStart
  <2>1. PICK j \in Jobs :
          /\ Queues(j)
          /\ \/ /\ service' = [job |-> j, node |-> 0, state |-> "SUBMITTED"]
                /\ started' = started \cup {j}
             \/ UNCHANGED <<service, started>>
    BY <1>3 DEF VllmStart
  <2>2. CASE UNCHANGED <<service, started>>
    BY <1>1, <2>2, ServiceRests
  <2>3. CASE /\ service' = [job |-> j, node |-> 0, state |-> "SUBMITTED"]
             /\ started' = started \cup {j}
    <3>1. ~Tracked
      BY <1>3 DEF VllmStart
    <3> QED BY <1>1, <2>1, <2>3, <3>1, ServiceStarts
  <2> QED BY <2>1, <2>2, <2>3
<1>4. CASE VllmRefresh
  <2>1. service.job # 0 /\ slurm' = slurm /\ started' = started
    BY <1>4 DEF VllmRefresh
  <2>2. PICK shown \in BOOLEAN : \E node \in Nodes(Report(shown)[service.job]) :
          service' = [service EXCEPT !.state = Report(shown)[service.job], !.node = node]
    BY <1>4 DEF VllmRefresh
  <2> DEFINE state == Report(shown)[service.job]
  <2>3. PICK node \in Nodes(state) : service' = [service EXCEPT !.state = state, !.node = node]
    BY <2>2
  <2>4. service.job \in Jobs /\ slurm[service.job] \in SlurmStates /\ slurm[service.job] # "none"
    BY <1>1, <2>1
  <2>5. state \in States /\ (state \in Over => slurm[service.job] = "ended")
    <3>1. state = IF slurm[service.job] = "ended" /\ ~shown THEN "NOT_IN_QUEUE"
                  ELSE slurm[service.job]
      BY <2>4 DEF Report
    <3> HIDE DEF state
    <3> QED BY <2>4, <3>1 DEF States, Over, Active, SlurmStates
  <2>6. service \in [job : 0..MaxJobs, node : 0..MaxJobs, state : States]
        /\ service.node \in {0, service.job}
    BY <1>1 DEF ServiceIsSound
  <2> HIDE DEF state
  <2>7. node \in {0, service.job} /\ node \in 0..MaxJobs
    <3>1. node \in {service.job, service.node}
      BY <2>3 DEF Nodes
    <3> QED BY <2>6, <3>1
  <2>8. service' = [job |-> service.job, node |-> node, state |-> state]
    BY <2>3, <2>6
  <2>9. service' \in [job : 0..MaxJobs, node : 0..MaxJobs, state : States]
        /\ service'.job = service.job /\ service'.node = node /\ service'.state = state
    BY <1>1, <2>5, <2>7, <2>8
  <2>10. NoForgottenService'
    BY <1>1, <2>1, <2>9 DEF ServiceIsSound, NoForgottenService
  <2> QED BY <1>1, <2>1, <2>5, <2>7, <2>9, <2>10 DEF ServiceIsSound
<1>5. CASE VllmStop
  <2>1. service.job # 0 /\ started' = started
    BY <1>5 DEF VllmStop
  <2>2. CASE service' = service
    BY <1>1, <2>1, <2>2, ServiceRests
  <2>3. CASE Cancels(service.job) /\ service' = [service EXCEPT !.state = "ended"]
    <3>1. slurm'[service.job] = "ended"
      BY <1>1, <2>1, <2>3, CancelsMovesOn
    <3>2. service \in [job : 0..MaxJobs, node : 0..MaxJobs, state : States]
          /\ service.node \in {0, service.job}
      BY <1>1 DEF ServiceIsSound
    <3>3. service' \in [job : 0..MaxJobs, node : 0..MaxJobs, state : States]
          /\ service'.job = service.job /\ service'.node = service.node
      BY <2>3, <3>2 DEF States, Over
    <3>4. NoForgottenService'
      BY <1>1, <2>1, <3>3 DEF ServiceIsSound, NoForgottenService, SlurmMovesOn, Active
    <3>5. \A j \in started' : j \in Jobs /\ slurm'[j] # "none"
      BY <1>1, <2>1 DEF ServiceIsSound, SlurmMovesOn
    <3> QED BY <3>1, <3>2, <3>3, <3>4, <3>5 DEF ServiceIsSound
  <2> QED BY <1>5, <2>2, <2>3 DEF VllmStop
<1>6. CASE Restart
  <2>1. service' = [job |-> 0, node |-> 0, state |-> "SUBMITTED"] /\ started' = {}
    BY <1>6 DEF Restart, NoService
  <2>2. service' \in [job : 0..MaxJobs, node : 0..MaxJobs, state : States]
        /\ service'.job = 0 /\ service'.node = 0
    BY <2>1, ResourcesAssumption DEF States
  <2> QED BY <2>1, <2>2 DEF ServiceIsSound, NoForgottenService
<1> QED BY <1>2, <1>3, <1>4, <1>5, <1>6 DEF Next

-----------------------------------------------------------------------------
(* The tunnel and the endpoints *)

\* What the invariant says of the tunnel and the endpoints.
LEMMA TunnelParts ==
    ASSUME IInv
    PROVE  /\ tunnel \in [to : 0..MaxJobs, up : BOOLEAN]
           /\ tunnel.up => service.job # 0 /\ tunnel.to \in Jobs
           /\ stray \subseteq Jobs
           /\ endpoints \in [Jobs -> 0..MaxJobs]
           /\ \A j \in Jobs : endpoints[j] # 0 => endpoints[j] \in Jobs
           /\ service.job \in 0..MaxJobs /\ (service.job # 0 => service.job \in Jobs)
           /\ KeyStaysUnlessStray
<1>1. \A n \in 0..MaxJobs : n # 0 => n \in Jobs
  BY ResourcesAssumption DEF Jobs
<1> QED BY <1>1 DEF IInv, TunnelIsSound, ServiceIsSound

\* A tunnel that no command touches stays sound as Slurm moves on.
LEMMA TunnelRests ==
    ASSUME IInv, SlurmMovesOn, tunnel' = tunnel, stray' = stray, endpoints' = endpoints,
           service'.job = service.job
    PROVE  TunnelIsSound'
<1>1. KeyStaysUnlessStray'
  BY TunnelParts DEF KeyStaysUnlessStray, SlurmMovesOn
<1> QED BY <1>1 DEF IInv, TunnelIsSound

\* The endpoint of the service's job is registered to a node that is right.
LEMMA TunnelSets ==
    ASSUME IInv, SlurmMovesOn, service'.job = service.job, stray' = stray,
           tunnel' \in [to : 0..MaxJobs, up : BOOLEAN],
           tunnel'.up => /\ service.job # 0 /\ tunnel'.to # 0
                         /\ \/ tunnel'.to \in {service.job} \union stray
                            \/ slurm'[tunnel'.to] = "ended",
           NEW node \in 0..MaxJobs,
           node # 0 => node \in {service.job} \union stray \/ slurm'[node] = "ended",
           endpoints' = endpoints \/ endpoints' = [endpoints EXCEPT ![service.job] = node]
    PROVE  TunnelIsSound'
<1>1. endpoints' \in [Jobs -> 0..MaxJobs]
  BY TunnelParts
<1>2. \A j \in Jobs : endpoints[j] # 0 =>
          endpoints[j] \in {j} \union stray \/ slurm'[endpoints[j]] = "ended"
  BY TunnelParts DEF KeyStaysUnlessStray, SlurmMovesOn
<1>3. \A j \in Jobs : endpoints'[j] = endpoints[j] \/ (j = service.job /\ endpoints'[j] = node)
  BY TunnelParts
<1>4. \A j \in Jobs : endpoints'[j] # 0 =>
          endpoints'[j] \in {j} \union stray \/ slurm'[endpoints'[j]] = "ended"
  BY <1>2, <1>3
<1>5. stray \subseteq Jobs
  BY TunnelParts
<1> QED BY <1>1, <1>4, <1>5 DEF TunnelIsSound, KeyStaysUnlessStray

\* Every action keeps the tunnel and the endpoints sound.
LEMMA TunnelStep ==
    ASSUME IInv, [Next]_vars
    PROVE  TunnelIsSound'
<1>1. SlurmMovesOn /\ slurm \in [Jobs -> SlurmStates] /\ ServiceIsSound
  BY SlurmStep DEF IInv, SlurmStates
<1>2. ASSUME \/ UNCHANGED vars \/ Progress
             \/ JobSubmit \/ JobList \/ JobStatus \/ JobLogs \/ JobCancel
             \/ AssociateResource \/ AttachServer \/ OpenBrowserNotebook \/ StopWorkspace
      PROVE  TunnelIsSound'
  <2>1. service' = service /\ tunnel' = tunnel /\ stray' = stray /\ endpoints' = endpoints
    BY <1>2 DEF vars, vllm, Progress, JobSubmit, JobList,
       JobStatus, JobLogs, JobCancel, AssociateResource, AttachServer, OpenBrowserNotebook,
       StopWorkspace
  <2> QED BY <1>1, <2>1, TunnelRests
<1>3. CASE VllmRefresh
  <2>1. tunnel' = tunnel /\ stray' = stray /\ endpoints' = endpoints
    BY <1>3 DEF VllmRefresh
  <2>2. service'.job = service.job
    <3>1. PICK state, node : service' = [service EXCEPT !.state = state, !.node = node]
      BY <1>3 DEF VllmRefresh
    <3>2. service \in [job : 0..MaxJobs, node : 0..MaxJobs, state : States]
      BY <1>1 DEF ServiceIsSound
    <3> QED BY <3>1, <3>2
  <2> QED BY <1>1, <2>1, <2>2, TunnelRests
<1>4. CASE VllmStart
  <2>1. tunnel' = tunnel /\ stray' = stray /\ endpoints' = endpoints /\ ~Tracked
    BY <1>4 DEF VllmStart
  <2>2. PICK j \in Jobs : \/ service' = [job |-> j, node |-> 0, state |-> "SUBMITTED"]
                          \/ service' = service
    BY <1>4 DEF VllmStart
  <2>3. CASE service' = service
    BY <1>1, <2>1, <2>3, TunnelRests
  <2>4. CASE service' = [job |-> j, node |-> 0, state |-> "SUBMITTED"]
    <3>1. service'.job = j /\ j # 0
      BY <2>4, ResourcesAssumption DEF Jobs
    <3>2. tunnel.up => tunnel.to \in stray \/ slurm'[tunnel.to] = "ended"
      <4> SUFFICES ASSUME tunnel.up, tunnel.to \notin stray PROVE slurm'[tunnel.to] = "ended"
        OBVIOUS
      <4>1. service.job # 0 /\ service.state = "ended"
        BY <2>1, TunnelParts DEF Tracked
      <4>2. slurm[service.job] = "ended"
        BY <1>1, <4>1 DEF ServiceIsSound, Over
      <4>3. tunnel.to \in Jobs /\ slurm[tunnel.to] = "ended"
        BY <4>1, <4>2, TunnelParts DEF KeyStaysUnlessStray
      <4> QED BY <1>1, <4>3 DEF SlurmMovesOn
    <3>3. \A i \in Jobs : endpoints[i] # 0 =>
              endpoints[i] \in {i} \union stray \/ slurm'[endpoints[i]] = "ended"
      BY <1>1, TunnelParts DEF KeyStaysUnlessStray, SlurmMovesOn
    <3>4. KeyStaysUnlessStray'
      BY <2>1, <3>2, <3>3 DEF KeyStaysUnlessStray
    <3> QED BY <2>1, <3>1, <3>4 DEF IInv, TunnelIsSound
  <2> QED BY <2>2, <2>3, <2>4
<1>5. CASE VllmStop
  <2>1. /\ tunnel' = [to |-> 0, up |-> FALSE] /\ stray' = stray
        /\ \/ endpoints' = endpoints \/ endpoints' = [endpoints EXCEPT ![service.job] = 0]
        /\ service' = service \/ service' = [service EXCEPT !.state = "ended"]
    BY <1>5 DEF VllmStop, NoTunnel, Unregistered
  <2>2. service'.job = service.job
    <3>1. service \in [job : 0..MaxJobs, node : 0..MaxJobs, state : States]
      BY <1>1 DEF ServiceIsSound
    <3> QED BY <2>1, <3>1
  <2>3. 0 \in 0..MaxJobs /\ tunnel' \in [to : 0..MaxJobs, up : BOOLEAN] /\ ~tunnel'.up
    BY <2>1, ResourcesAssumption
  <2> QED BY <1>1, <2>1, <2>2, <2>3, TunnelSets
<1>6. CASE OpenTunnel
  <2>1. PICK node \in {service.node} \union stray, up \in BOOLEAN :
          /\ tunnel' = [to |-> node, up |-> up]
          /\ endpoints' = endpoints \/ endpoints' = [endpoints EXCEPT ![service.job] = node]
    BY <1>6 DEF OpenTunnel, Registered
  <2>2. /\ service.node # 0 /\ service.node = service.job /\ service.node \in 0..MaxJobs
        /\ service' = service /\ stray' = stray
    BY <1>1, <1>6 DEF OpenTunnel, ServiceIsSound
  <2>3. node \in 0..MaxJobs /\ node # 0 /\ node \in {service.job} \union stray
    BY <2>1, <2>2, TunnelParts, ResourcesAssumption DEF Jobs
  <2>4. tunnel' \in [to : 0..MaxJobs, up : BOOLEAN] /\ tunnel'.to = node
    BY <2>1, <2>3
  <2> QED BY <1>1, <2>1, <2>2, <2>3, <2>4, TunnelSets
<1>7. CASE TunnelDies
  <2>1. /\ tunnel' = [tunnel EXCEPT !.up = FALSE] /\ stray' = stray
        /\ endpoints' = endpoints /\ service' = service
    BY <1>7 DEF TunnelDies
  <2>2. tunnel' \in [to : 0..MaxJobs, up : BOOLEAN] /\ ~tunnel'.up
    <3>1. tunnel \in [to : 0..MaxJobs, up : BOOLEAN]
      BY TunnelParts
    <3>2. tunnel' = [to |-> tunnel.to, up |-> FALSE]
      BY <2>1, <3>1
    <3> QED BY <3>1, <3>2
  <2>3. KeyStaysUnlessStray'
    BY <1>1, <2>1, <2>2, TunnelParts DEF KeyStaysUnlessStray, SlurmMovesOn
  <2> QED BY <2>1, <2>2, <2>3 DEF IInv, TunnelIsSound
<1>8. CASE ManagedChat
  <2>1. /\ service.job # 0 /\ tunnel.up /\ tunnel' = tunnel /\ service' = service
        /\ stray' = stray
        /\ endpoints' = [endpoints EXCEPT ![service.job] = tunnel.to]
    BY <1>8 DEF ManagedChat, Registered
  <2>2. /\ tunnel.to \in Jobs /\ tunnel.to # 0 /\ tunnel.to \in 0..MaxJobs
        /\ tunnel \in [to : 0..MaxJobs, up : BOOLEAN]
    BY <2>1, TunnelParts, ResourcesAssumption DEF Jobs
  <2>3. tunnel.to \in {service.job} \union stray \/ slurm'[tunnel.to] = "ended"
    BY <1>1, <2>1, <2>2, TunnelParts DEF KeyStaysUnlessStray, SlurmMovesOn
  <2> QED BY <1>1, <2>1, <2>2, <2>3, TunnelSets
<1>9. CASE Restart
  <2>1. tunnel' = [to |-> 0, up |-> FALSE] /\ endpoints' = [j \in Jobs |-> 0]
    BY <1>9 DEF Restart, NoTunnel
  <2>2. endpoints' \in [Jobs -> 0..MaxJobs] /\ tunnel' \in [to : 0..MaxJobs, up : BOOLEAN]
        /\ ~tunnel'.up /\ \A j \in Jobs : endpoints'[j] = 0
    BY <2>1, ResourcesAssumption
  <2>3. stray' \subseteq Jobs
    BY <1>9, TunnelParts DEF Restart
  <2> QED BY <2>2, <2>3 DEF TunnelIsSound, KeyStaysUnlessStray
<1> QED BY <1>2, <1>3, <1>4, <1>5, <1>6, <1>7, <1>8, <1>9 DEF Next

-----------------------------------------------------------------------------
(* The theorems *)

\* The initial states satisfy the invariant.
LEMMA InitIsSound == Init => IInv
<1> SUFFICES ASSUME Init PROVE IInv
  OBVIOUS
<1> USE ResourcesAssumption
<1>1. slurm \in [Jobs -> Active \union {"none", "ended"}]
  BY DEF Init
<1>2. RecordsAreSound
  <2>1. /\ profile \in Profiles /\ last = 0 /\ jobHistory = <<>> /\ plane = NewPlane /\ told = {}
        /\ saved = [last |-> 0, jobHistory |-> <<>>, plane |-> NewPlane, profile |-> profile]
    BY DEF Init
  <2>2. PlaneIsSound(NewPlane) /\ <<>> \in Histories(Truthful(slurm))
    BY EmptyPlane, EmptyHistory
  <2> HIDE DEF NewPlane
  <2>3. 0 \in 0..MaxJobs
    OBVIOUS
  <2> QED BY <2>1, <2>2, <2>3 DEF RecordsAreSound
<1>3. ServiceIsSound
  <2>1. service = [job |-> 0, node |-> 0, state |-> "SUBMITTED"] /\ started = {}
    BY DEF Init, NoService
  <2> QED BY <2>1 DEF ServiceIsSound, NoForgottenService, States
<1>4. TunnelIsSound
  <2>1. tunnel = [to |-> 0, up |-> FALSE] /\ endpoints = [j \in Jobs |-> 0] /\ stray = {}
    BY DEF Init, NoTunnel
  <2> QED BY <2>1 DEF TunnelIsSound, KeyStaysUnlessStray
<1>5. restarts \in 0..MaxRestarts /\ choices \in 0..MaxChoices /\ faults \in 0..MaxFaults
  BY DEF Init
<1> QED BY <1>1, <1>2, <1>3, <1>4, <1>5 DEF IInv

\* The invariant that the others follow from: the records, the managed service and the
\* tunnel are sound in every reachable state.
THEOREM ResourcesInvariance == Spec => []IInv
<1>1. ASSUME IInv, [Next]_vars PROVE IInv'
  BY <1>1, SlurmStep, BoundsStep, RecordsStep, ServiceStep, TunnelStep DEF IInv, SlurmStates
<1> QED BY <1>1, InitIsSound, PTL DEF Spec

\* Type correctness: in memory and in the file the registry and the jobHistory stay within
\* their limits, and none of them has an entry twice.
THEOREM ResourcesTypeCorrect == Spec => []TypeOK
<1>1. IInv => TypeOK
  <2> SUFFICES ASSUME IInv PROVE TypeOK
    OBVIOUS
  <2>1. \A h \in Histories(Truthful(slurm)) : IsHistory(h)
    <3> SUFFICES ASSUME NEW h \in Histories(Truthful(slurm)) PROVE IsHistory(h)
      OBVIOUS
    <3>1. h \in Seq(Truthful(slurm)) /\ Len(h) <= HistoryLimit /\ DistinctJobs(h)
      BY DEF Histories
    <3>2. h \in Seq(Entries)
      <4> DEFINE A == Truthful(slurm)
      <4>1. \A e \in A : e \in Entries
        BY DEF Truthful
      <4> HIDE DEF A
      <4> QED BY <3>1, <4>1 DEF A
    <3> QED BY <3>1, <3>2 DEF IsHistory, DistinctJobs
  <2>2. IsPlane(plane) /\ IsPlane(saved.plane)
    BY DEF IInv, RecordsAreSound, PlaneIsSound
  <2> QED BY <2>1, <2>2 DEF IInv, RecordsAreSound, ServiceIsSound, TunnelIsSound, TypeOK
<1> QED BY <1>1, ResourcesInvariance, PTL

\* No restart, lost answer or later command loses a job whose submission was answered.
THEOREM SubmissionsAreRecoverable == Spec => []SubmissionIsRecoverable
<1>1. IInv => SubmissionIsRecoverable
  BY DEF IInv, RecordsAreSound, SubmissionIsRecoverable
<1> QED BY <1>1, ResourcesInvariance, PTL

\* A vLLM job that this process has started and that runs is the one it tracks.
THEOREM NoServiceIsForgotten == Spec => []NoForgottenService
<1>1. IInv => NoForgottenService
  BY DEF IInv, ServiceIsSound
<1> QED BY <1>1, ResourcesInvariance, PTL

\* What the records, in memory and in the file, and the service say has ended has ended.
THEOREM EndsAreTrue == Spec => []EndedIsTrue
<1>1. IInv => EndedIsTrue
  <2> SUFFICES ASSUME IInv PROVE EndedIsTrue
    OBVIOUS
  <2>1. \A h \in Histories(Truthful(slurm)) : \A e \in ToSet(h) : e.over => slurm[e.job] = "ended"
    <3> SUFFICES ASSUME NEW h \in Histories(Truthful(slurm)), NEW i \in DOMAIN h
                 PROVE  h[i].over => slurm[h[i].job] = "ended"
      BY DEF ToSet
    <3>1. h[i] \in Truthful(slurm)
      BY DEF Histories
    <3> QED BY <3>1 DEF Truthful
  <2> QED BY <2>1 DEF IInv, RecordsAreSound, ServiceIsSound, EndedIsTrue
<1> QED BY <1>1, ResourcesInvariance, PTL

\* The key of the managed service is never sent to another service that runs, except
\* where a tunnel that an earlier process of the helper has left holds the local port.
THEOREM KeysStayUnlessStray == Spec => []KeyStaysUnlessStray
<1>1. IInv => KeyStaysUnlessStray
  BY DEF IInv, TunnelIsSound
<1> QED BY <1>1, ResourcesInvariance, PTL

\* The registry never drops the current workspace, however small its limit.
THEOREM TheCurrentIsNewest == Spec => []CurrentIsNewest
<1>1. IInv => CurrentIsNewest
  BY DEF IInv, RecordsAreSound, PlaneIsSound, CurrentIsNewest
<1> QED BY <1>1, ResourcesInvariance, PTL

\* The projects list every workspace that the registry has, and its jobs.
THEOREM RegistryAndProjectsAgree == Spec => []LinksAgree
<1>1. IInv => LinksAgree
  BY DEF IInv, RecordsAreSound, PlaneIsSound, LinksAgree
<1> QED BY <1>1, ResourcesInvariance, PTL
=============================================================================
