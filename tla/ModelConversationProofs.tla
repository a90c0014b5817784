------------------------ MODULE ModelConversationProofs ------------------------
(***************************************************************************)
(* The conversation with the language model, proved for messages of any     *)
(* size, every budget and every number of attempts: what is sent makes      *)
(* sense to the model, and a question is kept only with its answer.         *)
(***************************************************************************)
EXTENDS ModelConversation, Iteration, SequenceTheorems

EndsWith(h, kind) == Len(h) > 0 /\ h[Len(h)].kind = kind

(* A result has its call before it; a call or a question that is not the    *)
(* newest message has its result or its answer after it.                    *)
WellFormed(h) ==
    \A i \in 1..Len(h) :
        /\ h[i].kind = "result" => i > 1 /\ h[i - 1].kind = "call"
        /\ h[i].kind = "call" /\ i < Len(h) => h[i + 1].kind = "result"
        /\ h[i].kind = "question" /\ i < Len(h) => Role[h[i + 1].kind] = "assistant"

IsQuestion(q) == q = <<>> \/ \E s \in Sizes : q = <<[kind |-> "question", size |-> s]>>

(* The inductive invariant.  A server that is left with a proposal pending  *)
(* leaves a call without its result: nothing is asked until a new history   *)
(* is begun, with the next server.                                          *)
IInv ==
    /\ ChatTypeOK /\ IsQuestion(question)
    /\ WellFormed(history) /\ ~EndsWith(history, "question")
    /\ pending => attached
    /\ attached => (pending <=> EndsWith(history, "call"))
    /\ attempt > 0 => /\ attached /\ ~pending /\ Len(history) + 2 <= MaxHistory
                      /\ request = BoundedHistory(history \o question)
    /\ attempt = 0 => question = <<>>

-----------------------------------------------------------------------------
(* What a part of the history costs *)

\* The roles of the kinds of messages, and the types of the constants.
LEMMA Typical ==
    /\ DOMAIN Role = {"question", "output", "answer", "call", "result"}
    /\ \A kind \in DOMAIN Role : /\ Role[kind] = "tool" <=> kind = "result"
                                 /\ Role[kind] = "assistant" <=> kind \in {"answer", "call"}
    /\ \A m \in Message : m.size \in Nat /\ m.kind \in DOMAIN Role
    /\ MaxAttempts \in Nat \ {0} /\ MaxHistory \in Nat
<1>1. /\ DOMAIN Role = {"question", "output", "answer", "call", "result"}
      /\ Role["question"] = "user" /\ Role["output"] = "user" /\ Role["answer"] = "assistant"
      /\ Role["call"] = "assistant" /\ Role["result"] = "tool"
  BY DEF Role
<1>2. \A kind \in DOMAIN Role : /\ Role[kind] = "tool" <=> kind = "result"
                               /\ Role[kind] = "assistant" <=> kind \in {"answer", "call"}
  BY <1>1
<1>3. \A m \in Message : m.size \in Nat /\ m.kind \in DOMAIN Role
  BY ModelConversationAssumption DEF Message
<1> QED BY <1>1, <1>2, <1>3, ModelConversationAssumption

\* The cost of a part is summed from the newest message on.
LEMMA CostRuns ==
    ASSUME NEW h \in Seq(Message)
    PROVE  \E F : /\ F[0] = 0 /\ \A k \in 1..Len(h) : F[k] = F[k - 1] + h[Len(h) + 1 - k].size
                  /\ \A i \in 1..(Len(h) + 1) : Cost(h, i) = F[Len(h) + 1 - i]
<1> DEFINE N == Len(h)
           f == [k \in 1..N |-> [s \in Nat |-> s + h[N + 1 - k].size]]
           Is(G) == G = [k \in 0..N |-> IF k = 0 THEN 0 ELSE G[k - 1] + h[N + 1 - k].size]
<1>1. N \in Nat /\ 0 \in Nat
  OBVIOUS
<1>2. f \in [1..N -> [Nat -> Nat]]
  <2>1. \A k \in 1..N : h[N + 1 - k].size \in Nat
    <3>1. \A k \in 1..N : N + 1 - k \in 1..N
      BY <1>1
    <3> QED BY <3>1, Typical
  <2> HIDE DEF N
  <2> QED BY <2>1
<1>3. PICK G : IsIteration(G, Nat, 0, N, f)
  <2> HIDE DEF f, N
  <2> QED BY <1>1, <1>2, Iterates
<1>4. Is(G)
  <2>1. G \in [0..N -> Nat] /\ G[0] = 0 /\ \A j \in 1..N : G[j] = f[j][G[j - 1]]
    BY <1>3 DEF IsIteration
  <2>2. \A j \in 1..N : j - 1 \in 0..N /\ G[j - 1] \in Nat
    <3> HIDE DEF N, f
    <3> QED BY <1>1, <2>1
  <2>3. \A j \in 1..N : G[j] = G[j - 1] + h[N + 1 - j].size
    <3> HIDE DEF N
    <3> QED BY <2>1, <2>2
  <2>4. \A j \in 0..N : j = 0 \/ j \in 1..N
    BY <1>1
  <2> HIDE DEF N, f
  <2> QED BY <2>1, <2>3, <2>4
<1> DEFINE F == CHOOSE H : Is(H)
<1>5. Is(F)
  <2> HIDE DEF Is
  <2> QED BY <1>4
<1>6. \A i \in 1..(N + 1) : Cost(h, i) = F[N + 1 - i]
  BY DEF Cost
<1>7. F[0] = 0 /\ \A k \in 1..N : F[k] = F[k - 1] + h[N + 1 - k].size
  <2>1. 0 \in 0..N /\ \A k \in 1..N : k \in 0..N /\ k # 0
    BY <1>1
  <2> HIDE DEF F, N
  <2> QED BY <1>5, <2>1
<1> HIDE DEF F, Is
<1> QED BY <1>6, <1>7

\* A part that is taken out costs what it did in its place.
LEMMA CostOfPart ==
    ASSUME NEW h \in Seq(Message), NEW b \in Seq(Message), NEW c \in 1..Len(h),
           Len(b) = Len(h) + 1 - c, \A i \in 1..Len(b) : b[i] = h[c + i - 1]
    PROVE  Cost(b, 1) = Cost(h, c)
<1> DEFINE N == Len(h)
           M == Len(b)
<1>1. N \in Nat /\ M \in Nat /\ M \in 1..N /\ M = N + 1 - c
  OBVIOUS
<1>2. PICK F : /\ F[0] = 0 /\ \A k \in 1..N : F[k] = F[k - 1] + h[N + 1 - k].size
               /\ \A i \in 1..(N + 1) : Cost(h, i) = F[N + 1 - i]
  BY CostRuns
<1>3. PICK G : /\ G[0] = 0 /\ \A k \in 1..M : G[k] = G[k - 1] + b[M + 1 - k].size
               /\ \A i \in 1..(M + 1) : Cost(b, i) = G[M + 1 - i]
  BY CostRuns
<1> HIDE DEF N, M
<1>4. \A k \in 1..M : k \in 1..N /\ b[M + 1 - k] = h[N + 1 - k]
  <2> SUFFICES ASSUME NEW k \in 1..M PROVE k \in 1..N /\ b[M + 1 - k] = h[N + 1 - k]
    OBVIOUS
  <2>1. k \in 1..N /\ M + 1 - k \in 1..M
    <3>1. M <= N
      BY <1>1
    <3>2. \A x, y \in Nat : \A z \in 1..x : x <= y => z \in 1..y /\ x + 1 - z \in 1..x
      OBVIOUS
    <3> QED BY <1>1, <3>1, <3>2
  <2>2. c \in Nat /\ c + (M + 1 - k) - 1 = N + 1 - k
    BY <1>1
  <2>3. b[M + 1 - k] = h[c + (M + 1 - k) - 1]
    BY <2>1 DEF M
  <2> QED BY <2>1, <2>2, <2>3
<1> DEFINE T == {k \in 0..M : F[k] = G[k]}
<1>5. 0 \in T
  BY <1>1, <1>2, <1>3
<1>6. \A k \in 0..M : k \in T /\ k < M => k + 1 \in T
  <2> SUFFICES ASSUME NEW k \in 0..M, F[k] = G[k], k < M PROVE k + 1 \in 0..M /\ F[k + 1] = G[k + 1]
    OBVIOUS
  <2>1. k + 1 \in 1..M /\ k + 1 \in 0..M /\ (k + 1) - 1 = k
    BY <1>1
  <2>2. k + 1 \in 1..N /\ b[M + 1 - (k + 1)] = h[N + 1 - (k + 1)]
    BY <1>4, <2>1
  <2>3. F[k + 1] = F[k] + h[N + 1 - (k + 1)].size /\ G[k + 1] = G[k] + b[M + 1 - (k + 1)].size
    BY <1>2, <1>3, <2>1, <2>2
  <2> QED BY <2>1, <2>2, <2>3
<1>7. \A k \in 0..M : k \in T
  <2> HIDE DEF T
  <2> QED BY <1>1, <1>5, <1>6, UpTo
<1>8. M \in 0..M /\ c \in 1..(N + 1) /\ 1 \in 1..(M + 1) /\ N + 1 - c = M /\ M + 1 - 1 = M
  BY <1>1 DEF N
<1>9. Cost(h, c) = F[M] /\ Cost(b, 1) = G[M]
  BY <1>2, <1>3, <1>8
<1> QED BY <1>7, <1>8, <1>9

-----------------------------------------------------------------------------
(* What is sent *)

ClippedFrom(full) == [i \in DOMAIN full |-> Clipped(full[i])]

\* Cutting messages changes neither how many there are nor of what kinds.
LEMMA ClippedKeeps ==
    ASSUME NEW full \in Seq(Message)
    PROVE  /\ ClippedFrom(full) \in Seq(Message) /\ Len(ClippedFrom(full)) = Len(full)
           /\ \A i \in 1..Len(full) : /\ ClippedFrom(full)[i] = Clipped(full[i])
                                      /\ ClippedFrom(full)[i].kind = full[i].kind
<1>1. \A m \in Message : Clipped(m) \in Message /\ Clipped(m).kind = m.kind
  BY DEF Clipped, Message
<1>2. DOMAIN full = 1..Len(full) /\ Len(full) \in Nat /\ \A i \in 1..Len(full) : full[i] \in Message
  OBVIOUS
<1>3. ClippedFrom(full) = [i \in 1..Len(full) |-> Clipped(full[i])]
  BY <1>2 DEF ClippedFrom
<1>4. \A i \in 1..Len(full) : Clipped(full[i]) \in Message
  BY <1>1, <1>2
<1>5. ClippedFrom(full) \in Seq(Message) /\ Len(ClippedFrom(full)) = Len(full)
  <2> DEFINE g == [i \in 1..Len(full) |-> Clipped(full[i])]
  <2>1. g \in [1..Len(full) -> Message]
    BY <1>4
  <2>2. g \in Seq(Message) /\ Len(g) = Len(full)
    <3> HIDE DEF g
    <3> QED BY <1>2, <2>1
  <2> HIDE DEF g
  <2> QED BY <1>3, <2>2 DEF g
<1> QED BY <1>1, <1>2, <1>3, <1>5

\* A place where a history may be cut is never inside a pair, and there is one that
\* leaves the newest message, or the newest pair.
LEMMA PlacesCut ==
    ASSUME NEW h \in Seq(Message), WellFormed(h), Len(h) > 0
    PROVE  /\ Places(h) \subseteq 1..Len(h)
           /\ \A i \in Places(h) : h[i].kind # "result"
           /\ Max(Places(h)) \in Places(h) /\ Max(Places(h)) >= Len(h) - 1
<1> DEFINE n == Len(h)
           P == Places(h)
<1>1. n \in Nat /\ n > 0 /\ DOMAIN h = 1..n /\ \A i \in 1..n : h[i] \in Message
  OBVIOUS
<1>2. \A i \in 1..n : i \in P <=> ~(h[i].kind = "result" /\ i > 1 /\ h[i - 1].kind \in {"answer", "call"})
  <2> SUFFICES ASSUME NEW i \in 1..n
               PROVE  i \in P <=> ~(h[i].kind = "result" /\ i > 1
                                    /\ h[i - 1].kind \in {"answer", "call"})
    OBVIOUS
  <2>1. h[i].kind \in DOMAIN Role
    BY <1>1, Typical
  <2>2. i > 1 => i - 1 \in 1..n /\ h[i - 1].kind \in DOMAIN Role
    <3>1. i > 1 => i - 1 \in 1..n
      BY <1>1
    <3> HIDE DEF n
    <3> QED BY <1>1, <3>1, Typical
  <2> QED BY <1>1, <2>1, <2>2, Typical DEF Places
<1>3. P \subseteq 1..n
  BY <1>1 DEF Places
<1>4. \A i \in P : h[i].kind # "result"
  BY <1>2, <1>3 DEF WellFormed
<1>5. \A i \in 1..n : h[i].kind # "result" => i \in P
  BY <1>2
<1> HIDE DEF P
<1>6. \E m \in P : m >= n - 1 /\ \A y \in P : m >= y
  <2>1. CASE n \in P
    BY <1>1, <1>3, <2>1
  <2>2. CASE n \notin P
    <3>1. n \in 1..n
      BY <1>1
    <3>2. h[n].kind = "result" /\ n > 1 /\ h[n - 1].kind = "call"
      BY <1>5, <2>2, <3>1 DEF WellFormed
    <3>3. n - 1 \in 1..n /\ n - 1 >= n - 1
      BY <1>1, <3>2
    <3>4. n - 1 \in P
      BY <1>5, <3>2, <3>3
    <3>5. \A y \in P : n - 1 >= y
      BY <1>1, <1>3, <2>2
    <3> QED BY <3>3, <3>4, <3>5
  <2> QED BY <2>1, <2>2
<1>7. Max(P) \in P /\ Max(P) >= n - 1
  <2>1. PICK m \in P : m >= n - 1 /\ \A y \in P : m >= y
    BY <1>6
  <2>2. Max(P) \in P /\ \A y \in P : Max(P) >= y
    BY <2>1 DEF Max
  <2>3. Max(P) >= m /\ m \in Nat /\ Max(P) \in Nat
    <3>1. \A i \in P : i \in Nat
      BY <1>1, <1>3
    <3> QED BY <2>1, <2>2, <3>1
  <2> QED BY <1>1, <2>1, <2>2, <2>3
<1> QED BY <1>3, <1>4, <1>7 DEF P

\* What is sent of a history makes sense to the model, ends with its newest message and
\* fits, unless the newest message, or pair, alone does not.
LEMMA BoundedIsCoherent ==
    ASSUME NEW full \in Seq(Message), WellFormed(full), ~EndsWith(full, "call")
    PROVE  LET r == BoundedHistory(full)
           IN  /\ r \in Seq(Message)
               /\ \A i \in 1..Len(r) :
                     /\ r[i].kind = "result" => i > 1 /\ r[i - 1].kind = "call"
                     /\ r[i].kind = "call" => i < Len(r) /\ r[i + 1].kind = "result"
               /\ Len(full) > 0 => Len(r) > 0 /\ r[Len(r)] = Clipped(full[Len(full)])
               /\ Len(r) > 2 => Cost(r, 1) <= Budget
<1> DEFINE h == ClippedFrom(full)
           n == Len(full)
           r == BoundedHistory(full)
           P == Places(h)
           C == {i \in P : Cost(h, i) <= Budget} \union {Max(P)}
           c == Min(C)
<1>1. /\ h \in Seq(Message) /\ Len(h) = n /\ n \in Nat
      /\ \A i \in 1..n : h[i] = Clipped(full[i]) /\ h[i].kind = full[i].kind
  BY ClippedKeeps
<1>2. r = IF h = <<>> THEN <<>> ELSE SubSeq(h, c, Len(h))
  BY DEF BoundedHistory, ClippedFrom
<1> HIDE DEF h, r
<1>3. CASE n = 0
  <2>1. r = <<>>
    BY <1>1, <1>2, <1>3
  <2> QED BY <1>3, <2>1 DEF r
<1>4. CASE n > 0
  <2>1. WellFormed(h)
    <3> SUFFICES ASSUME NEW i \in 1..n
                 PROVE  /\ h[i].kind = "result" => i > 1 /\ h[i - 1].kind = "call"
                        /\ h[i].kind = "call" /\ i < n => h[i + 1].kind = "result"
                        /\ h[i].kind = "question" /\ i < n => Role[h[i + 1].kind] = "assistant"
      BY <1>1 DEF WellFormed
    <3>1. (i > 1 => i - 1 \in 1..n) /\ (i < n => i + 1 \in 1..n)
      BY <1>1
    <3> QED BY <1>1, <3>1 DEF WellFormed
  <2>2. /\ P \subseteq 1..n /\ \A i \in P : h[i].kind # "result"
        /\ Max(P) \in P /\ Max(P) >= n - 1
    BY <1>1, <1>4, <2>1, PlacesCut
  <2> HIDE DEF P
  <2>3. c \in C
    <3>1. C \in SUBSET Nat /\ C # {}
      <4>1. \A i \in P : i \in Nat
        BY <1>1, <2>2
      <4>2. Max(P) \in P
        BY <2>2
      <4> QED BY <4>1, <4>2
    <3> HIDE DEF C
    <3>2. \E x \in C : \A y \in C : x <= y
      BY <3>1, LeastOne
    <3> QED BY <3>2 DEF Min
  <2>4. c \in P /\ c \in 1..n /\ (c >= n - 1 \/ Cost(h, c) <= Budget)
    <3> HIDE DEF c
    <3> QED BY <2>2, <2>3
  <2> HIDE DEF c, C
  <2>5. r = SubSeq(h, c, n) /\ n \in 1..n
    <3>1. h # <<>>
      BY <1>1, <1>4
    <3> HIDE DEF n
    <3>2. r = SubSeq(h, c, n)
      BY <1>1, <1>2, <3>1
    <3>3. n \in 1..n
      BY <1>1, <1>4
    <3> QED BY <3>2, <3>3
  <2>6. r \in Seq(Message) /\ Len(r) = n - c + 1 /\ \A i \in 1..(n - c + 1) : r[i] = h[c + i - 1]
    <3> HIDE DEF n
    <3> QED BY <1>1, <2>4, <2>5, SubSeqProperties
  <2> HIDE DEF n
  <2>7. Len(r) = n + 1 - c /\ Len(r) \in 1..Len(r) /\ c + Len(r) - 1 = n /\ Len(r) \in Nat
    BY <1>1, <2>4, <2>6
  <2>8. \A i \in 1..Len(r) : r[i] = h[c + i - 1]
    BY <2>6
  <2>9. ASSUME NEW i \in 1..Len(r)
        PROVE  /\ r[i].kind = "result" => i > 1 /\ r[i - 1].kind = "call"
               /\ r[i].kind = "call" => i < Len(r) /\ r[i + 1].kind = "result"
    <3> DEFINE k == c + i - 1
    <3>1. k \in 1..n /\ r[i] = h[k]
      BY <1>1, <2>4, <2>7, <2>8
    <3>2. ASSUME r[i].kind = "result" PROVE i > 1 /\ r[i - 1].kind = "call"
      <4>1. k > 1 /\ h[k - 1].kind = "call"
        <5> HIDE DEF k
        <5> QED BY <1>1, <2>1, <3>1, <3>2 DEF WellFormed
      <4>2. k # c
        BY <2>2, <2>4, <3>1, <3>2
      <4>3. i > 1 /\ i - 1 \in 1..Len(r) /\ c + (i - 1) - 1 = k - 1
        BY <1>1, <2>4, <2>7, <4>2
      <4>4. r[i - 1] = h[k - 1]
        BY <2>8, <4>3
      <4> QED BY <4>1, <4>3, <4>4
    <3>3. ASSUME r[i].kind = "call" PROVE i < Len(r) /\ r[i + 1].kind = "result"
      <4>1. k # n
        <5>1. h[n].kind = full[n].kind
          BY <1>1, <1>4, <2>5
        <5>2. full[n].kind # "call"
          BY <1>4 DEF EndsWith, n
        <5> QED BY <3>1, <3>3, <5>1, <5>2
      <4>2. k < n
        BY <1>1, <3>1, <4>1
      <4>3. h[k + 1].kind = "result"
        <5> HIDE DEF k
        <5> QED BY <1>1, <2>1, <3>1, <3>3, <4>2 DEF WellFormed
      <4>4. i < Len(r) /\ i + 1 \in 1..Len(r) /\ c + (i + 1) - 1 = k + 1
        BY <1>1, <2>4, <2>7, <4>2
      <4>5. r[i + 1] = h[k + 1]
        BY <2>8, <4>4
      <4> QED BY <4>3, <4>4, <4>5
    <3> QED BY <3>2, <3>3
  <2>10. Len(r) > 0 /\ r[Len(r)] = Clipped(full[n])
    <3>1. r[Len(r)] = h[n]
      BY <2>7, <2>8
    <3> QED BY <1>1, <2>5, <2>7, <3>1
  <2>11. Len(r) > 2 => Cost(r, 1) <= Budget
    <3> SUFFICES ASSUME Len(r) > 2 PROVE Cost(r, 1) <= Budget
      OBVIOUS
    <3>1. Cost(h, c) <= Budget
      BY <1>1, <2>4, <2>7
    <3>2. Cost(r, 1) = Cost(h, c)
      <4>1. c \in 1..Len(h) /\ Len(r) = Len(h) + 1 - c
        BY <1>1, <2>4, <2>7
      <4> QED BY <1>1, <2>6, <2>8, <4>1, CostOfPart
    <3> QED BY <3>1, <3>2
  <2> QED BY <2>6, <2>9, <2>10, <2>11 DEF r, n
<1> QED BY <1>1, <1>3, <1>4
-----------------------------------------------------------------------------
(* The steps *)

\* A message that may follow leaves the history well formed.
LEMMA AppendedFollows ==
    ASSUME NEW h \in Seq(Message), WellFormed(h), NEW m \in Message,
           m.kind = "result" <=> EndsWith(h, "call"),
           EndsWith(h, "question") => Role[m.kind] = "assistant"
    PROVE  /\ Append(h, m) \in Seq(Message) /\ Len(Append(h, m)) = Len(h) + 1
           /\ WellFormed(Append(h, m))
           /\ \A kind : EndsWith(Append(h, m), kind) <=> m.kind = kind
<1> DEFINE n == Len(h)
           g == Append(h, m)
<1>1. /\ n \in Nat /\ g \in Seq(Message) /\ Len(g) = n + 1 /\ g[n + 1] = m
      /\ \A i \in 1..n : g[i] = h[i]
  BY AppendProperties
<1> HIDE DEF g
<1>2. ASSUME NEW i \in 1..(n + 1)
      PROVE  /\ g[i].kind = "result" => i > 1 /\ g[i - 1].kind = "call"
             /\ g[i].kind = "call" /\ i < n + 1 => g[i + 1].kind = "result"
             /\ g[i].kind = "question" /\ i < n + 1 => Role[g[i + 1].kind] = "assistant"
  <2>1. CASE i = n + 1
    <3>1. m.kind = "result" => n > 0 /\ g[n].kind = "call"
      <4>1. n > 0 => n \in 1..n
        BY <1>1
      <4> QED BY <1>1, <4>1 DEF EndsWith
    <3>2. i - 1 = n /\ ~(i < n + 1) /\ (n > 0 => i > 1)
      BY <1>1, <2>1
    <3> QED BY <1>1, <2>1, <3>1, <3>2
  <2>2. CASE i \in 1..n
    <3>1. g[i] = h[i] /\ i < n + 1 /\ (i > 1 => i - 1 \in 1..n /\ g[i - 1] = h[i - 1])
      <4>1. i < n + 1 /\ (i > 1 => i - 1 \in 1..n)
        BY <1>1, <2>2
      <4> HIDE DEF n
      <4> QED BY <1>1, <2>2, <4>1
    <3>2. CASE i < n
      <4>1. i + 1 \in 1..n
        BY <1>1, <2>2, <3>2
      <4>2. g[i + 1] = h[i + 1]
        BY <1>1, <4>1
      <4> QED BY <2>2, <3>1, <3>2, <4>2 DEF WellFormed
    <3>3. CASE i = n
      <4>1. n > 0 /\ g[i + 1] = m
        BY <1>1, <2>2, <3>3
      <4>2. /\ h[i].kind = "call" => m.kind = "result"
            /\ h[i].kind = "question" => Role[m.kind] = "assistant"
        BY <3>3, <4>1 DEF EndsWith
      <4>3. h[i].kind = "result" => i > 1 /\ h[i - 1].kind = "call"
        BY <2>2 DEF WellFormed
      <4> QED BY <3>1, <4>1, <4>2, <4>3
    <3> QED BY <1>1, <2>2, <3>2, <3>3
  <2> QED BY <1>1, <2>1, <2>2
<1>3. WellFormed(g)
  BY <1>1, <1>2 DEF WellFormed
<1>4. \A kind : EndsWith(g, kind) <=> m.kind = kind
  BY <1>1 DEF EndsWith
<1> QED BY <1>1, <1>3, <1>4 DEF g

\* The history with what was typed.
LEMMA WithQuestion ==
    ASSUME NEW h \in Seq(Message), WellFormed(h), ~EndsWith(h, "call"), ~EndsWith(h, "question"),
           NEW q, IsQuestion(q)
    PROVE  /\ h \o q \in Seq(Message) /\ Len(h \o q) <= Len(h) + 1
           /\ WellFormed(h \o q) /\ ~EndsWith(h \o q, "call")
           /\ q \in Seq(Message) /\ Len(q) <= 1
<1>1. CASE q = <<>>
  <2>1. h \o q = h
    BY <1>1
  <2>2. q \in Seq(Message) /\ Len(q) <= 1
    BY <1>1
  <2> QED BY <2>1, <2>2
<1>2. CASE \E s \in Sizes : q = <<[kind |-> "question", size |-> s]>>
  <2>1. PICK s \in Sizes : q = <<[kind |-> "question", size |-> s]>>
    BY <1>2
  <2> DEFINE m == [kind |-> "question", size |-> s]
  <2>2. m \in Message /\ m.kind = "question"
    BY Typical DEF Message
  <2> HIDE DEF m
  <2>3. q = <<m>>
    BY <2>1 DEF m
  <2>4. h \o q = Append(h, m) /\ q \in Seq(Message) /\ Len(q) <= 1
    BY <2>2, <2>3
  <2>5. /\ Append(h, m) \in Seq(Message) /\ Len(Append(h, m)) = Len(h) + 1
        /\ WellFormed(Append(h, m))
        /\ \A kind : EndsWith(Append(h, m), kind) <=> m.kind = kind
    BY <2>2, AppendedFollows
  <2> QED BY <2>2, <2>4, <2>5
<1> QED BY <1>1, <1>2 DEF IsQuestion

\* An empty history satisfies the invariant.
LEMMA InitIsSound == ChatInit => IInv
<1> SUFFICES ASSUME ChatInit PROVE IInv
  OBVIOUS
<1>1. <<>> \in Seq(Message) /\ Len(<<>>) = 0
  OBVIOUS
<1>2. /\ attached = FALSE /\ pending = FALSE /\ history = <<>> /\ question = <<>>
      /\ request = <<>> /\ attempt = 0 /\ body = "request"
  BY DEF ChatInit
<1>3. ChatTypeOK
  <2>1. 0 \in 0..MaxAttempts /\ 0 <= MaxHistory /\ 0 <= 1
    BY Typical
  <2> QED BY <1>1, <1>2, <2>1 DEF ChatTypeOK
<1>4. WellFormed(<<>>) /\ IsQuestion(<<>>) /\ \A kind : ~EndsWith(<<>>, kind)
  BY <1>1 DEF IsQuestion, WellFormed, EndsWith
<1> QED BY <1>2, <1>3, <1>4 DEF IInv

\* Every action keeps the invariant.
LEMMA StepIsSound == IInv /\ [ChatNext]_chatVars => IInv'
<1> SUFFICES ASSUME IInv, [ChatNext]_chatVars PROVE IInv'
  OBVIOUS
<1>0. history \in Seq(Message) /\ Len(history) \in Nat
  <2>1. history \in Seq(Message)
    BY DEF IInv, ChatTypeOK
  <2> QED BY ONLY <2>1
<1>1. /\ attached \in BOOLEAN /\ pending \in BOOLEAN /\ history \in Seq(Message)
      /\ Len(history) <= MaxHistory /\ Len(history) \in Nat
      /\ question \in Seq(Message) /\ Len(question) <= 1 /\ request \in Seq(Message)
      /\ attempt \in 0..MaxAttempts /\ body \in {"request", "error object", "no object"}
      /\ IsQuestion(question) /\ WellFormed(history) /\ ~EndsWith(history, "question")
      /\ pending => attached
      /\ attached => (pending <=> EndsWith(history, "call"))
      /\ attempt > 0 => /\ attached /\ ~pending /\ Len(history) + 2 <= MaxHistory
                        /\ request = BoundedHistory(history \o question)
      /\ attempt = 0 => question = <<>>
  BY <1>0 DEF IInv, ChatTypeOK
<1>2. MaxAttempts \in Nat \ {0} /\ MaxHistory \in Nat
  BY Typical
<1>3. /\ <<>> \in Seq(Message) /\ Len(<<>>) = 0 /\ IsQuestion(<<>>) /\ 0 \in 0..MaxAttempts
      /\ ~(0 > 0) /\ \A n \in 0..MaxAttempts : n = 0 \/ n > 0
  BY <1>2 DEF IsQuestion
<1>3a. ASSUME question' = <<>>, request' = <<>>, attempt' = 0, body' = "request"
      PROVE  /\ question' \in Seq(Message) /\ Len(question') <= 1 /\ request' \in Seq(Message)
             /\ attempt' \in 0..MaxAttempts /\ body' \in {"request", "error object", "no object"}
  <2>1. 0 <= 1
    OBVIOUS
  <2> QED BY ONLY <1>3, <1>3a, <2>1
<1>4. CASE UNCHANGED chatVars
  <2>1. /\ UNCHANGED <<attached, history, pending>>
        /\ UNCHANGED <<question, request, attempt, body>>
    BY <1>4 DEF chatVars, conversation, call
  <2> QED BY <1>1, <2>1 DEF IInv, ChatTypeOK
<1>5. CASE Ask
  <2>1. /\ attached /\ ~pending /\ Len(history) + 2 <= MaxHistory
        /\ attempt' = 1 /\ body' = "request"
        /\ attached' = attached /\ history' = history /\ pending' = pending
    BY <1>5 DEF Ask, conversation
  <2>2. PICK q \in {<<>>} \union {<<[kind |-> "question", size |-> s]>> : s \in Sizes} :
           question' = q /\ request' = BoundedHistory(history \o q)
    BY <1>5 DEF Ask
  <2>3. IsQuestion(q)
    BY <2>2 DEF IsQuestion
  <2>4. /\ history \o q \in Seq(Message) /\ WellFormed(history \o q)
        /\ ~EndsWith(history \o q, "call") /\ q \in Seq(Message) /\ Len(q) <= 1
    BY <1>1, <2>1, <2>3, WithQuestion
  <2>5. BoundedHistory(history \o q) \in Seq(Message)
    BY <2>4, BoundedIsCoherent
  <2>6. 1 \in 0..MaxAttempts /\ 1 # 0
    BY <1>2
  <2> QED BY <1>1, <2>1, <2>2, <2>3, <2>4, <2>5, <2>6 DEF IInv, ChatTypeOK
<1>6. CASE Answered
  <2>1. attempt > 0 /\ attached' = attached /\ question' = <<>> /\ request' = <<>>
        /\ attempt' = 0 /\ body' = "request"
    BY <1>6 DEF Answered, Ends
  <2>2. PICK kind \in {"answer", "call"}, s \in Sizes :
           /\ history' = history \o question \o <<[kind |-> kind, size |-> s]>>
           /\ pending' = (kind = "call")
    BY <1>6 DEF Answered
  <2> DEFINE full == history \o question
             m == [kind |-> kind, size |-> s]
  <2>3. /\ full \in Seq(Message) /\ WellFormed(full) /\ Len(full) <= Len(history) + 1
        /\ ~EndsWith(full, "call")
    BY <1>1, <2>1, WithQuestion
  <2>4. m \in Message /\ m.kind = kind /\ Role[kind] = "assistant" /\ kind # "result"
        /\ kind # "question"
    BY Typical DEF Message
  <2> HIDE DEF full, m
  <2>5. history' = Append(full, m)
    BY <2>2, <2>3, <2>4 DEF full, m
  <2>6. /\ history' \in Seq(Message) /\ Len(history') = Len(full) + 1 /\ WellFormed(history')
        /\ \A k : EndsWith(history', k) <=> m.kind = k
    BY <2>3, <2>4, <2>5, AppendedFollows
  <2>7. Len(history') <= MaxHistory
    <3>1. \A n, l, k, b \in Nat : k <= n + 1 /\ n + 2 <= b /\ l = k + 1 => l <= b
      OBVIOUS
    <3>2. Len(full) \in Nat /\ Len(history') \in Nat
      BY <2>3, <2>6
    <3>3. Len(history) + 2 <= MaxHistory
      BY <1>1, <2>1
    <3> QED BY <1>0, <1>2, <2>3, <2>6, <3>1, <3>2, <3>3
  <2>8. /\ ~EndsWith(history', "question")
        /\ pending' \in BOOLEAN /\ (pending' <=> EndsWith(history', "call"))
    BY <2>2, <2>4, <2>6
  <2>9. ChatTypeOK'
    <3>1. attached' \in BOOLEAN
      BY <1>1, <2>1
    <3> QED BY <1>3a, <2>1, <2>6, <2>7, <2>8, <3>1 DEF ChatTypeOK
  <2>10. attached /\ attached'
    BY <1>1, <2>1
  <2> QED BY <1>3, <2>1, <2>6, <2>8, <2>9, <2>10 DEF IInv
<1>7. CASE Fails
  <2>1. /\ question' = <<>> /\ request' = <<>> /\ attempt' = 0 /\ body' = "request"
        /\ attached' = attached /\ history' = history /\ pending' = pending
    BY <1>7 DEF Fails, Ends, conversation
  <2>2. ChatTypeOK'
    BY <1>1, <1>3a, <2>1 DEF ChatTypeOK
  <2> QED BY <1>1, <1>3, <2>1, <2>2 DEF IInv
<1>8. CASE Unavailable \/ RateLimited
  <2>1. /\ attempt > 0 /\ attempt < MaxAttempts /\ attempt' = attempt + 1
        /\ body' \in {"request", "error object", "no object"}
        /\ attached' = attached /\ history' = history /\ pending' = pending
        /\ question' = question /\ request' = request
    BY <1>1, <1>8 DEF Unavailable, RateLimited, Retry, conversation
  <2>2. attempt' \in 0..MaxAttempts /\ attempt' # 0
    <3>1. \A b \in Nat : \A n \in 0..b : n < b => n + 1 \in 0..b /\ n + 1 # 0
      OBVIOUS
    <3> QED BY <1>1, <1>2, <2>1, <3>1
  <2> QED BY <1>1, <2>1, <2>2 DEF IInv, ChatTypeOK
<1>9. ASSUME attached, attempt = 0, Len(history) < MaxHistory, attached' = attached,
             NEW m \in Message, history' = Append(history, m), pending' = FALSE,
             m.kind \in {"result", "output"}, m.kind = "result" <=> pending,
             UNCHANGED <<question, request, attempt, body>>
      PROVE  IInv'
  <2>1. /\ history' \in Seq(Message) /\ Len(history') = Len(history) + 1 /\ WellFormed(history')
        /\ \A k : EndsWith(history', k) <=> m.kind = k
    BY <1>1, <1>9, AppendedFollows
  <2>2. Len(history') <= MaxHistory
    <3>1. \A n, b \in Nat : n < b => n + 1 <= b
      OBVIOUS
    <3> QED BY <1>0, <1>2, <1>9, <2>1, <3>1
  <2>3. ~EndsWith(history', "question") /\ ~EndsWith(history', "call")
    BY <1>9, <2>1
  <2> QED BY <1>1, <1>3, <1>9, <2>1, <2>2, <2>3 DEF IInv, ChatTypeOK
<1>10. CASE Run
  <2>1. PICK s \in Sizes : history' = Append(history,
           Clipped([kind |-> IF pending THEN "result" ELSE "output", size |-> s]))
    BY <1>10 DEF Run
  <2> DEFINE k == IF pending THEN "result" ELSE "output"
             m == Clipped([kind |-> k, size |-> s])
  <2>2. k \in {"result", "output"} /\ (k = "result" <=> pending)
    OBVIOUS
  <2>3. m \in Message /\ m.kind = k
    <3> HIDE DEF k
    <3> QED BY <2>2, Typical DEF Clipped, Message
  <2>4. history' = Append(history, m)
    BY <2>1
  <2> HIDE DEF m, k
  <2> QED BY <1>9, <1>10, <2>2, <2>3, <2>4 DEF Run, call
<1>11. CASE Reject
  <2>1. PICK s \in Sizes : history' = Append(history, [kind |-> "result", size |-> s])
    BY <1>11 DEF Reject
  <2> DEFINE m == [kind |-> "result", size |-> s]
  <2>2. m \in Message /\ m.kind = "result"
    BY Typical DEF Message
  <2>3. history' = Append(history, m)
    BY <2>1
  <2> HIDE DEF m
  <2> QED BY <1>1, <1>9, <1>11, <2>2, <2>3 DEF Reject, call
<1>12. CASE Detach
  <2>1. /\ attempt = 0 /\ attached' = FALSE /\ pending' = FALSE /\ history' = history
        /\ UNCHANGED <<question, request, attempt, body>>
    BY <1>12 DEF Detach, call
  <2> QED BY <1>1, <1>3, <2>1 DEF IInv, ChatTypeOK
<1>13. CASE Attach
  <2>1. /\ ~attached /\ attached' = TRUE /\ pending' = FALSE /\ history' = <<>>
        /\ UNCHANGED <<question, request, attempt, body>>
    BY <1>13 DEF Attach, call
  <2>2. attempt = 0
    BY <1>1, <1>3, <2>1
  <2>3. WellFormed(<<>>) /\ \A k : ~EndsWith(<<>>, k)
    BY DEF WellFormed, EndsWith
  <2>4. Len(<<>>) <= MaxHistory
    BY <1>2
  <2> QED BY <1>1, <1>3, <2>1, <2>2, <2>3, <2>4 DEF IInv, ChatTypeOK
<1> QED BY <1>4, <1>5, <1>6, <1>7, <1>8, <1>10, <1>11, <1>12, <1>13 DEF ChatNext, Reply

-----------------------------------------------------------------------------
(* The theorems *)

\* The invariant that the others follow from.
THEOREM ConversationInvariance == ChatSpec => []IInv
  BY InitIsSound, StepIsSound, PTL DEF ChatSpec

\* Type correctness of the conversation.
THEOREM ConversationTypeCorrect == ChatSpec => []ChatTypeOK
<1>1. IInv => ChatTypeOK
  BY DEF IInv
<1> QED BY <1>1, ConversationInvariance, PTL

\* A question is in the history only with its answer: no request that failed leaves one.
THEOREM NoQuestionIsLeft == ChatSpec => []QuestionsAreAnswered
<1>1. IInv => QuestionsAreAnswered
  <2> SUFFICES ASSUME IInv, NEW i \in DOMAIN history, history[i].kind = "question"
               PROVE  i < Len(history) /\ Role[history[i + 1].kind] = "assistant"
    BY DEF QuestionsAreAnswered
  <2>1. history \in Seq(Message) /\ WellFormed(history) /\ ~EndsWith(history, "question")
    BY DEF IInv, ChatTypeOK
  <2>2. Len(history) \in Nat /\ i \in 1..Len(history)
    BY <2>1
  <2>3. i # Len(history)
    BY <2>2 DEF EndsWith, IInv
  <2>4. i < Len(history)
    BY <2>2, <2>3
  <2> QED BY <2>1, <2>2, <2>4 DEF WellFormed
<1> QED BY <1>1, ConversationInvariance, PTL

\* What is sent makes sense to the model, however the history was cut.
THEOREM WhatIsSentIsCoherent == ChatSpec => []SentHistoryIsCoherent
<1>1. IInv => SentHistoryIsCoherent
  <2> SUFFICES ASSUME IInv, attempt > 0 PROVE SentHistoryIsCoherent
    BY DEF SentHistoryIsCoherent
  <2> DEFINE full == history \o question
  <2>1. /\ history \in Seq(Message) /\ WellFormed(history) /\ IsQuestion(question)
        /\ ~EndsWith(history, "question") /\ ~EndsWith(history, "call")
        /\ request = BoundedHistory(full) /\ request \in Seq(Message)
    BY DEF IInv, ChatTypeOK
  <2>2. full \in Seq(Message) /\ WellFormed(full) /\ ~EndsWith(full, "call")
    BY <2>1, WithQuestion
  <2> HIDE DEF full
  <2>3. /\ \A i \in 1..Len(request) :
              /\ request[i].kind = "result" => i > 1 /\ request[i - 1].kind = "call"
              /\ request[i].kind = "call" => i < Len(request) /\ request[i + 1].kind = "result"
        /\ Len(full) > 0 => Len(request) > 0 /\ request[Len(request)] = Clipped(full[Len(full)])
        /\ Len(request) > 2 => Cost(request, 1) <= Budget
    BY <2>1, <2>2, BoundedIsCoherent
  <2>4. DOMAIN request = 1..Len(request) /\ (full # <<>> => Len(full) > 0)
        /\ (Len(request) > 0 => request # <<>>)
    BY <2>1, <2>2
  <2> QED BY <2>3, <2>4 DEF SentHistoryIsCoherent, full
<1> QED BY <1>1, ConversationInvariance, PTL
=============================================================================
