------------------------- MODULE CommandGateProofs -------------------------
(***************************************************************************)
(* The safety of the command gate for every number of pages, connections   *)
(* and commands and every limit of the replay cache: the gate, and that a  *)
(* remembered command is never dispatched again.                           *)
(***************************************************************************)
EXTENDS CommandGate, FiniteSetTheorems, TLAPS

-----------------------------------------------------------------------------
(* What get and put of the replay cache return and preserve, for every     *)
(* cache and limit; the keys need not be distinct unless it is said.       *)

(* A function on an initial segment of the positive numbers is a sequence. *)
LEMMA IsSequence ==
    ASSUME NEW S, NEW n \in Nat, NEW f \in [1..n -> S]
    PROVE  f \in Seq(S) /\ Len(f) = n
  OBVIOUS

(* The remembered keys of a sequence over S are in S.                      *)
LEMMA RememberedInS ==
    ASSUME NEW S, NEW known \in Seq(S)
    PROVE  Remembered(known) \subseteq S
  BY DEF Remembered

(* Position finds a remembered key.                                        *)
LEMMA PositionOfKey ==
    ASSUME NEW S, NEW known \in Seq(S), NEW id \in Remembered(known)
    PROVE  /\ Position(known, id) \in 1..Len(known)
           /\ known[Position(known, id)] = id
  BY DEF Remembered, Position

(* Without drops one occurrence of the key and nothing else.               *)
LEMMA WithoutKeeps ==
    ASSUME NEW S, NEW known \in Seq(S), NEW id
    PROVE  /\ Without(known, id) \in Seq(S)
           /\ Len(Without(known, id)) =
                 IF id \in Remembered(known) THEN Len(known) - 1 ELSE Len(known)
           /\ Remembered(Without(known, id)) \union {id} = Remembered(known) \union {id}
<1>1. CASE id \notin Remembered(known)
  BY <1>1 DEF Without
<1>2. CASE id \in Remembered(known)
  <2> DEFINE k == Position(known, id)
             n == Len(known) - 1
             w == [i \in 1..n |-> known[IF i < k THEN i ELSE i + 1]]
  <2>1. k \in 1..Len(known) /\ known[k] = id
    BY <1>2, PositionOfKey
  <2>2. Without(known, id) = w
    BY <1>2 DEF Without
  <2>3. n \in Nat
    BY <2>1
  <2>4. \A i \in 1..n : (IF i < k THEN i ELSE i + 1) \in 1..Len(known)
    BY <2>1, <2>3
  <2>5. w \in Seq(S) /\ Len(w) = n
    BY <2>3, <2>4
  <2>6. Remembered(w) \subseteq Remembered(known)
    BY <2>4, <2>5 DEF Remembered
  <2>7. ASSUME NEW x \in Remembered(known), x # id
        PROVE  x \in Remembered(w)
    <3>1. PICK j \in 1..Len(known) : known[j] = x
      BY <2>7 DEF Remembered
    <3>2. j # k
      BY <2>1, <2>7, <3>1
    <3>3. CASE j < k
      <4>1. j \in 1..n /\ w[j] = x
        BY <2>1, <2>3, <3>1, <3>3
      <4> QED BY <4>1, <2>5 DEF Remembered
    <3>4. CASE j > k
      <4>1. j - 1 \in 1..n /\ w[j - 1] = x
        BY <2>1, <2>3, <3>1, <3>4
      <4> QED BY <4>1, <2>5 DEF Remembered
    <3> QED BY <2>1, <3>1, <3>2, <3>3, <3>4
  <2> HIDE DEF w, k
  <2> QED BY <1>2, <2>2, <2>5, <2>6, <2>7
<1> QED BY <1>1, <1>2

(* move_to_end keeps the keys and adds the one it moves.                   *)
LEMMA MoveToEndKeeps ==
    ASSUME NEW S, NEW known \in Seq(S), NEW id \in S
    PROVE  /\ MoveToEnd(known, id) \in Seq(S)
           /\ Len(MoveToEnd(known, id)) =
                 IF id \in Remembered(known) THEN Len(known) ELSE Len(known) + 1
           /\ MoveToEnd(known, id)[Len(MoveToEnd(known, id))] = id
           /\ Remembered(MoveToEnd(known, id)) = Remembered(known) \union {id}
<1> DEFINE w == Without(known, id)
           m == Append(w, id)
<1>1. /\ w \in Seq(S)
      /\ Len(w) = IF id \in Remembered(known) THEN Len(known) - 1 ELSE Len(known)
      /\ Remembered(w) \union {id} = Remembered(known) \union {id}
  BY WithoutKeeps
<1>2. MoveToEnd(known, id) = m
  BY DEF MoveToEnd
<1> HIDE DEF w
<1>3. /\ m \in Seq(S)
      /\ Len(m) = Len(w) + 1
      /\ m[Len(m)] = id
      /\ \A i \in 1..Len(w) : m[i] = w[i]
  BY <1>1
<1>4. Remembered(m) = Remembered(w) \union {id}
  <2>1. ASSUME NEW x \in Remembered(m) PROVE x \in Remembered(w) \union {id}
    BY <1>1, <1>3 DEF Remembered
  <2>2. ASSUME NEW x \in Remembered(w) PROVE x \in Remembered(m)
    <3>1. PICK i \in 1..Len(w) : w[i] = x
      BY <2>2 DEF Remembered
    <3>2. i \in 1..Len(m) /\ m[i] = x
      BY <1>1, <1>3, <3>1
    <3> QED BY <3>2 DEF Remembered
  <2>3. id \in Remembered(m)
    <3>1. Len(m) \in 1..Len(m)
      BY <1>1, <1>3
    <3> QED BY <1>3, <3>1 DEF Remembered
  <2> QED BY <2>1, <2>2, <2>3
<1>5. id \in Remembered(known) => Len(known) \in Nat
  OBVIOUS
<1> HIDE DEF m
<1> QED BY <1>1, <1>2, <1>3, <1>4, <1>5

(* get changes the order of the keys, never which keys are remembered.     *)
LEMMA GetKeeps ==
    ASSUME NEW S, NEW known \in Seq(S), NEW id \in S
    PROVE  /\ Get(known, id) \in Seq(S)
           /\ Len(Get(known, id)) = Len(known)
           /\ Remembered(Get(known, id)) = Remembered(known)
<1>1. CASE id \in Remembered(known)
  <2>1. Get(known, id) = MoveToEnd(known, id)
    BY <1>1 DEF Get
  <2>2. /\ MoveToEnd(known, id) \in Seq(S)
        /\ Len(MoveToEnd(known, id)) = Len(known)
        /\ Remembered(MoveToEnd(known, id)) = Remembered(known) \union {id}
    BY <1>1, MoveToEndKeeps
  <2> QED BY <1>1, <2>1, <2>2
<1>2. CASE id \notin Remembered(known)
  BY <1>2 DEF Get
<1> QED BY <1>1, <1>2

(* put remembers the key, stays within the limit and invents no key.       *)
LEMMA PutKeeps ==
    ASSUME NEW S, NEW known \in Seq(S), NEW id \in S, NEW limit \in Nat \ {0}
    PROVE  /\ Put(known, id, limit) \in Seq(S)
           /\ Len(Put(known, id, limit)) <= limit
           /\ id \in Remembered(Put(known, id, limit))
           /\ Remembered(Put(known, id, limit)) \subseteq Remembered(known) \union {id}
<1> DEFINE m == MoveToEnd(known, id)
           n == Newest(m, limit)
<1>1. /\ m \in Seq(S)
      /\ Len(m) \in Nat
      /\ Len(m) > 0
      /\ m[Len(m)] = id
      /\ Remembered(m) = Remembered(known) \union {id}
  <2>1. id \in Remembered(known) => Len(known) > 0
    BY DEF Remembered
  <2>2. /\ m \in Seq(S)
        /\ Len(m) = IF id \in Remembered(known) THEN Len(known) ELSE Len(known) + 1
        /\ m[Len(m)] = id
        /\ Remembered(m) = Remembered(known) \union {id}
    BY MoveToEndKeeps
  <2> HIDE DEF m
  <2> QED BY <2>1, <2>2
<1>2. Put(known, id, limit) = n
  BY DEF Put
<1> HIDE DEF m
<1>3. /\ n \in Seq(S)
      /\ Len(n) <= limit
      /\ id \in Remembered(n)
      /\ Remembered(n) \subseteq Remembered(m)
  <2>1. CASE Len(m) <= limit
    <3>1. n = m
      BY <2>1 DEF Newest
    <3>2. id \in Remembered(m)
      BY <1>1
    <3> QED BY <1>1, <2>1, <3>1, <3>2
  <2>2. CASE Len(m) > limit
    <3>1. n = [i \in 1..limit |-> m[Len(m) - limit + i]]
      BY <1>1, <2>2 DEF Newest
    <3>2. \A i \in 1..limit : Len(m) - limit + i \in 1..Len(m)
      BY <1>1, <2>2
    <3> DEFINE s == [i \in 1..limit |-> m[Len(m) - limit + i]]
    <3> HIDE DEF n
    <3>3. n \in Seq(S) /\ Len(n) = limit
      <4>1. s \in [1..limit -> S]
        BY <1>1, <3>2
      <4>2. s \in Seq(S) /\ Len(s) = limit
        <5> HIDE DEF s
        <5> QED BY <4>1, IsSequence
      <4> HIDE DEF s
      <4>3. n = s
        BY <3>1 DEF s
      <4> QED BY <4>2, <4>3
    <3>4. n[limit] = id
      BY <1>1, <3>1
    <3>5. id \in Remembered(n)
      <4>1. limit \in 1..Len(n)
        BY <3>3
      <4> QED BY <3>4, <4>1 DEF Remembered
    <3>6. Remembered(n) \subseteq Remembered(m)
      BY <3>1, <3>2, <3>3 DEF Remembered
    <3> QED BY <3>3, <3>5, <3>6
  <2> QED BY <1>1, <2>1, <2>2
<1> QED BY <1>1, <1>2, <1>3

(* Which keys are remembered, and how many, when no key is there twice.      *)
NoKeyTwice(known) == \A i, j \in 1..Len(known) : known[i] = known[j] => i = j

\* A cache without repeated keys remembers as many as it is long.
LEMMA KeysAreCounted ==
    ASSUME NEW S, NEW known \in Seq(S), NoKeyTwice(known)
    PROVE  Cardinality(Remembered(known)) = Len(known)
<1>1. Len(known) \in Nat /\ \A i \in 1..Len(known) : known[i] \in Remembered(known)
  BY DEF Remembered
<1> DEFINE f == [i \in 1..Len(known) |-> known[i]]
<1>2. f \in [1..Len(known) -> Remembered(known)]
  BY <1>1
<1>3. f \in Injection(1..Len(known), Remembered(known))
  BY <1>2 DEF Injection, IsInjective, NoKeyTwice
<1>4. f \in Surjection(1..Len(known), Remembered(known))
  BY <1>2 DEF Surjection, Remembered
<1>5. ExistsBijection(1..Len(known), Remembered(known))
  BY <1>3, <1>4 DEF ExistsBijection, Bijection
<1> QED BY <1>1, <1>5, FS_CountingElements

(* Without leaves no key twice, and not the one it drops.                  *)
LEMMA WithoutRemoves ==
    ASSUME NEW S, NEW known \in Seq(S), NEW id, NoKeyTwice(known)
    PROVE  NoKeyTwice(Without(known, id)) /\ id \notin Remembered(Without(known, id))
<1> DEFINE w == Without(known, id)
<1>1. w \in Seq(S) /\ Len(w) \in Nat
  BY WithoutKeeps
<1>2. CASE id \notin Remembered(known)
  BY <1>2 DEF Without
<1>3. CASE id \in Remembered(known)
  <2> DEFINE k == Position(known, id)
             n == Len(known) - 1
             at == [i \in 1..n |-> IF i < k THEN i ELSE i + 1]
  <2>1. k \in 1..Len(known) /\ known[k] = id
    BY <1>3, PositionOfKey
  <2>2. w = [i \in 1..n |-> known[IF i < k THEN i ELSE i + 1]]
    BY <1>3 DEF Without
  <2>3. n \in Nat /\ Len(w) = n
    BY <1>3, <2>1, WithoutKeeps
  <2>4. /\ \A i \in 1..n : at[i] \in 1..Len(known) /\ at[i] # k
        /\ \A i, j \in 1..n : at[i] = at[j] => i = j
    BY <2>1, <2>3
  <2>5. \A i \in 1..n : w[i] = known[at[i]]
    BY <2>2
  <2> HIDE DEF w, k, n, at
  <2>6. NoKeyTwice(w)
    BY <2>3, <2>4, <2>5 DEF NoKeyTwice
  <2>7. \A i \in 1..n : w[i] # id
    BY <2>1, <2>4, <2>5 DEF NoKeyTwice
  <2>8. id \notin Remembered(w)
    BY <2>3, <2>7 DEF Remembered
  <2> QED BY <2>6, <2>8 DEF w
<1> QED BY <1>2, <1>3

(* Appending remembers one key more.                                       *)
LEMMA AppendRemembers ==
    ASSUME NEW S, NEW known \in Seq(S), NEW id \in S
    PROVE  Remembered(Append(known, id)) = Remembered(known) \union {id}
<1> DEFINE m == Append(known, id)
<1>1. /\ m \in Seq(S) /\ Len(known) \in Nat /\ Len(m) = Len(known) + 1
      /\ m[Len(known) + 1] = id
      /\ \A i \in 1..Len(known) : m[i] = known[i]
  OBVIOUS
<1> HIDE DEF m
<1>2. ASSUME NEW x \in Remembered(m) PROVE x \in Remembered(known) \union {id}
  BY <1>1, <1>2 DEF Remembered
<1>3. ASSUME NEW x \in Remembered(known) PROVE x \in Remembered(m)
  <2>1. PICK i \in 1..Len(known) : known[i] = x
    BY <1>3 DEF Remembered
  <2>2. i \in 1..Len(m) /\ m[i] = x
    BY <1>1, <2>1
  <2> QED BY <2>2 DEF Remembered
<1>4. id \in Remembered(m)
  <2>1. Len(known) + 1 \in 1..Len(m)
    BY <1>1
  <2> QED BY <1>1, <2>1 DEF Remembered
<1>5. Remembered(m) = Remembered(known) \union {id}
  BY <1>2, <1>3, <1>4
<1> QED BY <1>5 DEF m

(* Taking the first of a queue takes that one and no other.                *)
LEMMA TailRemembers ==
    ASSUME NEW S, NEW queue \in Seq(S), queue # <<>>
    PROVE  Remembered(queue) \subseteq Remembered(Tail(queue)) \union {Head(queue)}
<1>1. /\ Len(queue) \in Nat /\ Len(Tail(queue)) = Len(queue) - 1 /\ Head(queue) = queue[1]
      /\ \A i \in 1..Len(Tail(queue)) : Tail(queue)[i] = queue[i + 1]
  OBVIOUS
<1>2. SUFFICES ASSUME NEW i \in 1..Len(queue), i # 1
               PROVE  queue[i] \in Remembered(Tail(queue))
  BY <1>1 DEF Remembered
<1>3. i - 1 \in 1..Len(Tail(queue)) /\ Tail(queue)[i - 1] = queue[i]
  BY <1>1, <1>2
<1> QED BY <1>3 DEF Remembered

(* A key that is appended to those it is not among is there once.          *)
LEMMA AppendedOnce ==
    ASSUME NEW S, NEW w \in Seq(S), NEW id \in S, NoKeyTwice(w), id \notin Remembered(w)
    PROVE  NoKeyTwice(Append(w, id))
<1> DEFINE m == Append(w, id)
<1>1. /\ Len(w) \in Nat /\ Len(m) = Len(w) + 1 /\ m[Len(w) + 1] = id
      /\ \A i \in 1..Len(w) : m[i] = w[i] /\ w[i] # id
  BY DEF Remembered
<1> HIDE DEF m
<1>2. \A i \in 1..Len(m) : i \in 1..Len(w) \/ i = Len(w) + 1
  BY <1>1
<1>3. NoKeyTwice(m)
  BY <1>1, <1>2 DEF NoKeyTwice
<1> QED BY <1>3 DEF m

(* Moving a key to the end makes no second one of it.                      *)
LEMMA MovedOnce ==
    ASSUME NEW S, NEW known \in Seq(S), NEW id \in S, NoKeyTwice(known)
    PROVE  NoKeyTwice(MoveToEnd(known, id))
<1> DEFINE w == Without(known, id)
<1>1. w \in Seq(S) /\ NoKeyTwice(w) /\ id \notin Remembered(w)
  BY WithoutKeeps, WithoutRemoves
<1>2. MoveToEnd(known, id) = Append(w, id)
  BY DEF MoveToEnd
<1> HIDE DEF w
<1> QED BY <1>1, <1>2, AppendedOnce

(* put forgets one key and no more, and only to make room for a new one.   *)
LEMMA PutMakesRoom ==
    ASSUME NEW S, NEW known \in Seq(S), NEW id \in S, NEW limit \in Nat \ {0},
           NoKeyTwice(known), Len(known) <= limit
    PROVE  /\ NoKeyTwice(Put(known, id, limit))
           /\ \/ /\ id \in Remembered(known) \/ Len(known) < limit
                 /\ Remembered(Put(known, id, limit)) = Remembered(known) \union {id}
              \/ /\ id \notin Remembered(known) /\ Len(known) = limit
                 /\ \E old \in Remembered(known) :
                       Remembered(Put(known, id, limit)) = (Remembered(known) \ {old}) \union {id}
<1> DEFINE m == MoveToEnd(known, id)
<1>1. /\ m \in Seq(S) /\ Len(m) \in Nat /\ Len(known) \in Nat /\ NoKeyTwice(m)
      /\ Len(m) = IF id \in Remembered(known) THEN Len(known) ELSE Len(known) + 1
      /\ Remembered(m) = Remembered(known) \union {id}
  <2>1. NoKeyTwice(m)
    BY MovedOnce
  <2>2. /\ m \in Seq(S)
        /\ Len(m) = IF id \in Remembered(known) THEN Len(known) ELSE Len(known) + 1
        /\ Remembered(m) = Remembered(known) \union {id}
    BY MoveToEndKeeps
  <2> HIDE DEF m
  <2> QED BY <2>1, <2>2
<1>2. CASE id \in Remembered(known) \/ Len(known) < limit
  <2>1. Len(m) <= limit
    BY <1>1, <1>2
  <2>2. Put(known, id, limit) = m
    BY <2>1 DEF Put, Newest
  <2> QED BY <1>1, <1>2, <2>2
<1>3. CASE id \notin Remembered(known) /\ ~(Len(known) < limit)
  <2>1. Len(known) = limit /\ m = Append(known, id) /\ Len(m) = limit + 1
    BY <1>1, <1>3 DEF MoveToEnd, Without
  <2>2. m[limit + 1] = id /\ \A i \in 1..limit : m[i] = known[i]
    BY <2>1
  <2> DEFINE n == [i \in 1..limit |-> m[Len(m) - limit + i]]
  <2>3. Put(known, id, limit) = n
    BY <1>1, <2>1 DEF Put, Newest
  <2>4. \A i \in 1..limit : n[i] = m[i + 1]
    <3>1. \A i \in 1..limit : Len(m) - limit + i = i + 1
      BY <2>1
    <3> QED BY <3>1
  <2>5. Len(n) = limit
    OBVIOUS
  <2> HIDE DEF n, m
  <2>6. \A i \in 1..limit : i + 1 \in 1..Len(m)
    BY <2>1
  <2>7. NoKeyTwice(n)
    BY <1>1, <2>4, <2>5, <2>6 DEF NoKeyTwice
  <2>8. known[1] \in Remembered(known)
    BY <2>1 DEF Remembered
  <2>9. ASSUME NEW x \in Remembered(n) PROVE x \in (Remembered(known) \ {known[1]}) \union {id}
    <3>1. PICK i \in 1..limit : x = m[i + 1]
      BY <2>4, <2>5 DEF Remembered
    <3>2. CASE i = limit
      BY <2>2, <3>1, <3>2
    <3>3. CASE i < limit
      <4>1. i + 1 \in 1..limit /\ i + 1 # 1 /\ 1 \in 1..limit
        BY <3>3
      <4>2. x = known[i + 1] /\ x # known[1]
        BY <2>1, <2>2, <3>1, <4>1 DEF NoKeyTwice
      <4> QED BY <2>1, <4>1, <4>2 DEF Remembered
    <3> QED BY <3>2, <3>3
  <2>10. ASSUME NEW x \in Remembered(known), x # known[1] PROVE x \in Remembered(n)
    <3>1. PICK i \in 1..limit : x = known[i]
      BY <2>1 DEF Remembered
    <3>2. i # 1 /\ i - 1 \in 1..limit /\ (i - 1) + 1 = i
      BY <2>10, <3>1
    <3>3. n[i - 1] = x
      BY <2>2, <2>4, <3>1, <3>2
    <3> QED BY <2>5, <3>2, <3>3 DEF Remembered
  <2>11. id \in Remembered(n)
    BY <2>2, <2>4, <2>5 DEF Remembered
  <2>12. Remembered(n) = (Remembered(known) \ {known[1]}) \union {id}
    BY <2>9, <2>10, <2>11
  <2> QED BY <1>3, <2>1, <2>3, <2>7, <2>8, <2>12
<1> QED BY <1>2, <1>3

-----------------------------------------------------------------------------
(* The invariant *)

(* What a handler awaits on behalf of which command.                       *)
HandlersServe ==
    \A c \in Conns :
        /\ handler[c].pc \in {"sending", "sent"} =>
              handler[c].id \in InputIds /\ handler[c].prompt \in 1..MaxPrompts
        /\ handler[c].pc = "interrupting" => handler[c].id \in InterruptIds

(* Where the evidence of a dispatch is at each point of a command's life:  *)
(* its task runs, or its answer is remembered, or the cache has dropped    *)
(* it; and a task that is yet to start has no remembered answer, since     *)
(* nothing was answered while the gate was taken for it.                   *)
Ledger ==
    \A id \in WorkIds :
        /\ task[id] = "scheduled" => id \notin Remembered(cache)
        /\ task[id] = "answered" => id \in Remembered(cache) \union evicted
        /\ runs[id] > 0 => task[id] = "running" \/ id \in Remembered(cache) \union evicted
        /\ runs[id] > 1 => id \in evicted

(* Where a prompt that has no reply yet can be: on offer, or in the hands  *)
(* of one handler that is sending a reply to it, never both.               *)
PromptsKept ==
    /\ prompt <= raised
    /\ prompt # 0 => replies[prompt] = 0
    /\ \A n \in 1..MaxPrompts : replies[n] <= 1 /\ (n > raised => replies[n] = 0)
    /\ \A c \in Conns : handler[c].pc = "sending" =>
          /\ handler[c].prompt <= raised
          /\ handler[c].prompt # prompt
          /\ replies[handler[c].prompt] = 0
    /\ \A c, d \in Conns :
          c # d /\ handler[c].pc = "sending" /\ handler[d].pc = "sending"
              => handler[c].prompt # handler[d].prompt

IInv == TypeOK /\ HandlersServe /\ GateHolds /\ Ledger /\ PromptsKept

-----------------------------------------------------------------------------
(* What storing an answer does to the cache and to the ids it has dropped. *)
LEMMA StoreAnswerKeeps ==
    ASSUME NEW id \in Ids, cache \in Seq(Ids), evicted \subseteq Ids, StoreAnswer(id)
    PROVE  /\ cache' \in Seq(Ids) /\ Len(cache') <= CacheLimit
           /\ evicted \subseteq evicted' /\ evicted' \subseteq Ids
           /\ id \in Remembered(cache)'
           /\ Remembered(cache)' \subseteq Remembered(cache) \union {id}
           /\ Remembered(cache) \subseteq Remembered(cache)' \union evicted'
<1>1. CacheLimit \in Nat \ {0}
  BY CommandGateAssumption
<1>2. cache' = Put(cache, id, CacheLimit)
  BY DEF StoreAnswer
<1>3. evicted' = evicted \union (Remembered(cache) \ Remembered(cache'))
  BY <1>2 DEF StoreAnswer, DroppedBy
<1>4. Remembered(cache) \subseteq Ids
  BY RememberedInS
<1>5. Remembered(cache)' = Remembered(cache')
  BY DEF Remembered
<1>6. /\ cache' \in Seq(Ids)
      /\ Len(cache') <= CacheLimit
      /\ id \in Remembered(cache')
      /\ Remembered(cache') \subseteq Remembered(cache) \union {id}
  BY <1>1, <1>2, PutKeeps
<1> QED BY <1>3, <1>4, <1>5, <1>6

(* A hit refreshes a key of the cache and keeps all of them.               *)
LEMMA HitKeeps ==
    ASSUME NEW id \in Ids, cache \in Seq(Ids), Len(cache) <= CacheLimit,
           cache' = Get(cache, id)
    PROVE  /\ cache' \in Seq(Ids) /\ Len(cache') <= CacheLimit
           /\ Remembered(cache)' = Remembered(cache)
<1>1. Remembered(cache)' = Remembered(cache')
  BY DEF Remembered
<1>2. /\ Get(cache, id) \in Seq(Ids)
      /\ Len(Get(cache, id)) = Len(cache)
      /\ Remembered(Get(cache, id)) = Remembered(cache)
  BY GetKeeps
<1> QED BY <1>1, <1>2

(* An announcement reaches the pages with ids only.                        *)
LEMMA AnnounceTyped ==
    ASSUME NEW id \in Ids, outbox \in [Conns -> SUBSET Ids], Announce(id)
    PROVE  outbox' \in [Conns -> SUBSET Ids]
<1>1. \A c \in Conns : outbox[c] \union {id} \in SUBSET Ids
  OBVIOUS
<1> QED BY <1>1 DEF Announce

(* A function keeps its type when one value changes.                       *)
LEMMA ExceptTyped ==
    ASSUME NEW D, NEW R, NEW f \in [D -> R], NEW d, NEW v \in R
    PROVE  [f EXCEPT ![d] = v] \in [D -> R]
  OBVIOUS

(* The bounds, as the provers need them.                                   *)
LEMMA Bounds ==
    /\ CacheLimit \in Nat \ {0} /\ MaxPrompts \in Nat /\ MaxDrops \in Nat
    /\ NoId \notin Ids
    /\ WorkIds \subseteq Ids /\ InputIds \subseteq Ids /\ InterruptIds \subseteq Ids
    /\ WorkIds \intersect InputIds = {} /\ WorkIds \intersect InterruptIds = {}
    /\ InputIds \intersect InterruptIds = {}
  BY CommandGateAssumption DEF Ids

-----------------------------------------------------------------------------
(* The types hold at the start.                                            *)
LEMMA TypeInit == Init => TypeOK
<1> SUFFICES ASSUME Init PROVE TypeOK
  OBVIOUS
<1>1. /\ waiting \in [Pages -> Seq(Ids)]
      /\ inbox \in [Conns -> Seq(Ids)]
      /\ cache \in Seq(Ids) /\ Len(cache) = 0
  BY DEF Init
<1>2. handler \in [Conns -> [pc : {"idle", "sending", "sent", "interrupting"},
                             id : Ids \union {NoId}, prompt : 0..MaxPrompts]]
  BY Bounds DEF Init, Idle
<1>3. /\ outbox \in [Conns -> SUBSET Ids]
      /\ task \in [WorkIds -> {"none", "scheduled", "running", "answered"}]
  BY DEF Init
<1>4. /\ replies \in [1..MaxPrompts -> 0..2]
      /\ runs \in [WorkIds -> 0..2]
      /\ phase \in [Conns -> {"free", "open", "closing"}]
      /\ owner \in [Conns -> Pages \union {NoPage}]
  BY DEF Init
<1>5. /\ sent \subseteq Ids /\ inflight \subseteq WorkIds /\ evicted \subseteq Ids
      /\ refused \subseteq Ids /\ busy \in BOOLEAN /\ blocked \in BOOLEAN
  BY DEF Init
<1>6. /\ prompt \in 0..MaxPrompts /\ raised \in 0..MaxPrompts /\ drops \in 0..MaxDrops
      /\ 0 <= CacheLimit
  BY Bounds, SMT DEF Init
<1> QED BY <1>1, <1>2, <1>3, <1>4, <1>5, <1>6 DEF TypeOK

(* Every step keeps the types; a handler that finishes stores the id of an *)
(* input or an interrupt, and prompts in its care exist.                   *)
LEMMA TypeStep ==
    ASSUME TypeOK, HandlersServe, [Next]_vars
    PROVE  TypeOK'
<1> USE Bounds
<1> USE DEF connVars, pageVars, gateVars, cacheVars, promptVars
<1>1. ASSUME NEW p \in Pages, NEW id \in Ids, Send(p, id) PROVE TypeOK'
  BY <1>1 DEF TypeOK, Send
<1>2. ASSUME NEW p \in Pages, NEW c \in Conns, Connect(p, c) PROVE TypeOK'
  BY <1>2 DEF TypeOK, Connect, Resent
<1>3. ASSUME NEW c \in Conns, Drop(c) PROVE TypeOK'
  BY <1>3 DEF TypeOK, Drop, Lose
<1>4. ASSUME NEW c \in Conns, Reload(c) PROVE TypeOK'
  <2>1. waiting' \in [Pages -> Seq(Ids)]
    <3>1. <<>> \in Seq(Ids)
      OBVIOUS
    <3>2. waiting \in [Pages -> Seq(Ids)] /\ waiting' = [waiting EXCEPT ![owner[c]] = <<>>]
      BY <1>4 DEF TypeOK, Reload
    <3> QED BY <3>1, <3>2, ExceptTyped
  <2> QED BY <1>4, <2>1 DEF TypeOK, Reload, Lose
<1>5. ASSUME NEW c \in Conns, Deliver(c) PROVE TypeOK'
  <2>1. PICK id \in outbox[c] : waiting' = [waiting EXCEPT ![owner[c]] = Without(@, id)]
    BY <1>5 DEF Deliver
  <2>2. \A p \in Pages : Without(waiting[p], id) \in Seq(Ids)
    BY WithoutKeeps DEF TypeOK
  <2>3. waiting' \in [Pages -> Seq(Ids)]
    BY <2>1, <2>2 DEF TypeOK
  <2> QED BY <1>5, <2>3 DEF TypeOK, Deliver
<1>6. ASSUME NEW c \in Conns, HandlerExits(c) PROVE TypeOK'
  BY <1>6 DEF TypeOK, HandlerExits
<1>7. ASSUME NEW c \in Conns, NEW id \in Ids, ReplayAnswer(c, id) PROVE TypeOK'
  BY <1>7, HitKeeps DEF TypeOK, ReplayAnswer, Takes
<1>8. ASSUME NEW c \in Conns, NEW id \in Ids, Admit(c, id) PROVE TypeOK'
  BY <1>8 DEF TypeOK, Admit, Takes
<1>9. ASSUME NEW c \in Conns, NEW id \in Ids, TurnAway(c, id) PROVE TypeOK'
  BY <1>9 DEF TypeOK, TurnAway, Takes
<1>10. ASSUME NEW c \in Conns, NEW id \in Ids, ClaimPrompt(c, id) PROVE TypeOK'
  BY <1>10 DEF TypeOK, ClaimPrompt, Takes
<1>11. ASSUME NEW c \in Conns, NEW id \in Ids, NoPromptToClaim(c, id) PROVE TypeOK'
  BY <1>11 DEF TypeOK, NoPromptToClaim, Takes
<1>12. ASSUME NEW c \in Conns, NEW id \in Ids, BeginInterrupt(c, id) PROVE TypeOK'
  BY <1>12 DEF TypeOK, BeginInterrupt, Takes
<1>13. ASSUME NEW c \in Conns, ReplySent(c) PROVE TypeOK'
  <2>1. handler[c].id \in InputIds /\ handler[c].prompt \in 1..MaxPrompts
    BY <1>13 DEF HandlersServe, ReplySent
  <2>2. replies' \in [1..MaxPrompts -> 0..2]
    <3> DEFINE n == handler[c].prompt
    <3>1. replies \in [1..MaxPrompts -> 0..2] /\ replies' = [replies EXCEPT ![n] = UpTo2(@)]
      BY <1>13 DEF TypeOK, ReplySent
    <3>2. UpTo2(replies[n]) \in 0..2
      BY <2>1, <3>1 DEF UpTo2
    <3> QED BY <3>1, <3>2, ExceptTyped
  <2>3. handler' \in [Conns -> [pc : {"idle", "sending", "sent", "interrupting"},
                                id : Ids \union {NoId}, prompt : 0..MaxPrompts]]
    <3> DEFINE Handler == [pc : {"idle", "sending", "sent", "interrupting"},
                           id : Ids \union {NoId}, prompt : 0..MaxPrompts]
               next == [handler[c] EXCEPT !.pc = "sent"]
    <3>1. handler \in [Conns -> Handler] /\ handler' = [handler EXCEPT ![c] = next]
      BY <1>13 DEF TypeOK, ReplySent
    <3>2. next \in Handler
      BY <3>1
    <3> HIDE DEF Handler, next
    <3>3. handler' \in [Conns -> Handler]
      BY <3>1, <3>2, ExceptTyped
    <3> QED BY <3>3 DEF Handler
  <2> QED BY <1>13, <2>2, <2>3 DEF TypeOK, ReplySent
<1>14. ASSUME NEW c \in Conns, ReplyFails(c) PROVE TypeOK'
  BY <1>14 DEF TypeOK, HandlersServe, ReplyFails, Idle
<1>15. ASSUME NEW c \in Conns, InputDone(c) PROVE TypeOK'
  BY <1>15, StoreAnswerKeeps DEF TypeOK, HandlersServe, InputDone, Announce, Idle
<1>16. ASSUME NEW c \in Conns, InterruptDone(c) PROVE TypeOK'
  BY <1>16, StoreAnswerKeeps DEF TypeOK, HandlersServe, InterruptDone, Announce, Idle
<1>17. ASSUME NEW c \in Conns, InterruptFails(c) PROVE TypeOK'
  BY <1>17 DEF TypeOK, HandlersServe, InterruptFails, Idle
<1>18. ASSUME NEW id \in WorkIds, Start(id) PROVE TypeOK'
  <2>1. cache' \in Seq(Ids) /\ Len(cache') <= CacheLimit
    BY <1>18, HitKeeps DEF TypeOK, Start
  <2>2. outbox' \in [Conns -> SUBSET Ids]
    BY <1>18, AnnounceTyped DEF TypeOK, Start
  <2>3. runs' \in [WorkIds -> 0..2]
    <3>1. runs \in [WorkIds -> 0..2] /\ runs' \in {runs, [runs EXCEPT ![id] = UpTo2(@)]}
      BY <1>18 DEF TypeOK, Start
    <3>2. UpTo2(runs[id]) \in 0..2
      BY <3>1 DEF UpTo2
    <3> QED BY <3>1, <3>2, ExceptTyped
  <2>4. task' \in [WorkIds -> {"none", "scheduled", "running", "answered"}]
    BY <1>18 DEF TypeOK, Start
  <2>5. inflight' \subseteq WorkIds /\ busy' \in BOOLEAN
    <3>1. inflight' \in {inflight, inflight \union {id}}
      BY <1>18 DEF Start
    <3>2. busy' = busy \/ busy' = TRUE
      BY <1>18, Zenon DEF Start
    <3>3. inflight' \subseteq WorkIds
      BY <3>1 DEF TypeOK
    <3>4. busy' \in BOOLEAN
      BY <3>2, Zenon DEF TypeOK
    <3> QED BY <3>3, <3>4
  <2>6. UNCHANGED <<sent, waiting, phase, owner, inbox, handler, prompt, raised, blocked,
                    evicted, replies, refused, drops>>
    BY <1>18 DEF Start
  <2> QED BY <2>1, <2>2, <2>3, <2>4, <2>5, <2>6 DEF TypeOK
<1>19. ASSUME NEW id \in WorkIds, Answer(id) PROVE TypeOK'
  <2>1. cache' \in Seq(Ids) /\ Len(cache') <= CacheLimit /\ evicted' \subseteq Ids
    BY <1>19, StoreAnswerKeeps DEF TypeOK, Answer
  <2>2. outbox' \in [Conns -> SUBSET Ids]
    BY <1>19, AnnounceTyped DEF TypeOK, Answer
  <2>3. task' \in [WorkIds -> {"none", "scheduled", "running", "answered"}]
    BY <1>19 DEF TypeOK, Answer
  <2>4. prompt' \in 0..MaxPrompts /\ blocked' \in BOOLEAN
    <3>1. prompt' \in {0, prompt}
      BY <1>19 DEF Answer
    <3>2. blocked' = FALSE
      BY <1>19 DEF Answer
    <3>3. 0 \in 0..MaxPrompts /\ prompt \in 0..MaxPrompts
      BY DEF TypeOK
    <3> QED BY <3>1, <3>2, <3>3, Zenon
  <2>5. UNCHANGED <<sent, waiting, phase, owner, inbox, handler, busy, inflight, runs, raised,
                    replies, refused, drops>>
    BY <1>19 DEF Answer
  <2> QED BY <2>1, <2>2, <2>3, <2>4, <2>5 DEF TypeOK
<1>20. ASSUME NEW id \in WorkIds, Finish(id) PROVE TypeOK'
  BY <1>20 DEF TypeOK, Finish
<1>21. ASSUME NEW id \in WorkIds, AskForInput(id) PROVE TypeOK'
  BY <1>21 DEF TypeOK, AskForInput
<1>22. CASE UNCHANGED vars
  BY <1>22 DEF TypeOK, vars
<1> QED
  BY <1>1, <1>2, <1>3, <1>4, <1>5, <1>6, <1>7, <1>8, <1>9, <1>10, <1>11, <1>12, <1>13,
     <1>14, <1>15, <1>16, <1>17, <1>18, <1>19, <1>20, <1>21, <1>22
     DEF Next, PageStep, Receive, Continue, TaskStep

-----------------------------------------------------------------------------
(* No handler awaits anything at the start.                                *)
LEMMA HandlersInit == Init => HandlersServe
  BY DEF Init, HandlersServe, Idle

(* Handlers are set to work by ClaimPrompt and BeginInterrupt only.        *)
LEMMA HandlersStep ==
    ASSUME TypeOK, HandlersServe, [Next]_vars
    PROVE  HandlersServe'
<1> USE Bounds
<1> USE DEF connVars, pageVars, gateVars, cacheVars, promptVars, TypeOK, HandlersServe
<1>1. ASSUME NEW c \in Conns, NEW id \in Ids, ClaimPrompt(c, id) PROVE HandlersServe'
  BY <1>1 DEF ClaimPrompt
<1>2. ASSUME NEW c \in Conns, NEW id \in Ids, BeginInterrupt(c, id) PROVE HandlersServe'
  BY <1>2 DEF BeginInterrupt
<1>3. ASSUME NEW c \in Conns, ReplySent(c) PROVE HandlersServe'
  BY <1>3 DEF ReplySent
<1>4. ASSUME NEW c \in Conns, handler' = [handler EXCEPT ![c] = Idle] PROVE HandlersServe'
  BY <1>4 DEF Idle
<1>5. ASSUME UNCHANGED handler PROVE HandlersServe'
  BY <1>5
<1>6. CASE PageStep
  BY <1>5, <1>6 DEF PageStep, Send, Connect, Drop, Reload, Lose, Deliver
<1>7. ASSUME NEW c \in Conns, Receive(c) PROVE HandlersServe'
  BY <1>1, <1>2, <1>5, <1>7 DEF Receive, ReplayAnswer, Admit, TurnAway, NoPromptToClaim
<1>8. ASSUME NEW c \in Conns, Continue(c) PROVE HandlersServe'
  BY <1>3, <1>4, <1>8 DEF Continue, ReplyFails, InputDone, InterruptDone, InterruptFails
<1>9. ASSUME NEW c \in Conns, HandlerExits(c) PROVE HandlersServe'
  BY <1>5, <1>9 DEF HandlerExits
<1>10. ASSUME NEW id \in WorkIds, TaskStep(id) \/ AskForInput(id) PROVE HandlersServe'
  BY <1>5, <1>10 DEF TaskStep, Start, Answer, Finish, AskForInput
<1>11. CASE UNCHANGED vars
  BY <1>5, <1>11 DEF vars
<1> QED BY <1>6, <1>7, <1>8, <1>9, <1>10, <1>11 DEF Next

-----------------------------------------------------------------------------
(* The gate is free at the start.                                          *)
LEMMA GateInit == Init => GateHolds
  BY DEF Init, GateHolds, AtWork

(* Only Admit, Start, Answer and Finish touch the gate; Start takes none   *)
(* of its early returns, by the ledger and the gate itself.                *)
LEMMA GateStep ==
    ASSUME TypeOK, GateHolds, Ledger, [Next]_vars
    PROVE  GateHolds'
<1> USE DEF connVars, pageVars, gateVars, cacheVars, promptVars, GateHolds, AtWork
<1>1. ASSUME NEW c \in Conns, NEW id \in Ids, Admit(c, id) PROVE GateHolds'
  BY <1>1 DEF TypeOK, Admit, GateTaken
<1>2. ASSUME NEW id \in WorkIds, Start(id) PROVE GateHolds'
  <2>1. id \notin inflight /\ NewTo(id)
    BY <1>2 DEF Start, Ledger, NewTo
  <2>2. /\ task[id] = "scheduled" /\ task' = [task EXCEPT ![id] = "running"]
        /\ inflight' = inflight \union {id} /\ busy' = TRUE
    BY <1>2, <2>1 DEF Start
  <2> QED BY <2>2 DEF TypeOK
<1>3. ASSUME NEW id \in WorkIds, Answer(id) PROVE GateHolds'
  BY <1>3 DEF TypeOK, Answer
<1>4. ASSUME NEW id \in WorkIds, Finish(id) PROVE GateHolds'
  BY <1>4 DEF TypeOK, Finish
<1>5. ASSUME UNCHANGED gateVars PROVE GateHolds'
  BY <1>5
<1>6. CASE PageStep
  BY <1>5, <1>6 DEF PageStep, Send, Connect, Drop, Reload, Lose, Deliver
<1>7. ASSUME NEW c \in Conns, Receive(c) PROVE GateHolds'
  BY <1>1, <1>5, <1>7
     DEF Receive, ReplayAnswer, TurnAway, ClaimPrompt, NoPromptToClaim, BeginInterrupt
<1>8. ASSUME NEW c \in Conns, Continue(c) \/ HandlerExits(c) PROVE GateHolds'
  BY <1>5, <1>8
     DEF Continue, ReplySent, ReplyFails, InputDone, InterruptDone, InterruptFails, HandlerExits
<1>9. ASSUME NEW id \in WorkIds, AskForInput(id) PROVE GateHolds'
  BY <1>5, <1>9 DEF AskForInput
<1>10. CASE UNCHANGED vars
  BY <1>5, <1>10 DEF vars
<1> QED BY <1>2, <1>3, <1>4, <1>6, <1>7, <1>8, <1>9, <1>10 DEF Next, TaskStep

-----------------------------------------------------------------------------
(* Nothing is dispatched at the start.                                     *)
LEMMA LedgerInit == Init => Ledger
  BY DEF Init, Ledger

(* Answering one command leaves the ledger of the others as it is: only    *)
(* the id that is answered enters the cache, and what leaves the cache is  *)
(* counted as dropped.                                                     *)
LEMMA LedgerKeptByAnswer ==
    ASSUME TypeOK, Ledger, NEW x \in Ids, StoreAnswer(x), UNCHANGED runs,
           task' \in [WorkIds -> {"none", "scheduled", "running", "answered"}],
           \A id \in WorkIds \ {x} : task'[id] = task[id],
           x \in WorkIds => task[x] = "running" /\ task'[x] = "answered"
                            /\ (runs[x] > 1 => x \in evicted)
    PROVE  Ledger'
<1>1. /\ evicted \subseteq evicted' /\ x \in Remembered(cache)'
      /\ Remembered(cache)' \subseteq Remembered(cache) \union {x}
      /\ Remembered(cache) \subseteq Remembered(cache)' \union evicted'
  BY StoreAnswerKeeps DEF TypeOK
<1>2. ASSUME NEW id \in WorkIds
      PROVE  /\ task'[id] = "scheduled" => id \notin Remembered(cache)'
             /\ task'[id] = "answered" => id \in Remembered(cache)' \union evicted'
             /\ runs[id] > 0 => task'[id] = "running" \/ id \in Remembered(cache)' \union evicted'
             /\ runs[id] > 1 => id \in evicted'
  <2>1. /\ task[id] = "scheduled" => id \notin Remembered(cache)
        /\ task[id] = "answered" => id \in Remembered(cache) \union evicted
        /\ runs[id] > 0 => task[id] = "running" \/ id \in Remembered(cache) \union evicted
        /\ runs[id] > 1 => id \in evicted
    BY DEF Ledger
  <2>2. CASE id = x
    BY <1>1, <2>1, <2>2
  <2>3. CASE id # x
    <3>1. task'[id] = task[id]
      BY <2>3
    <3> QED BY <1>1, <2>1, <2>3, <3>1
  <2> QED BY <2>2, <2>3
<1> QED BY <1>2 DEF Ledger

(* Every step keeps the ledger.                                            *)
LEMMA LedgerStep ==
    ASSUME TypeOK, TypeOK', HandlersServe, GateHolds, Ledger, [Next]_vars
    PROVE  Ledger'
<1> USE Bounds
<1> USE DEF connVars, pageVars, gateVars, cacheVars, promptVars
<1> DEFINE Same == Remembered(cache)' = Remembered(cache) /\ UNCHANGED evicted
<1>1. ASSUME UNCHANGED <<task, runs>>, Same PROVE Ledger'
  BY <1>1 DEF Ledger
<1>2. ASSUME UNCHANGED cacheVars PROVE Same
  BY <1>2 DEF Remembered
<1>3. ASSUME NEW c \in Conns, NEW id \in Ids, ReplayAnswer(c, id) PROVE Ledger'
  <2>1. Same
    BY <1>3, HitKeeps DEF ReplayAnswer, TypeOK
  <2> QED BY <1>1, <1>3, <2>1 DEF ReplayAnswer
<1>4. ASSUME NEW c \in Conns, NEW id \in Ids, Admit(c, id) PROVE Ledger'
  <2>1. /\ Same /\ UNCHANGED runs
        /\ id \in WorkIds /\ id \notin Remembered(cache)
        /\ task' = [task EXCEPT ![id] = "scheduled"]
    BY <1>2, <1>4 DEF Admit, NewTo
  <2>2. \A i \in WorkIds : task[i] \notin {"running", "answered", "scheduled"}
    BY <1>4 DEF Admit, GateTaken, GateHolds, AtWork
  <2> QED BY <2>1, <2>2 DEF Ledger, TypeOK
<1>5. ASSUME NEW id \in WorkIds, Start(id) PROVE Ledger'
  <2>1. id \notin inflight /\ NewTo(id) /\ task[id] = "scheduled"
    BY <1>5 DEF Start, Ledger, GateHolds, NewTo
  <2>2. /\ Same /\ task' = [task EXCEPT ![id] = "running"]
        /\ runs' = [runs EXCEPT ![id] = UpTo2(@)]
    BY <1>2, <1>5, <2>1 DEF Start
  <2>3. runs[id] > 0 => id \in evicted
    BY <2>1 DEF Ledger, NewTo
  <2>4. runs'[id] > 1 => runs[id] > 0
    <3>1. runs[id] \in 0..2 /\ runs'[id] = UpTo2(runs[id])
      BY <2>2 DEF TypeOK
    <3> QED BY <3>1 DEF UpTo2
  <2> HIDE DEF Same
  <2>5. ASSUME NEW i \in WorkIds, i # id
        PROVE  task'[i] = task[i] /\ runs'[i] = runs[i]
    BY <2>2, <2>5 DEF TypeOK
  <2>6. task'[id] = "running"
    BY <2>2 DEF TypeOK
  <2> QED BY <2>2, <2>3, <2>4, <2>5, <2>6 DEF Ledger, Same
<1>6. ASSUME NEW id \in WorkIds, Answer(id) PROVE Ledger'
  <2>1. /\ StoreAnswer(id) /\ task[id] = "running" /\ task' = [task EXCEPT ![id] = "answered"]
        /\ UNCHANGED runs
    BY <1>6 DEF Answer
  <2>2. runs[id] > 1 => id \in evicted
    BY DEF Ledger
  <2>3. /\ task' \in [WorkIds -> {"none", "scheduled", "running", "answered"}]
        /\ task'[id] = "answered"
        /\ \A i \in WorkIds \ {id} : task'[i] = task[i]
    BY <2>1 DEF TypeOK
  <2> QED BY <2>1, <2>2, <2>3, LedgerKeptByAnswer
<1>7. ASSUME NEW id \in WorkIds, Finish(id) PROVE Ledger'
  <2>1. Same /\ UNCHANGED runs /\ task[id] = "answered" /\ task' = [task EXCEPT ![id] = "none"]
    BY <1>2, <1>7 DEF Finish
  <2> QED BY <2>1 DEF Ledger, TypeOK
<1>8. ASSUME NEW x \in InputIds \union InterruptIds, StoreAnswer(x), UNCHANGED <<task, runs>>
      PROVE  Ledger'
  <2>1. x \in Ids /\ x \notin WorkIds
    BY <1>8
  <2>2. task' \in [WorkIds -> {"none", "scheduled", "running", "answered"}]
    BY <1>8 DEF TypeOK
  <2> QED BY <1>8, <2>1, <2>2, LedgerKeptByAnswer
<1>9. ASSUME NEW c \in Conns, Continue(c) PROVE Ledger'
  <2>1. CASE ReplySent(c) \/ ReplyFails(c) \/ InterruptFails(c)
    BY <1>1, <1>2, <2>1 DEF ReplySent, ReplyFails, InterruptFails
  <2>2. CASE InputDone(c)
    BY <1>8, <2>2 DEF InputDone, HandlersServe
  <2>3. CASE InterruptDone(c)
    BY <1>8, <2>3 DEF InterruptDone, HandlersServe
  <2> QED BY <1>9, <2>1, <2>2, <2>3 DEF Continue
<1>10. CASE PageStep
  BY <1>1, <1>2, <1>10 DEF PageStep, Send, Connect, Drop, Reload, Lose, Deliver
<1>11. ASSUME NEW c \in Conns, Receive(c) PROVE Ledger'
  BY <1>1, <1>2, <1>3, <1>4, <1>11
     DEF Receive, TurnAway, ClaimPrompt, NoPromptToClaim, BeginInterrupt
<1>12. ASSUME NEW c \in Conns, HandlerExits(c) PROVE Ledger'
  BY <1>1, <1>2, <1>12 DEF HandlerExits
<1>13. ASSUME NEW id \in WorkIds, AskForInput(id) PROVE Ledger'
  BY <1>1, <1>2, <1>13 DEF AskForInput
<1>14. CASE UNCHANGED vars
  BY <1>1, <1>2, <1>14 DEF vars
<1> QED
  BY <1>5, <1>6, <1>7, <1>9, <1>10, <1>11, <1>12, <1>13, <1>14 DEF Next, TaskStep

-----------------------------------------------------------------------------
(* No prompt has been raised at the start.                                 *)
LEMMA PromptsInit == Init => PromptsKept
  BY Bounds DEF Init, PromptsKept, Idle

(* A prompt passes from the offer to a handler when it is claimed, back    *)
(* when the reply fails, and nowhere once the reply is sent.               *)
LEMMA PromptsStep ==
    ASSUME TypeOK, HandlersServe, PromptsKept, [Next]_vars
    PROVE  PromptsKept'
<1> USE Bounds
<1> USE DEF connVars, pageVars, gateVars, cacheVars, promptVars, PromptsKept
<1>1. ASSUME NEW c \in Conns, NEW id \in Ids, ClaimPrompt(c, id) PROVE PromptsKept'
  <2>1. /\ prompt \in 1..MaxPrompts /\ prompt' = 0
        /\ handler' = [handler EXCEPT ![c] = [pc |-> "sending", id |-> id, prompt |-> prompt]]
        /\ UNCHANGED <<raised, replies>>
    BY <1>1 DEF TypeOK, ClaimPrompt
  <2>2. handler'[c].pc = "sending" /\ handler'[c].prompt = prompt
    BY <2>1 DEF TypeOK
  <2>3. \A d \in Conns : d # c => handler'[d] = handler[d]
    BY <2>1 DEF TypeOK
  <2>4. ASSUME NEW d \in Conns, handler'[d].pc = "sending"
        PROVE  /\ handler'[d].prompt <= raised' /\ handler'[d].prompt # prompt'
               /\ replies'[handler'[d].prompt] = 0
    <3>1. CASE d = c
      BY <2>1, <2>2, <3>1
    <3>2. CASE d # c
      <4>1. handler'[d] = handler[d] /\ handler[d].prompt \in 1..MaxPrompts
        BY <2>3, <2>4, <3>2 DEF HandlersServe
      <4> QED BY <2>1, <2>4, <4>1
    <3> QED BY <3>1, <3>2
  <2>5. ASSUME NEW d \in Conns, NEW e \in Conns, d # e,
               handler'[d].pc = "sending", handler'[e].pc = "sending"
        PROVE  handler'[d].prompt # handler'[e].prompt
    BY <2>2, <2>3, <2>5
  <2>6. 0 <= raised'
    BY <2>1 DEF TypeOK
  <2> QED BY <2>1, <2>4, <2>5, <2>6
<1>2. ASSUME NEW c \in Conns, ReplySent(c) PROVE PromptsKept'
  <2>1. handler[c].pc = "sending" /\ handler[c].prompt \in 1..MaxPrompts
    BY <1>2 DEF ReplySent, HandlersServe
  <2>2. replies[handler[c].prompt] = 0 /\ UpTo2(replies[handler[c].prompt]) = 1
    BY <2>1 DEF UpTo2
  <2>3. /\ replies' = [replies EXCEPT ![handler[c].prompt] = 1]
        /\ handler' = [handler EXCEPT ![c].pc = "sent"]
        /\ UNCHANGED <<prompt, raised>>
    BY <1>2, <2>2 DEF ReplySent
  <2> QED BY <2>1, <2>3 DEF TypeOK, HandlersServe
<1>3. ASSUME NEW c \in Conns, ReplyFails(c) PROVE PromptsKept'
  BY <1>3 DEF TypeOK, HandlersServe, ReplyFails, Idle
<1>4. ASSUME NEW c \in Conns, handler' = [handler EXCEPT ![c] = Idle],
             UNCHANGED <<prompt, raised, replies>>
      PROVE  PromptsKept'
  BY <1>4 DEF TypeOK, Idle
<1>5. ASSUME NEW c \in Conns, NEW id \in Ids, BeginInterrupt(c, id) PROVE PromptsKept'
  BY <1>5 DEF TypeOK, BeginInterrupt
<1>6. ASSUME UNCHANGED <<handler, prompt, raised, replies>> PROVE PromptsKept'
  BY <1>6
<1>7. ASSUME NEW id \in WorkIds, Answer(id) PROVE PromptsKept'
  BY <1>7 DEF TypeOK, HandlersServe, Answer
<1>8. ASSUME NEW id \in WorkIds, AskForInput(id) PROVE PromptsKept'
  BY <1>8 DEF TypeOK, AskForInput
<1>9. CASE PageStep
  BY <1>6, <1>9 DEF PageStep, Send, Connect, Drop, Reload, Lose, Deliver
<1>10. ASSUME NEW c \in Conns, Receive(c) PROVE PromptsKept'
  BY <1>1, <1>5, <1>6, <1>10 DEF Receive, ReplayAnswer, Admit, TurnAway, NoPromptToClaim
<1>11. ASSUME NEW c \in Conns, Continue(c) PROVE PromptsKept'
  BY <1>2, <1>3, <1>4, <1>11 DEF Continue, InputDone, InterruptDone, InterruptFails
<1>12. ASSUME NEW c \in Conns, HandlerExits(c) PROVE PromptsKept'
  BY <1>6, <1>12 DEF HandlerExits
<1>13. ASSUME NEW id \in WorkIds, Start(id) \/ Finish(id) PROVE PromptsKept'
  BY <1>6, <1>13 DEF Start, Finish
<1>14. CASE UNCHANGED vars
  BY <1>6, <1>14 DEF vars
<1> QED BY <1>7, <1>8, <1>9, <1>10, <1>11, <1>12, <1>13, <1>14 DEF Next, TaskStep

-----------------------------------------------------------------------------
(* IInv is an inductive invariant of the command socket.                   *)
THEOREM Invariance == Spec => []IInv
<1>1. Init => IInv
  BY TypeInit, HandlersInit, GateInit, LedgerInit, PromptsInit DEF IInv
<1>2. IInv /\ [Next]_vars => IInv'
  BY TypeStep, HandlersStep, GateStep, LedgerStep, PromptsStep DEF IInv
<1> QED BY <1>1, <1>2, PTL DEF Spec

(* Every variable of the socket keeps its type, and the cache its limit.   *)
THEOREM TypeCorrect == Spec => []TypeOK
  BY Invariance, PTL DEF IInv

(* At most one command is between its admission and the end of its task,   *)
(* busy is up exactly then, and inflight names what dispatch has begun.    *)
THEOREM GateIsSafe == Spec => []GateHolds
  BY Invariance, PTL DEF IInv

(* A command is dispatched a second time only after the cache has dropped  *)
(* its answer.                                                             *)
THEOREM DispatchedOnce == Spec => []NoSecondDispatch
<1>1. IInv => NoSecondDispatch
  <2> SUFFICES ASSUME IInv, NEW id \in WorkIds PROVE runs[id] <= 1 \/ id \in evicted
    BY DEF NoSecondDispatch
  <2>1. runs[id] \in 0..2 /\ (runs[id] > 1 => id \in evicted)
    BY DEF IInv, TypeOK, Ledger
  <2> QED BY <2>1
<1> QED BY <1>1, Invariance, PTL

(* A prompt gets at most one reply.                                        *)
THEOREM PromptAnsweredOnce == Spec => []OneReplyPerPrompt
<1>1. IInv => OneReplyPerPrompt
  BY DEF IInv, PromptsKept, OneReplyPerPrompt
<1> QED BY <1>1, Invariance, PTL

-----------------------------------------------------------------------------
(* The socket is an at-most-once executor *)

(* The command at work is the one the abstract executor executes.          *)
ExecutingIn(t) ==
    IF \E id \in WorkIds : t[id] \in {"running", "answered"}
    THEN CHOOSE id \in WorkIds : t[id] \in {"running", "answered"}
    ELSE NoId

AnsweredIn(t) == \E id \in WorkIds : t[id] = "answered"

OneAtWork(t) == \A i, j \in WorkIds : t[i] # "none" /\ t[j] # "none" => i = j

\* The executor's variables, as functions of the tasks and the cache.
LEMMA AbstractState ==
    /\ Executing = ExecutingIn(task) /\ Executing' = ExecutingIn(task')
    /\ Executor!vars = <<Executing, AnsweredIn(task), Remembered(cache)>>
    /\ Executor!vars' = <<Executing', AnsweredIn(task'), Remembered(cache')>>
  BY DEF Executing, ExecutingIn, AnsweredIn, Executor!vars, Remembered

\* What the executor executes is the one task that is in dispatch or has answered.
LEMMA ExecutingIsAtWork ==
    ASSUME NEW t, OneAtWork(t)
    PROVE  /\ \A id \in WorkIds : t[id] \in {"running", "answered"} =>
                 ExecutingIn(t) = id /\ (AnsweredIn(t) <=> t[id] = "answered")
           /\ (\A id \in WorkIds : t[id] \notin {"running", "answered"}) =>
                 ExecutingIn(t) = NoId /\ ~AnsweredIn(t)
<1>1. ASSUME NEW id \in WorkIds, t[id] \in {"running", "answered"}
      PROVE  ExecutingIn(t) = id /\ (AnsweredIn(t) <=> t[id] = "answered")
  <2>1. \A j \in WorkIds : t[j] \in {"running", "answered"} => j = id
    BY <1>1 DEF OneAtWork
  <2>2. (CHOOSE j \in WorkIds : t[j] \in {"running", "answered"}) \in WorkIds
        /\ t[CHOOSE j \in WorkIds : t[j] \in {"running", "answered"}] \in {"running", "answered"}
    BY <1>1
  <2> QED BY <1>1, <2>1, <2>2 DEF ExecutingIn, AnsweredIn
<1>2. ASSUME \A id \in WorkIds : t[id] \notin {"running", "answered"}
      PROVE  ExecutingIn(t) = NoId /\ ~AnsweredIn(t)
  BY <1>2 DEF ExecutingIn, AnsweredIn
<1> QED BY <1>1, <1>2

(* What the cache does when an answer is stored is what the executor's     *)
(* memory does, as long as no key is in the cache twice.                   *)
LEMMA StoringIsRemembering ==
    ASSUME NEW id \in Ids, TypeOK, NoKeyTwice(cache), StoreAnswer(id)
    PROVE  NoKeyTwice(cache') /\ Executor!Remember(id)
<1>1. cache \in Seq(Ids) /\ Len(cache) <= CacheLimit /\ CacheLimit \in Nat \ {0}
      /\ cache' = Put(cache, id, CacheLimit)
  BY Bounds DEF TypeOK, StoreAnswer
<1>2. /\ NoKeyTwice(cache')
      /\ \/ /\ id \in Remembered(cache) \/ Len(cache) < CacheLimit
            /\ Remembered(cache') = Remembered(cache) \union {id}
         \/ /\ id \notin Remembered(cache) /\ Len(cache) = CacheLimit
            /\ \E old \in Remembered(cache) :
                  Remembered(cache') = (Remembered(cache) \ {old}) \union {id}
  BY <1>1, PutMakesRoom
<1>3. Cardinality(Remembered(cache)) = Len(cache) /\ Remembered(cache)' = Remembered(cache')
  BY <1>1, KeysAreCounted DEF Remembered
<1>4. Executor!Cardinality(Remembered(cache)) = Cardinality(Remembered(cache))
  BY DEF Executor!Cardinality, Cardinality, Executor!IsFiniteSet, IsFiniteSet
<1> QED BY <1>2, <1>3, <1>4 DEF Executor!Remember

\* The executor begins with nothing executing and nothing remembered.
LEMMA ExecutorInit == Init => Executor!Init /\ NoKeyTwice(cache)
<1> SUFFICES ASSUME Init PROVE Executor!Init /\ NoKeyTwice(cache)
  OBVIOUS
<1>1. cache = <<>> /\ \A id \in WorkIds : task[id] = "none"
  BY DEF Init
<1> QED BY <1>1 DEF Executor!Init, Executing, Remembered, NoKeyTwice

\* A step of the socket is a step of the executor, or leaves it alone.
LEMMA ExecutorStep ==
    ASSUME IInv, IInv', NoKeyTwice(cache), [Next]_vars
    PROVE  NoKeyTwice(cache') /\ [Executor!Next]_(Executor!vars)
<1> USE DEF connVars, pageVars, gateVars, cacheVars, promptVars
<1>1. TypeOK /\ HandlersServe /\ GateHolds /\ Ledger /\ OneAtWork(task) /\ OneAtWork(task')
  BY DEF IInv, GateHolds, AtWork, OneAtWork
<1>2. ASSUME UNCHANGED <<task, cache>>
      PROVE  NoKeyTwice(cache') /\ Executor!vars' = Executor!vars
  BY <1>2, AbstractState
<1>3. ASSUME NEW c \in Conns, NEW id \in Ids, ReplayAnswer(c, id)
      PROVE  NoKeyTwice(cache') /\ Executor!vars' = Executor!vars
  <2>1. cache \in Seq(Ids) /\ cache' = Get(cache, id) /\ task' = task
    BY <1>1, <1>3 DEF ReplayAnswer, TypeOK
  <2>2. Remembered(cache') = Remembered(cache)
    BY <2>1, GetKeeps
  <2>3. NoKeyTwice(cache')
    BY <2>1, MovedOnce DEF Get
  <2> QED BY <2>1, <2>2, <2>3, AbstractState
<1>4. ASSUME NEW c \in Conns, NEW id \in Ids, Admit(c, id)
      PROVE  NoKeyTwice(cache') /\ Executor!vars' = Executor!vars
  <2>1. id \in WorkIds /\ ~busy /\ task' = [task EXCEPT ![id] = "scheduled"] /\ cache' = cache
    BY <1>4 DEF Admit, GateTaken
  <2>2. /\ \A j \in WorkIds : task[j] \notin {"running", "answered"}
        /\ \A j \in WorkIds : task'[j] \notin {"running", "answered"}
    BY <1>1, <2>1 DEF GateHolds, AtWork, TypeOK
  <2>3. Executing' = Executing /\ (AnsweredIn(task') <=> AnsweredIn(task))
    BY <1>1, <2>2, ExecutingIsAtWork, AbstractState
  <2>4. AnsweredIn(task') = AnsweredIn(task)
    BY <2>3 DEF AnsweredIn
  <2> QED BY <2>1, <2>3, <2>4, AbstractState
<1>5. ASSUME NEW id \in Ids, StoreAnswer(id), UNCHANGED task
      PROVE  NoKeyTwice(cache') /\ Executor!Next
  <2>1. NoKeyTwice(cache') /\ Executor!Remember(id)
    BY <1>1, <1>5, StoringIsRemembering
  <2>2. Executor!ServeAside(id)
    BY <1>5, <2>1 DEF Executor!ServeAside, Executing
  <2> QED BY <2>1, <2>2 DEF Executor!Next
<1>6. ASSUME NEW id \in WorkIds, Start(id)
      PROVE  NoKeyTwice(cache') /\ Executor!Next
  <2>1. id \notin inflight /\ id \notin Remembered(cache) /\ task[id] = "scheduled"
    BY <1>1, <1>6 DEF Start, Ledger, GateHolds
  <2>2. task' = [task EXCEPT ![id] = "running"] /\ cache' = cache
    BY <1>6, <2>1 DEF Start, NewTo
  <2>3. task'[id] = "running" /\ \A j \in WorkIds : task[j] \notin {"running", "answered"}
    BY <1>1, <2>1, <2>2 DEF OneAtWork, TypeOK
  <2>4. Executing = NoId /\ Executing' = id /\ ~AnsweredIn(task')
    BY <1>1, <2>3, ExecutingIsAtWork, AbstractState
  <2>5. Executor!Begin(id)
    BY <2>1, <2>2, <2>4 DEF Executor!Begin, AnsweredIn, Remembered
  <2> QED BY <2>2, <2>5, Bounds DEF Executor!Next
<1>7. ASSUME NEW id \in WorkIds, Answer(id)
      PROVE  NoKeyTwice(cache') /\ Executor!Next
  <2>1. task[id] = "running" /\ task' = [task EXCEPT ![id] = "answered"] /\ StoreAnswer(id)
        /\ id \in Ids
    BY <1>7, Bounds DEF Answer
  <2>2. task'[id] = "answered"
    BY <1>1, <2>1 DEF TypeOK
  <2>3. Executing = id /\ Executing' = id /\ ~AnsweredIn(task) /\ AnsweredIn(task')
    BY <1>1, <2>1, <2>2, ExecutingIsAtWork, AbstractState
  <2>4. NoKeyTwice(cache') /\ Executor!Remember(id)
    BY <1>1, <2>1, StoringIsRemembering
  <2>5. Executor!Answer(id)
    BY <2>3, <2>4 DEF Executor!Answer, AnsweredIn
  <2> QED BY <2>1, <2>4, <2>5 DEF Executor!Next
<1>8. ASSUME NEW id \in WorkIds, Finish(id)
      PROVE  NoKeyTwice(cache') /\ Executor!Next
  <2>1. task[id] = "answered" /\ task' = [task EXCEPT ![id] = "none"] /\ cache' = cache
    BY <1>8 DEF Finish
  <2>2. \A j \in WorkIds : task'[j] \notin {"running", "answered"}
    BY <1>1, <2>1 DEF OneAtWork, TypeOK
  <2>3. Executing = id /\ id # NoId /\ AnsweredIn(task) /\ Executing' = NoId /\ ~AnsweredIn(task')
    BY <1>1, <2>1, <2>2, ExecutingIsAtWork, AbstractState, Bounds
  <2>4. Executor!Release
    BY <2>1, <2>3 DEF Executor!Release, AnsweredIn, Remembered
  <2> QED BY <2>1, <2>4 DEF Executor!Next
<1>9. ASSUME NEW c \in Conns, InputDone(c) \/ InterruptDone(c)
      PROVE  NoKeyTwice(cache') /\ Executor!Next
  <2>1. handler[c].id \in Ids
    BY <1>1, <1>9, Bounds DEF HandlersServe, InputDone, InterruptDone
  <2> QED BY <1>5, <1>9, <2>1 DEF InputDone, InterruptDone
<1>10. ASSUME PageStep PROVE UNCHANGED <<task, cache>>
  BY <1>10 DEF PageStep, Send, Connect, Drop, Reload, Lose, Deliver
<1>11. ASSUME NEW c \in Conns, NEW id \in Ids,
              TurnAway(c, id) \/ ClaimPrompt(c, id) \/ NoPromptToClaim(c, id)
              \/ BeginInterrupt(c, id)
       PROVE  UNCHANGED <<task, cache>>
  BY <1>11 DEF TurnAway, ClaimPrompt, NoPromptToClaim, BeginInterrupt
<1>12. ASSUME NEW c \in Conns,
              ReplySent(c) \/ ReplyFails(c) \/ InterruptFails(c) \/ HandlerExits(c)
       PROVE  UNCHANGED <<task, cache>>
  BY <1>12 DEF ReplySent, ReplyFails, InterruptFails, HandlerExits
<1>13. ASSUME NEW id \in WorkIds, AskForInput(id) PROVE UNCHANGED <<task, cache>>
  BY <1>13 DEF AskForInput
<1>14. CASE UNCHANGED vars
  BY <1>2, <1>14 DEF vars
<1>15. CASE Next
  <2>1. ASSUME NEW c \in Conns, Receive(c)
        PROVE  NoKeyTwice(cache') /\ (Executor!Next \/ Executor!vars' = Executor!vars)
    BY <1>2, <1>3, <1>4, <1>11, <2>1 DEF Receive
  <2>2. ASSUME NEW c \in Conns, Continue(c) \/ HandlerExits(c)
        PROVE  NoKeyTwice(cache') /\ (Executor!Next \/ Executor!vars' = Executor!vars)
    BY <1>2, <1>9, <1>12, <2>2 DEF Continue
  <2>3. ASSUME NEW id \in WorkIds, TaskStep(id) \/ AskForInput(id)
        PROVE  NoKeyTwice(cache') /\ (Executor!Next \/ Executor!vars' = Executor!vars)
    BY <1>2, <1>6, <1>7, <1>8, <1>13, <2>3 DEF TaskStep
  <2> QED BY <1>2, <1>10, <1>15, <2>1, <2>2, <2>3 DEF Next
<1> QED BY <1>14, <1>15

(* To its pages the socket is the at-most-once executor of AtMostOnce:     *)
(* each step executes, answers, releases, forgets one answer to make room  *)
(* for another, or changes nothing that they could tell.                   *)
THEOREM SocketIsAtMostOnce == Spec => Executor!Safety
<1> DEFINE RInv == IInv /\ NoKeyTwice(cache)
<1>1. Init => Executor!Init /\ NoKeyTwice(cache)
  BY ExecutorInit
<1>2. IInv /\ IInv' /\ NoKeyTwice(cache) /\ [Next]_vars
        => NoKeyTwice(cache)' /\ [Executor!Next]_(Executor!vars)
  <2>1. NoKeyTwice(cache)' <=> NoKeyTwice(cache')
    BY DEF NoKeyTwice
  <2> QED BY <2>1, ExecutorStep
<1> QED BY <1>1, <1>2, Invariance, PTL DEF Spec, Executor!Safety
-----------------------------------------------------------------------------
(* The way of an answer to its page *)

(* A page draws an id once, and waits for it in one place.                 *)
WaitsKept ==
    \A p \in Pages : NoKeyTwice(waiting[p]) /\ Remembered(waiting[p]) \subseteq sent

(* Dispatch has begun what runs.                                           *)
BegunRuns == \A id \in WorkIds : task[id] = "running" => runs[id] > 0

AInv == WaitsKept /\ BegunRuns /\ AnswersComeBack /\ AnswersAreTrue

(* At the start nobody waits and nothing is answered.                      *)
LEMMA AnswersInit == Init => AInv
<1> SUFFICES ASSUME Init PROVE AInv
  OBVIOUS
<1>1. Remembered(<<>>) = {} /\ NoKeyTwice(<<>>)
  BY DEF Remembered, NoKeyTwice
<1>2. WaitsKept /\ BegunRuns /\ AnswersAreTrue
  BY <1>1 DEF Init, WaitsKept, BegunRuns, AnswersAreTrue, Answered
<1>3. AnswersComeBack
  BY DEF Init, AnswersComeBack, Live
<1> QED BY <1>2, <1>3 DEF AInv

(* What remembers an answer and announces it, loses none.                  *)
LEMMA AnnouncedComesBack ==
    ASSUME TypeOK, AnswersComeBack, AnswersAreTrue, NEW id \in Ids,
           StoreAnswer(id), Announce(id), UNCHANGED <<waiting, phase, owner, inbox>>
    PROVE  /\ AnswersComeBack'
           /\ \A c \in Conns : outbox'[c] \subseteq Answered'
           /\ Answered' = Answered \union {id}
<1>1. /\ id \in Remembered(cache')
      /\ Remembered(cache') \subseteq Remembered(cache) \union {id}
      /\ evicted' = evicted \union (Remembered(cache) \ Remembered(cache'))
  <2>1. Remembered(cache)' = Remembered(cache')
    BY DEF Remembered
  <2>2. /\ id \in Remembered(cache)'
        /\ Remembered(cache)' \subseteq Remembered(cache) \union {id}
    BY StoreAnswerKeeps DEF TypeOK
  <2>3. evicted' = evicted \union (Remembered(cache) \ Remembered(cache'))
    BY DEF StoreAnswer, DroppedBy
  <2> QED BY <2>1, <2>2, <2>3
<1>2. Answered' = Answered \union {id}
  <2>1. Answered' = Remembered(cache') \union evicted'
    BY DEF Answered, Remembered
  <2> QED BY <1>1, <2>1 DEF Answered
<1>3. \A c \in Conns : outbox[c] \subseteq outbox'[c] /\ outbox'[c] \subseteq outbox[c] \union {id}
  BY DEF Announce
<1>4. ASSUME NEW p \in Pages, NEW c \in Conns, phase[c] = "open", owner[c] = p,
             NEW x, x \in Remembered(waiting[p]), x \in Remembered(cache')
      PROVE  x \in outbox'[c] \union Remembered(inbox[c])
  <2>1. CASE x = id
    BY <1>4, <2>1 DEF Announce
  <2>2. CASE x # id
    BY <1>1, <1>3, <1>4, <2>2 DEF AnswersComeBack, Live
  <2> QED BY <2>1, <2>2
<1>5. AnswersComeBack'
  BY <1>4 DEF AnswersComeBack, Live, Remembered
<1>6. \A c \in Conns : outbox'[c] \subseteq Answered'
  BY <1>2, <1>3 DEF AnswersAreTrue
<1> QED BY <1>2, <1>5, <1>6

(* A frame that is taken while its answer is not remembered leaves every   *)
(* answer on its way.                                                      *)
LEMMA TakenComesBack ==
    ASSUME TypeOK, AnswersComeBack, NEW c \in Conns, NEW id \in Ids, Takes(c, id), NewTo(id),
           UNCHANGED <<waiting, phase, owner, outbox, cache>>
    PROVE  AnswersComeBack'
<1>1. /\ Remembered(inbox[c]) \subseteq Remembered(inbox'[c]) \union {id}
      /\ \A d \in Conns : d # c => inbox'[d] = inbox[d]
  BY TailRemembers DEF TypeOK, Takes
<1>2. ASSUME NEW p \in Pages, NEW d \in Conns, phase[d] = "open", owner[d] = p,
             NEW x, x \in Remembered(waiting[p]), x \in Remembered(cache)
      PROVE  x \in outbox[d] \union Remembered(inbox'[d])
  <2>1. x \in outbox[d] \union Remembered(inbox[d]) /\ x # id
    BY <1>2 DEF AnswersComeBack, Live, NewTo
  <2> QED BY <1>1, <2>1
<1> QED BY <1>2 DEF AnswersComeBack, Live, Remembered

(* The pages: what one stops waiting for was answered.                     *)
LEMMA PagesKeepAnswers ==
    ASSUME TypeOK, AInv, PageStep
    PROVE  AInv'
<1> USE DEF pageVars, connVars, gateVars, cacheVars, promptVars
<1>1. UNCHANGED <<cache, evicted, runs, task>>
  BY DEF PageStep, Send, Connect, Drop, Reload, Lose, Deliver
<1>2. Answered' = Answered
  BY <1>1 DEF Answered, Remembered
<1>3. \A c \in Conns : outbox'[c] \subseteq outbox[c]
  BY DEF PageStep, Send, Connect, Drop, Reload, Lose, Deliver, TypeOK
<1>4. AnswersAreTrue' /\ BegunRuns'
  BY <1>1, <1>2, <1>3 DEF AInv, AnswersAreTrue, BegunRuns
<1>5. ASSUME NEW p \in Pages, NEW id \in Ids, Send(p, id) PROVE WaitsKept' /\ AnswersComeBack'
  <2>1. /\ waiting[p] \in Seq(Ids) /\ id \notin Remembered(waiting[p])
        /\ waiting' = [waiting EXCEPT ![p] = Append(waiting[p], id)]
        /\ sent' = sent \union {id}
    BY <1>5 DEF Send, AInv, WaitsKept, TypeOK
  <2>2. waiting'[p] = Append(waiting[p], id) /\ \A q \in Pages : q # p => waiting'[q] = waiting[q]
    BY <2>1 DEF TypeOK
  <2>3. Remembered(waiting'[p]) = Remembered(waiting[p]) \union {id} /\ NoKeyTwice(waiting'[p])
    BY <2>1, <2>2, AppendRemembers, AppendedOnce DEF AInv, WaitsKept
  <2>4. WaitsKept'
    BY <2>1, <2>2, <2>3 DEF AInv, WaitsKept, Remembered, NoKeyTwice
  <2>5. ASSUME NEW q \in Pages, NEW c \in Conns, phase[c] = "open", owner[c] = q,
               NEW x, x \in Remembered(waiting'[q]), x \in Remembered(cache)
        PROVE  x \in outbox[c] \union Remembered(inbox'[c])
    <3>1. CASE q = p
      <4>1. inbox'[c] = Append(inbox[c], id) /\ inbox[c] \in Seq(Ids)
        BY <1>5, <2>5, <3>1 DEF Send, Live, TypeOK
      <4>2. Remembered(inbox'[c]) = Remembered(inbox[c]) \union {id}
        BY <4>1, AppendRemembers
      <4>3. x # id => x \in outbox[c] \union Remembered(inbox[c])
        BY <2>3, <2>5, <3>1 DEF AInv, AnswersComeBack, Live
      <4> QED BY <4>2, <4>3
    <3>2. CASE q # p
      <4>1. inbox'[c] = inbox[c]
        BY <1>5, <2>5, <3>2 DEF Send, Live
      <4>2. x \in outbox[c] \union Remembered(inbox[c])
        BY <2>2, <2>5, <3>2 DEF AInv, AnswersComeBack, Live
      <4> QED BY <4>1, <4>2
    <3> QED BY <3>1, <3>2
  <2>6. UNCHANGED <<phase, owner, outbox, cache>>
    BY <1>5 DEF Send
  <2>7. AnswersComeBack'
    BY <2>5, <2>6 DEF AnswersComeBack, Live, Remembered
  <2> QED BY <2>4, <2>7
<1>6. ASSUME NEW p \in Pages, NEW c \in Conns, Connect(p, c) PROVE WaitsKept' /\ AnswersComeBack'
  <2>1. /\ UNCHANGED <<sent, waiting, cache>>
        /\ phase' = [phase EXCEPT ![c] = "open"] /\ owner' = [owner EXCEPT ![c] = p]
        /\ inbox' = [inbox EXCEPT ![c] = waiting[p]] /\ outbox' = [outbox EXCEPT ![c] = {}]
    BY <1>6 DEF Connect, Resent
  <2>2. WaitsKept'
    BY <2>1 DEF AInv, WaitsKept, Remembered, NoKeyTwice
  <2>3. ASSUME NEW q \in Pages, NEW d \in Conns, phase'[d] = "open", owner'[d] = q,
               NEW x, x \in Remembered(waiting'[q]), x \in Remembered(cache')
        PROVE  x \in outbox'[d] \union Remembered(inbox'[d])
    <3>1. CASE d = c
      BY <2>1, <2>3, <3>1 DEF TypeOK
    <3>2. CASE d # c
      <4>1. phase[d] = "open" /\ owner[d] = q /\ outbox'[d] = outbox[d] /\ inbox'[d] = inbox[d]
        BY <2>1, <2>3, <3>2 DEF TypeOK
      <4> QED BY <2>1, <2>3, <4>1 DEF AInv, AnswersComeBack, Live
    <3> QED BY <3>1, <3>2
  <2>4. AnswersComeBack'
    BY <2>3 DEF AnswersComeBack, Live, Remembered
  <2> QED BY <2>2, <2>4
<1>7. ASSUME NEW c \in Conns, Drop(c) \/ Reload(c) PROVE WaitsKept' /\ AnswersComeBack'
  <2>1. /\ UNCHANGED <<sent, owner, cache>>
        /\ phase' = [phase EXCEPT ![c] = "closing"]
        /\ \A d \in Conns : d # c => inbox'[d] = inbox[d] /\ outbox'[d] = outbox[d]
    BY <1>7 DEF Drop, Reload, Lose, TypeOK
  <2>2. \A q \in Pages : waiting'[q] = waiting[q] \/ waiting'[q] = <<>>
    BY <1>7 DEF Drop, Reload, TypeOK
  <2>3. Remembered(<<>>) = {} /\ NoKeyTwice(<<>>)
    BY DEF Remembered, NoKeyTwice
  <2>4. WaitsKept'
    BY <2>1, <2>2, <2>3 DEF AInv, WaitsKept, Remembered, NoKeyTwice
  <2>5. ASSUME NEW q \in Pages, NEW d \in Conns, phase'[d] = "open", owner[d] = q,
               NEW x, x \in Remembered(waiting'[q]), x \in Remembered(cache)
        PROVE  x \in outbox'[d] \union Remembered(inbox'[d])
    <3>1. d # c /\ phase[d] = "open" /\ x \in Remembered(waiting[q])
      BY <2>1, <2>2, <2>3, <2>5 DEF TypeOK
    <3>2. x \in outbox[d] \union Remembered(inbox[d])
      BY <2>5, <3>1 DEF AInv, AnswersComeBack, Live
    <3> QED BY <2>1, <3>1, <3>2
  <2>6. AnswersComeBack'
    BY <2>1, <2>5 DEF AnswersComeBack, Live, Remembered
  <2> QED BY <2>4, <2>6
<1>8. ASSUME NEW c \in Conns, Deliver(c) PROVE WaitsKept' /\ AnswersComeBack'
  <2>1. PICK id \in outbox[c] :
          /\ outbox' = [outbox EXCEPT ![c] = @ \ {id}]
          /\ waiting' = [waiting EXCEPT ![owner[c]] = Without(@, id)]
    BY <1>8 DEF Deliver
  <2>2. UNCHANGED <<sent, phase, owner, inbox, cache>>
    BY <1>8 DEF Deliver
  <2>3. ASSUME NEW q \in Pages
        PROVE  /\ NoKeyTwice(waiting'[q])
               /\ Remembered(waiting'[q]) \subseteq Remembered(waiting[q])
               /\ q = owner[c] => id \notin Remembered(waiting'[q])
    <3>1. CASE q = owner[c]
      <4>1. waiting'[q] = Without(waiting[q], id) /\ waiting[q] \in Seq(Ids) /\ NoKeyTwice(waiting[q])
        BY <2>1, <3>1 DEF TypeOK, AInv, WaitsKept
      <4>2. NoKeyTwice(waiting'[q]) /\ id \notin Remembered(waiting'[q])
        BY <4>1, WithoutRemoves
      <4>3. Remembered(waiting'[q]) \union {id} = Remembered(waiting[q]) \union {id}
        BY <4>1, WithoutKeeps
      <4> QED BY <4>2, <4>3
    <3>2. CASE q # owner[c]
      BY <2>1, <3>2 DEF TypeOK, AInv, WaitsKept
    <3> QED BY <3>1, <3>2
  <2>4. WaitsKept'
    BY <2>2, <2>3 DEF AInv, WaitsKept, Remembered, NoKeyTwice
  <2>5. ASSUME NEW q \in Pages, NEW d \in Conns, phase[d] = "open", owner[d] = q,
               NEW x, x \in Remembered(waiting'[q]), x \in Remembered(cache)
        PROVE  x \in outbox'[d] \union Remembered(inbox[d])
    <3>1. x \in outbox[d] \union Remembered(inbox[d])
      BY <2>3, <2>5 DEF AInv, AnswersComeBack, Live
    <3>2. d = c => x # id
      BY <2>3, <2>5
    <3>3. outbox[d] \subseteq outbox'[d] \union {id} /\ (d # c => outbox'[d] = outbox[d])
      BY <2>1 DEF TypeOK
    <3> QED BY <3>1, <3>2, <3>3
  <2>6. AnswersComeBack'
    BY <2>2, <2>5 DEF AnswersComeBack, Live, Remembered
  <2> QED BY <2>4, <2>6
<1>9. WaitsKept' /\ AnswersComeBack'
  BY <1>5, <1>6, <1>7, <1>8 DEF PageStep
<1> QED BY <1>4, <1>9 DEF AInv
(* The handlers and the tasks: each answer is announced when it is stored. *)
LEMMA HelperKeepsAnswers ==
    ASSUME IInv, AInv, NEW c \in Conns, Receive(c) \/ Continue(c) \/ HandlerExits(c)
    PROVE  AInv'
<1> USE DEF pageVars, connVars, gateVars, cacheVars, promptVars
<1>1. TypeOK /\ HandlersServe /\ AnswersComeBack /\ AnswersAreTrue
  BY DEF IInv, AInv
<1>2. /\ UNCHANGED <<sent, waiting, runs, owner>> \/ HandlerExits(c)
      /\ UNCHANGED <<sent, waiting, runs>>
  BY DEF Receive, ReplayAnswer, Admit, TurnAway, ClaimPrompt, NoPromptToClaim, BeginInterrupt,
         Continue, ReplySent, ReplyFails, InputDone, InterruptDone, InterruptFails, HandlerExits
<1>3. WaitsKept'
  BY <1>2 DEF AInv, WaitsKept, Remembered, NoKeyTwice
<1>4. BegunRuns'
  <2>1. \A id \in WorkIds : task'[id] = "running" => task[id] = "running"
    BY <1>1 DEF TypeOK, Receive, ReplayAnswer, Admit, TurnAway, ClaimPrompt, NoPromptToClaim,
                BeginInterrupt, Continue, ReplySent, ReplyFails, InputDone, InterruptDone,
                InterruptFails, HandlerExits
  <2> QED BY <1>2, <2>1 DEF AInv, BegunRuns
<1>5. ASSUME UNCHANGED <<cache, evicted, outbox>> PROVE AnswersAreTrue'
  BY <1>1, <1>2, <1>5 DEF AnswersAreTrue, Answered, Remembered
<1>6. ASSUME NEW id \in Ids, ReplayAnswer(c, id) PROVE AnswersComeBack' /\ AnswersAreTrue'
  <2>1. /\ Takes(c, id) /\ id \in Remembered(cache) /\ cache' = Get(cache, id)
        /\ UNCHANGED <<waiting, phase, owner, evicted>>
        /\ outbox' = IF phase[c] = "open" THEN [outbox EXCEPT ![c] = @ \union {id}] ELSE outbox
    BY <1>6 DEF ReplayAnswer, NewTo
  <2>2. Remembered(cache') = Remembered(cache)
    BY <1>1, <2>1, GetKeeps DEF TypeOK
  <2>3. Answered' = Answered
    BY <2>1, <2>2 DEF Answered, Remembered
  <2>4. /\ \A d \in Conns : outbox[d] \subseteq outbox'[d] /\ outbox'[d] \subseteq outbox[d] \union {id}
        /\ phase[c] = "open" => id \in outbox'[c]
    BY <1>1, <2>1 DEF TypeOK
  <2>5. AnswersAreTrue'
    BY <1>1, <1>2, <2>1, <2>3, <2>4 DEF AnswersAreTrue, Answered
  <2>6. /\ Remembered(inbox[c]) \subseteq Remembered(inbox'[c]) \union {id}
        /\ \A d \in Conns : d # c => inbox'[d] = inbox[d]
    BY <1>1, <2>1, TailRemembers DEF TypeOK, Takes
  <2>7. ASSUME NEW p \in Pages, NEW d \in Conns, phase[d] = "open", owner[d] = p,
               NEW x, x \in Remembered(waiting[p]), x \in Remembered(cache')
        PROVE  x \in outbox'[d] \union Remembered(inbox'[d])
    <3>1. x \in outbox[d] \union Remembered(inbox[d])
      BY <1>1, <2>2, <2>7 DEF AnswersComeBack, Live
    <3> QED BY <2>4, <2>6, <2>7, <3>1
  <2>8. AnswersComeBack'
    BY <2>1, <2>7 DEF AnswersComeBack, Live, Remembered
  <2> QED BY <2>5, <2>8
<1>7. ASSUME NEW id \in Ids,
             \/ Admit(c, id) \/ TurnAway(c, id) \/ ClaimPrompt(c, id)
             \/ NoPromptToClaim(c, id) \/ BeginInterrupt(c, id)
      PROVE  AnswersComeBack' /\ AnswersAreTrue'
  <2>1. Takes(c, id) /\ NewTo(id) /\ UNCHANGED <<waiting, phase, owner, outbox, cache, evicted>>
    BY <1>7 DEF Admit, TurnAway, ClaimPrompt, NoPromptToClaim, BeginInterrupt
  <2> QED BY <1>1, <1>5, <2>1, TakenComesBack
<1>8. ASSUME InputDone(c) \/ InterruptDone(c) PROVE AnswersComeBack' /\ AnswersAreTrue'
  <2> DEFINE id == handler[c].id
  <2>1. id \in Ids /\ id \notin WorkIds
    BY <1>1, <1>8, Bounds DEF HandlersServe, InputDone, InterruptDone
  <2>2. StoreAnswer(id) /\ Announce(id) /\ UNCHANGED <<waiting, phase, owner, inbox>>
    BY <1>8 DEF InputDone, InterruptDone
  <2> HIDE DEF id
  <2>3. /\ AnswersComeBack' /\ Answered' = Answered \union {id}
        /\ \A d \in Conns : outbox'[d] \subseteq Answered'
    BY <1>1, <2>1, <2>2, AnnouncedComesBack
  <2>4. AnswersAreTrue'
    BY <1>1, <1>2, <2>1, <2>3 DEF AnswersAreTrue
  <2> QED BY <2>3, <2>4
<1>9. ASSUME ReplySent(c) \/ ReplyFails(c) \/ InterruptFails(c)
      PROVE  AnswersComeBack' /\ AnswersAreTrue'
  <2>1. UNCHANGED <<waiting, phase, owner, inbox, outbox, cache, evicted>>
    BY <1>9 DEF ReplySent, ReplyFails, InterruptFails
  <2> QED BY <1>1, <1>5, <2>1 DEF AnswersComeBack, Live, Remembered
<1>10. ASSUME HandlerExits(c) PROVE AnswersComeBack' /\ AnswersAreTrue'
  <2>1. /\ UNCHANGED <<waiting, inbox, outbox, cache, evicted>>
        /\ \A d \in Conns : phase'[d] = "open" => phase[d] = "open" /\ owner'[d] = owner[d]
    BY <1>1, <1>10 DEF HandlerExits, TypeOK
  <2> QED BY <1>1, <1>5, <2>1 DEF AnswersComeBack, Live, Remembered
<1> QED BY <1>3, <1>4, <1>6, <1>7, <1>8, <1>9, <1>10 DEF AInv, Receive, Continue

(* The tasks: what one answers, dispatch has begun before.                 *)
LEMMA TasksKeepAnswers ==
    ASSUME IInv, AInv, NEW id \in WorkIds, TaskStep(id) \/ AskForInput(id)
    PROVE  AInv'
<1> USE DEF pageVars, connVars, gateVars, cacheVars, promptVars
<1>1. TypeOK /\ GateHolds /\ Ledger /\ AnswersComeBack /\ AnswersAreTrue /\ id \in Ids
  BY Bounds DEF IInv, AInv
<1>2. UNCHANGED <<sent, waiting, phase, owner, inbox>>
  BY DEF TaskStep, Start, Answer, Finish, AskForInput
<1>3. WaitsKept'
  BY <1>2 DEF AInv, WaitsKept, Remembered, NoKeyTwice
<1>4. ASSUME UNCHANGED <<cache, evicted, outbox>> PROVE AnswersComeBack' /\ Answered' = Answered
  BY <1>1, <1>2, <1>4 DEF AnswersComeBack, Live, Answered, Remembered
<1>5. CASE Start(id)
  <2>1. id \notin inflight /\ NewTo(id)
    BY <1>1, <1>5 DEF Start, Ledger, GateHolds, NewTo
  <2>2. /\ task' = [task EXCEPT ![id] = "running"] /\ runs' = [runs EXCEPT ![id] = UpTo2(@)]
        /\ UNCHANGED <<cache, evicted, outbox>>
    BY <1>5, <2>1 DEF Start
  <2>3. \A j \in WorkIds : IF j = id THEN runs'[j] > 0 ELSE runs'[j] = runs[j] /\ task'[j] = task[j]
    <3>1. runs \in [WorkIds -> 0..2] /\ task \in [WorkIds -> {"none", "scheduled", "running", "answered"}]
      BY <1>1 DEF TypeOK
    <3>2. UpTo2(runs[id]) > 0
      BY <3>1 DEF UpTo2
    <3> QED BY <2>2, <3>1, <3>2
  <2>4. \A j \in WorkIds : runs[j] > 0 => runs'[j] > 0
    BY <2>3
  <2>5. BegunRuns'
    BY <2>3 DEF AInv, BegunRuns
  <2>6. AnswersAreTrue'
    BY <1>1, <1>4, <2>2, <2>4 DEF AnswersAreTrue
  <2> QED BY <1>3, <1>4, <2>2, <2>5, <2>6 DEF AInv
<1>6. CASE Answer(id)
  <2>1. /\ task[id] = "running" /\ task' = [task EXCEPT ![id] = "answered"]
        /\ StoreAnswer(id) /\ Announce(id) /\ UNCHANGED runs
    BY <1>6 DEF Answer
  <2>2. /\ AnswersComeBack' /\ Answered' = Answered \union {id}
        /\ \A d \in Conns : outbox'[d] \subseteq Answered'
    BY <1>1, <1>2, <2>1, AnnouncedComesBack
  <2>3. runs[id] > 0
    BY <2>1 DEF AInv, BegunRuns
  <2>4. AnswersAreTrue'
    BY <1>1, <2>1, <2>2, <2>3 DEF AnswersAreTrue
  <2>5. BegunRuns'
    BY <1>1, <2>1 DEF AInv, BegunRuns, TypeOK
  <2> QED BY <1>3, <2>2, <2>4, <2>5 DEF AInv
<1>7. CASE Finish(id) \/ AskForInput(id)
  <2>1. UNCHANGED <<cache, evicted, outbox, runs>>
    BY <1>7 DEF Finish, AskForInput
  <2>2. AnswersAreTrue'
    BY <1>1, <1>4, <2>1 DEF AnswersAreTrue
  <2>3. \A j \in WorkIds : task'[j] = "running" => task[j] = "running"
    BY <1>1, <1>7 DEF Finish, AskForInput, TypeOK
  <2>4. BegunRuns'
    BY <2>1, <2>3 DEF AInv, BegunRuns
  <2> QED BY <1>3, <1>4, <2>1, <2>2, <2>4 DEF AInv
<1> QED BY <1>5, <1>6, <1>7 DEF TaskStep
(* AInv is inductive, given what the gate keeps.                           *)
LEMMA AnswersStep == IInv /\ AInv /\ [Next]_vars => AInv'
<1> SUFFICES ASSUME IInv, AInv, [Next]_vars PROVE AInv'
  OBVIOUS
<1>1. CASE UNCHANGED vars
  BY <1>1 DEF vars, pageVars, connVars, gateVars, cacheVars, AInv, WaitsKept, BegunRuns,
              AnswersComeBack, AnswersAreTrue, Answered, Live, Remembered, NoKeyTwice
<1>2. CASE PageStep
  BY <1>2, PagesKeepAnswers DEF IInv
<1>3. CASE \E c \in Conns : Receive(c) \/ Continue(c) \/ HandlerExits(c)
  BY <1>3, HelperKeepsAnswers
<1>4. CASE \E id \in WorkIds : TaskStep(id) \/ AskForInput(id)
  BY <1>4, TasksKeepAnswers
<1> QED BY <1>1, <1>2, <1>3, <1>4 DEF Next

(* It holds throughout.                                                    *)
LEMMA AnswersInvariance == Spec => []AInv
  BY AnswersInit, AnswersStep, Invariance, PTL DEF Spec

(* A page that waits for an answered command over a live connection has    *)
(* the answer or its own resend under way, and for a dispatched one that,  *)
(* or the command still runs: what the resends of the page, the cache and  *)
(* the order "store, then announce" of work achieve together.              *)
THEOREM AnswersAreNotLost == Spec => [](AnswersComeBack /\ DispatchedComesBack)
<1>1. IInv /\ AInv => AnswersComeBack /\ DispatchedComesBack
  <2> SUFFICES ASSUME IInv, AInv, NEW p \in Pages, NEW c \in Live(p), NEW id \in WorkIds,
                      id \in Remembered(waiting[p]), runs[id] > 0, id \notin evicted
               PROVE  task[id] = "running" \/ id \in outbox[c] \union Remembered(inbox[c])
    BY DEF DispatchedComesBack, AInv
  <2>1. task[id] = "running" \/ id \in Remembered(cache)
    BY DEF IInv, Ledger
  <2> QED BY <2>1 DEF AInv, AnswersComeBack
<1> QED BY <1>1, AnswersInvariance, Invariance, PTL

(* An answer under way belongs to a command that was answered, and what    *)
(* the gate answers, dispatch has begun.                                   *)
THEOREM AnswersTellTheTruth == Spec => []AnswersAreTrue
<1>1. AInv => AnswersAreTrue
  BY DEF AInv
<1> QED BY <1>1, AnswersInvariance, PTL

(* A page stops waiting for what was answered, or for everything at once   *)
(* when it is reloaded.                                                    *)
THEOREM WaitsEnd == Spec => WaitsEndWithAnAnswer
<1> DEFINE Ends(p) == \/ Remembered(waiting[p]) \ Remembered(waiting'[p]) \subseteq Answered
                      \/ \E c \in Live(p) : Reload(c)
<1>1. IInv /\ AInv /\ [Next]_vars => [\A p \in Pages : Ends(p)]_vars
  <2> SUFFICES ASSUME TypeOK, AInv, [Next]_vars, NEW p \in Pages PROVE Ends(p)
    BY DEF IInv
  <2> USE DEF pageVars, connVars, gateVars, cacheVars, promptVars
  <2>1. ASSUME NEW q \in Pages, NEW id \in Ids, Send(q, id) PROVE Ends(p)
    <3>1. Remembered(waiting[p]) \subseteq Remembered(waiting'[p])
      <4>1. waiting'[p] = waiting[p] \/ waiting'[p] = Append(waiting[p], id)
        BY <2>1 DEF Send, TypeOK
      <4>2. waiting[p] \in Seq(Ids) /\ id \in Ids
        BY DEF TypeOK
      <4>3. Remembered(Append(waiting[p], id)) = Remembered(waiting[p]) \union {id}
        BY <4>2, AppendRemembers
      <4> QED BY <4>1, <4>3
    <3> QED BY <3>1
  <2>2. ASSUME NEW c \in Conns, Deliver(c) PROVE Ends(p)
    <3>1. PICK id \in outbox[c] : waiting' = [waiting EXCEPT ![owner[c]] = Without(@, id)]
      BY <2>2 DEF Deliver
    <3>2. waiting'[p] = waiting[p] \/ waiting'[p] = Without(waiting[p], id)
      BY <3>1 DEF TypeOK
    <3>3. Remembered(waiting[p]) \subseteq Remembered(waiting'[p]) \union {id}
      BY <3>2, WithoutKeeps DEF TypeOK
    <3>4. id \in Answered
      BY DEF AInv, AnswersAreTrue
    <3> QED BY <3>3, <3>4
  <2>3. ASSUME NEW c \in Conns, Reload(c) PROVE Ends(p)
    <3>1. phase[c] = "open" /\ waiting' = [waiting EXCEPT ![owner[c]] = <<>>]
      BY <2>3 DEF Reload, Lose
    <3>2. CASE owner[c] = p
      BY <2>3, <3>1, <3>2 DEF Live
    <3>3. CASE owner[c] # p
      BY <3>1, <3>3 DEF TypeOK
    <3> QED BY <3>2, <3>3
  <2>4. ASSUME UNCHANGED waiting PROVE Ends(p)
    BY <2>4
  <2>5. CASE UNCHANGED vars
    BY <2>4, <2>5 DEF vars
  <2>6. CASE PageStep
    BY <2>1, <2>2, <2>3, <2>4, <2>6 DEF PageStep, Connect, Drop
  <2>7. ASSUME NEW c \in Conns, Receive(c) \/ Continue(c) \/ HandlerExits(c) PROVE Ends(p)
    <3>1. UNCHANGED waiting
      BY <2>7 DEF Receive, ReplayAnswer, Admit, TurnAway, ClaimPrompt, NoPromptToClaim, BeginInterrupt,
                  Continue, ReplySent, ReplyFails, InputDone, InterruptDone, InterruptFails, HandlerExits
    <3> QED BY <2>4, <3>1
  <2>8. ASSUME NEW id \in WorkIds, TaskStep(id) \/ AskForInput(id) PROVE Ends(p)
    <3>1. UNCHANGED waiting
      BY <2>8 DEF TaskStep, Start, Answer, Finish, AskForInput
    <3> QED BY <2>4, <3>1
  <2> HIDE DEF Ends
  <2> QED BY <2>5, <2>6, <2>7, <2>8 DEF Next
<1> QED BY <1>1, AnswersInvariance, Invariance, PTL DEF Spec, WaitsEndWithAnAnswer
=============================================================================
