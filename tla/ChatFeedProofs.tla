--------------------------- MODULE ChatFeedProofs ---------------------------
(* Theorems of Chat about what is on its way to a page, for every number of   *)
(* sockets, messages, pieces of an answer and failures: the bridge is the     *)
(* feed of ChatFeed, streams end, and answers are not lost.                   *)
EXTENDS ChatProofs, FiniteSetTheorems, SequenceTheorems

-----------------------------------------------------------------------------
(* The chat events among frames *)

LEMMA RanksTyped ==
    ASSUME NEW S, NEW s \in Seq(S)
    PROVE  /\ ChatAt(s) \subseteq 1 .. Len(s)
           /\ IsFiniteSet(ChatAt(s))
           /\ Cardinality(ChatAt(s)) \in Nat
           /\ \A i \in ChatAt(s) : Rank(s, i) \in 1 .. Cardinality(ChatAt(s))
<1>1. ChatAt(s) \subseteq 1 .. Len(s) /\ IsFiniteSet(1 .. Len(s))
  BY FS_Interval DEF ChatAt
<1>2. IsFiniteSet(ChatAt(s)) /\ Cardinality(ChatAt(s)) \in Nat
  BY <1>1, FS_Subset, FS_CardinalityType
<1>3. ASSUME NEW i \in ChatAt(s)
      PROVE  Rank(s, i) \in 1 .. Cardinality(ChatAt(s))
  <2> DEFINE U == {j \in ChatAt(s) : j <= i}
  <2>1. i \in U
    BY <1>1
  <2>2. IsFiniteSet(U) /\ Cardinality(U) <= Cardinality(ChatAt(s))
    BY <1>2, FS_Subset
  <2>3. Cardinality(U) \in Nat /\ Cardinality(U) # 0
    BY <2>1, <2>2, FS_CardinalityType, FS_EmptySet
  <2> QED BY <1>2, <2>2, <2>3 DEF Rank
<1> QED BY <1>1, <1>2, <1>3

LEMMA RanksDiffer ==
    ASSUME NEW S, NEW s \in Seq(S), NEW i \in ChatAt(s), NEW j \in ChatAt(s),
           Rank(s, i) = Rank(s, j)
    PROVE  i = j
<1> DEFINE U(x) == {y \in ChatAt(s) : y <= x}
<1>1. i \in Nat /\ j \in Nat /\ IsFiniteSet(ChatAt(s))
  BY RanksTyped
<1>2. \A x \in ChatAt(s), z \in ChatAt(s) : x \in Nat /\ z \in Nat
  BY RanksTyped
<1>3. ASSUME NEW x \in ChatAt(s), NEW z \in ChatAt(s), x < z, Rank(s, x) = Rank(s, z)
      PROVE  FALSE
  <2>1. U(x) \in SUBSET U(z) /\ z \in U(z) /\ z \notin U(x)
    BY <1>2, <1>3
  <2>2. IsFiniteSet(U(z))
    BY <1>1, FS_Subset
  <2>3. Cardinality(U(x)) = Cardinality(U(z))
    BY <1>3 DEF Rank
  <2> QED BY <2>1, <2>2, <2>3, FS_Subset
<1> QED BY <1>1, <1>3

LEMMA RanksReached ==
    ASSUME NEW S, NEW s \in Seq(S), NEW k \in 1 .. Cardinality(ChatAt(s))
    PROVE  \E i \in ChatAt(s) : Rank(s, i) = k
<1> DEFINE N == Cardinality(ChatAt(s))
           f == [i \in ChatAt(s) |-> Rank(s, i)]
<1>1. N \in Nat /\ IsFiniteSet(1 .. N) /\ Cardinality(1 .. N) = N
  BY RanksTyped, FS_Interval
<1>2. f \in Injection(ChatAt(s), 1 .. N)
  <2>1. f \in [ChatAt(s) -> 1 .. N]
    BY RanksTyped
  <2>2. \A x, y \in ChatAt(s) : f[x] = f[y] => x = y
    BY RanksDiffer
  <2> HIDE DEF f
  <2> QED BY <2>1, <2>2 DEF Injection, IsInjective
<1>3. f \in Surjection(ChatAt(s), 1 .. N)
  <2> HIDE DEF f
  <2> QED BY <1>1, <1>2, FS_Injection
<1> QED BY <1>3 DEF Surjection

\* The chat event of rank k is the one at its place.
LEMMA ChatOfRank ==
    ASSUME NEW S, NEW s \in Seq(S)
    PROVE  /\ Chats(s) \in [1 .. Cardinality(ChatAt(s)) -> S]
           /\ \A i \in ChatAt(s) : Chats(s)[Rank(s, i)] = s[i]
<1> DEFINE at(k) == CHOOSE i \in ChatAt(s) : Rank(s, i) = k
<1>1. \A k \in 1 .. Cardinality(ChatAt(s)) : at(k) \in ChatAt(s) /\ Rank(s, at(k)) = k
  BY RanksReached
<1>2. Chats(s) = [k \in 1 .. Cardinality(ChatAt(s)) |-> s[at(k)]]
  BY DEF Chats
<1> HIDE DEF at
<1>3. ChatAt(s) \subseteq DOMAIN s /\ \A i \in DOMAIN s : s[i] \in S
  BY DEF ChatAt
<1>4. Chats(s) \in [1 .. Cardinality(ChatAt(s)) -> S]
  BY <1>1, <1>2, <1>3
<1>5. ASSUME NEW i \in ChatAt(s) PROVE Chats(s)[Rank(s, i)] = s[i]
  <2>1. Rank(s, i) \in 1 .. Cardinality(ChatAt(s))
    BY RanksTyped
  <2>2. at(Rank(s, i)) = i
    BY <1>1, <2>1, RanksDiffer
  <2> QED BY <1>2, <2>1, <2>2
<1> QED BY <1>4, <1>5

LEMMA ChatsTyped ==
    ASSUME NEW S, NEW s \in Seq(S)
    PROVE  /\ Chats(s) \in Seq(S)
           /\ Len(Chats(s)) = Cardinality(ChatAt(s))
           /\ \A k \in DOMAIN Chats(s) : \E i \in ChatAt(s) : Rank(s, i) = k /\ Chats(s)[k] = s[i]
<1>1. Cardinality(ChatAt(s)) \in Nat /\ Chats(s) \in [1 .. Cardinality(ChatAt(s)) -> S]
  BY RanksTyped, ChatOfRank
<1>2. Chats(s) \in Seq(S) /\ Len(Chats(s)) = Cardinality(ChatAt(s))
  BY <1>1
<1>3. ASSUME NEW k \in DOMAIN Chats(s)
      PROVE  \E i \in ChatAt(s) : Rank(s, i) = k /\ Chats(s)[k] = s[i]
  BY <1>1, <1>3, RanksReached, ChatOfRank
<1> QED BY <1>2, <1>3

LEMMA ChatsEmpty ==
    ASSUME NEW S, NEW s \in Seq(S), ~HasChat(s)
    PROVE  Chats(s) = <<>>
<1>1. ChatAt(s) = {}
  BY DEF ChatAt, HasChat
<1>2. Cardinality(ChatAt(s)) = 0
  BY <1>1, FS_EmptySet
<1>3. Chats(s) \in Seq(S) /\ Len(Chats(s)) = 0
  BY <1>2, ChatsTyped
<1> QED BY <1>3, EmptySeq

LEMMA ChatsAppend ==
    ASSUME NEW S, NEW s \in Seq(S), NEW f \in S
    PROVE  Chats(s \o <<f>>) = IF IsChat(f) THEN Append(Chats(s), f) ELSE Chats(s)
<1> DEFINE t == s \o <<f>>
           l == Len(s) + 1
           c == Cardinality(ChatAt(s))
<1>1. /\ t \in Seq(S) /\ l \in Nat /\ Len(t) = l /\ t[l] = f
      /\ \A i \in 1 .. Len(s) : t[i] = s[i]
  OBVIOUS
<1>2. /\ ChatAt(s) \subseteq 1 .. Len(s) /\ IsFiniteSet(ChatAt(s)) /\ c \in Nat /\ l \notin ChatAt(s)
      /\ \A i \in ChatAt(s) : Rank(s, i) \in 1 .. c
  BY RanksTyped
<1>3. ChatAt(t) = IF IsChat(f) THEN ChatAt(s) \union {l} ELSE ChatAt(s)
  <2> HIDE DEF t
  <2>1. DOMAIN t = 1 .. l /\ DOMAIN s = 1 .. Len(s) /\ 1 .. l = (1 .. Len(s)) \union {l}
    BY <1>1
  <2>2. \A i \in 1 .. Len(s) : IsChat(t[i]) <=> IsChat(s[i])
    BY <1>1
  <2>3. IsChat(t[l]) <=> IsChat(f)
    BY <1>1
  <2> HIDE DEF l
  <2> QED BY <2>1, <2>2, <2>3, Zenon DEF ChatAt
<1>4. \A i \in ChatAt(s) : Rank(t, i) = Rank(s, i)
  <2> TAKE i \in ChatAt(s)
  <2>1. {j \in ChatAt(t) : j <= i} = {j \in ChatAt(s) : j <= i}
    BY <1>1, <1>2, <1>3
  <2> QED BY <2>1 DEF Rank
<1> HIDE DEF t
<1>5. /\ Chats(s) \in Seq(S) /\ Len(Chats(s)) = c
      /\ \A i \in ChatAt(s) : Chats(s)[Rank(s, i)] = s[i]
      /\ \A k \in 1 .. c : \E i \in ChatAt(s) : Rank(s, i) = k
  BY ChatsTyped, ChatOfRank, RanksReached
<1>6. /\ Chats(t) \in Seq(S) /\ Len(Chats(t)) = Cardinality(ChatAt(t))
      /\ \A i \in ChatAt(t) : Chats(t)[Rank(t, i)] = t[i]
  BY <1>1, ChatsTyped, ChatOfRank
<1>7. \A k \in 1 .. c : Chats(t)[k] = Chats(s)[k]
  <2> TAKE k \in 1 .. c
  <2>1. PICK i \in ChatAt(s) : Rank(s, i) = k
    BY <1>5
  <2>2. i \in ChatAt(t) /\ Rank(t, i) = k /\ t[i] = s[i]
    BY <1>1, <1>2, <1>3, <1>4, <2>1
  <2> QED BY <1>5, <1>6, <2>1, <2>2
<1>8. CASE ~IsChat(f)
  <2>1. Len(Chats(t)) = c
    BY <1>3, <1>6, <1>8
  <2>2. Chats(t) = Chats(s)
    BY <1>5, <1>6, <1>7, <2>1, SeqEqual
  <2> QED BY <1>8, <2>2 DEF t
<1>9. CASE IsChat(f)
  <2>1. Cardinality(ChatAt(t)) = c + 1
    BY <1>2, <1>3, <1>9, FS_AddElement
  <2>2. Rank(t, l) = c + 1
    <3>1. {j \in ChatAt(t) : j <= l} = ChatAt(t)
      BY <1>1, <1>2, <1>3
    <3> QED BY <2>1, <3>1 DEF Rank
  <2>3. Chats(t)[c + 1] = f
    <3>1. l \in ChatAt(t)
      BY <1>3, <1>9
    <3>2. Chats(t)[Rank(t, l)] = t[l]
      BY <1>6, <3>1
    <3> QED BY <1>1, <2>2, <3>2
  <2>4. /\ Append(Chats(s), f) \in Seq(S) /\ Len(Append(Chats(s), f)) = c + 1
        /\ \A k \in 1 .. c : Append(Chats(s), f)[k] = Chats(s)[k]
        /\ Append(Chats(s), f)[c + 1] = f
    BY <1>5, AppendProperties
  <2>5. Chats(t) = Append(Chats(s), f)
    <3>1. \A k \in 1 .. c + 1 : Chats(t)[k] = Append(Chats(s), f)[k]
      BY <1>2, <1>7, <2>3, <2>4
    <3> QED BY <1>2, <1>6, <2>1, <2>4, <3>1, SeqEqual
  <2> QED BY <1>9, <2>5 DEF t
<1> QED BY <1>8, <1>9

LEMMA ChatsTail ==
    ASSUME NEW S, NEW s \in Seq(S), s # <<>>
    PROVE  IF IsChat(Head(s))
           THEN Chats(s) # <<>> /\ Head(Chats(s)) = Head(s) /\ Chats(Tail(s)) = Tail(Chats(s))
           ELSE Chats(Tail(s)) = Chats(s)
<1> DEFINE t == Tail(s)
           d == IF IsChat(Head(s)) THEN 1 ELSE 0
           c == Cardinality(ChatAt(t))
<1>1. /\ t \in Seq(S) /\ Len(t) = Len(s) - 1 /\ Len(s) \in Nat \ {0}
      /\ \A i \in 1 .. Len(t) : t[i] = s[i + 1]
      /\ Head(s) = s[1]
  OBVIOUS
<1> HIDE DEF t
<1>2. /\ \A i \in 1 .. Len(t) : i \in ChatAt(t) <=> i + 1 \in ChatAt(s)
      /\ 1 \in ChatAt(s) <=> d = 1
      /\ ChatAt(t) \subseteq 1 .. Len(t) /\ ChatAt(s) \subseteq 1 .. Len(s)
      /\ IsFiniteSet(ChatAt(t)) /\ IsFiniteSet(ChatAt(s)) /\ c \in Nat
  <2>1. \A i \in 1 .. Len(t) : i \in ChatAt(t) <=> i + 1 \in ChatAt(s)
    BY <1>1 DEF ChatAt
  <2>2. 1 \in ChatAt(s) <=> d = 1
    BY <1>1 DEF ChatAt
  <2>3. ChatAt(t) \subseteq 1 .. Len(t) /\ ChatAt(s) \subseteq 1 .. Len(s)
    BY <1>1 DEF ChatAt
  <2>4. IsFiniteSet(ChatAt(t)) /\ IsFiniteSet(ChatAt(s)) /\ c \in Nat
    BY <1>1, RanksTyped
  <2> QED BY <2>1, <2>2, <2>3, <2>4
<1>3. ASSUME NEW U \in SUBSET ChatAt(t), NEW V \in SUBSET ChatAt(s), NEW e \in {0, 1},
             \A i \in 1 .. Len(t) : i \in U <=> i + 1 \in V,
             1 \in V <=> e = 1
      PROVE  Cardinality(V) = Cardinality(U) + e
  <2> DEFINE W == {i + 1 : i \in U}
             f == [i \in U |-> i + 1]
  <2>1. IsFiniteSet(U) /\ Cardinality(U) \in Nat
    BY <1>2, FS_Subset, FS_CardinalityType
  <2>2. f \in Bijection(U, W)
    <3>1. f \in [U -> W] /\ (\A x, y \in U : f[x] = f[y] => x = y) /\ \A w \in W : \E x \in U : f[x] = w
      BY <1>1, <1>2
    <3> HIDE DEF f, W
    <3> QED BY <3>1 DEF Bijection, Injection, IsInjective, Surjection
  <2>3. IsFiniteSet(W) /\ Cardinality(W) = Cardinality(U)
    <3>1. ExistsBijection(U, W)
      BY <2>2 DEF ExistsBijection
    <3> HIDE DEF W
    <3> QED BY <2>1, <3>1, FS_Bijection
  <2>4. 1 \notin W /\ \A i \in V : i = 1 \/ i \in W
    <3>1. \A i \in V : i = 1 \/ i - 1 \in U
      BY <1>1, <1>2, <1>3
    <3>2. \A i \in V : i - 1 \in U => i \in W
      BY <1>1, <1>2
    <3>3. 1 \notin W
      BY <1>1, <1>2
    <3> QED BY <3>1, <3>2, <3>3
  <2>5. W \subseteq V
    BY <1>1, <1>2, <1>3
  <2> HIDE DEF W
  <2>6. CASE e = 1
    <3>1. V = W \union {1}
      BY <1>3, <2>4, <2>5, <2>6
    <3>2. Cardinality(W \union {1}) = Cardinality(W) + 1
      BY <2>3, <2>4, FS_AddElement
    <3> QED BY <2>1, <2>3, <2>6, <3>1, <3>2
  <2>7. CASE e = 0
    <3>1. 1 \notin V
      BY <1>3, <2>7
    <3>2. V = W
      BY <2>4, <2>5, <3>1
    <3> QED BY <2>1, <2>3, <2>7, <3>2
  <2> QED BY <2>6, <2>7
<1>4. Cardinality(ChatAt(s)) = c + d
  BY <1>2, <1>3
<1>5. ASSUME NEW i \in ChatAt(t) PROVE Rank(s, i + 1) = Rank(t, i) + d
  <2> DEFINE U == {j \in ChatAt(t) : j <= i}
             V == {j \in ChatAt(s) : j <= i + 1}
  <2>1. U \in SUBSET ChatAt(t) /\ V \in SUBSET ChatAt(s) /\ d \in {0, 1}
    OBVIOUS
  <2>2. \A j \in 1 .. Len(t) : j \in U <=> j + 1 \in V
    BY <1>1, <1>2
  <2>3. 1 \in V <=> d = 1
    BY <1>1, <1>2
  <2> HIDE DEF U, V, d
  <2>4. Cardinality(V) = Cardinality(U) + d
    BY <1>3, <2>1, <2>2, <2>3
  <2> QED BY <2>4 DEF U, V, Rank
<1>6. /\ Chats(s) \in Seq(S) /\ Len(Chats(s)) = c + d
      /\ \A i \in ChatAt(s) : Chats(s)[Rank(s, i)] = s[i]
      /\ Chats(t) \in Seq(S) /\ Len(Chats(t)) = c
      /\ \A i \in ChatAt(t) : Chats(t)[Rank(t, i)] = t[i]
      /\ \A k \in 1 .. c : \E i \in ChatAt(t) : Rank(t, i) = k
  BY <1>1, <1>4, ChatsTyped, ChatOfRank, RanksReached
<1>7. \A k \in 1 .. c : Chats(t)[k] = Chats(s)[k + d]
  <2> TAKE k \in 1 .. c
  <2>1. PICK i \in ChatAt(t) : Rank(t, i) = k
    BY <1>6
  <2>2. i + 1 \in ChatAt(s) /\ Rank(s, i + 1) = k + d /\ t[i] = s[i + 1]
    BY <1>1, <1>2, <1>5, <2>1
  <2> QED BY <1>6, <2>1, <2>2
<1>8. CASE ~IsChat(Head(s))
  <2>1. d = 0
    BY <1>8
  <2> HIDE DEF d
  <2>2. Len(Chats(s)) = c /\ \A k \in 1 .. c : Chats(t)[k] = Chats(s)[k]
    BY <1>2, <1>6, <1>7, <2>1
  <2>3. Chats(t) = Chats(s)
    BY <1>2, <1>6, <2>2, SeqEqual
  <2> QED BY <1>8, <2>3 DEF t
<1>9. CASE IsChat(Head(s))
  <2>1. Rank(s, 1) = 1
    <3>1. {j \in ChatAt(s) : j <= 1} = {1}
      BY <1>2, <1>9
    <3> QED BY <3>1, FS_Singleton DEF Rank
  <2>2. Chats(s) # <<>> /\ Head(Chats(s)) = Head(s)
    <3>1. Chats(s)[1] = s[1] /\ Len(Chats(s)) = c + 1
      BY <1>2, <1>6, <1>9, <2>1
    <3> QED BY <1>1, <1>2, <1>6, <3>1
  <2>3. /\ Tail(Chats(s)) \in Seq(S) /\ Len(Tail(Chats(s))) = c
        /\ \A k \in 1 .. c : Tail(Chats(s))[k] = Chats(s)[k + 1]
    BY <1>2, <1>6, <1>9, <2>2
  <2>4. Chats(t) = Tail(Chats(s))
    BY <1>6, <1>7, <1>9, <2>3, SeqEqual
  <2> QED BY <1>9, <2>2, <2>4 DEF t
<1> QED BY <1>8, <1>9

-----------------------------------------------------------------------------
(* The response among the frames of the gateway *)

ResAt(s) == {i \in DOMAIN s : s[i].t = "res"}
NoRes(s) == ResAt(s) = {}
OneRes(s) == \E i \in DOMAIN s : ResAt(s) = {i}

LEMMA BehindNone ==
    ASSUME NEW s, NoRes(s)
    PROVE  Behind(s) = <<>>
BY DEF Behind, NoRes, ResAt

LEMMA BehindOne ==
    ASSUME NEW s, NEW i \in DOMAIN s, ResAt(s) = {i}
    PROVE  Behind(s) = SubSeq(s, i + 1, Len(s))
<1>1. {j \in DOMAIN s : s[j].t = "res"} = {i}
  BY DEF ResAt
<1>2. (CHOOSE j \in {i} : TRUE) = i
  OBVIOUS
<1> QED BY <1>1, <1>2 DEF Behind

LEMMA BehindAppend ==
    ASSUME NEW S, NEW s \in Seq(S), NEW f \in S
    PROVE  LET a == Append(s, f) IN
           /\ f.t # "res" /\ NoRes(s) => NoRes(a)
           /\ f.t # "res" /\ OneRes(s) => OneRes(a) /\ Behind(a) = Append(Behind(s), f)
           /\ f.t = "res" /\ NoRes(s) => OneRes(a) /\ Behind(a) = <<>>
<1> DEFINE a == Append(s, f)
           l == Len(s) + 1
<1>1. /\ a \in Seq(S) /\ Len(a) = l /\ DOMAIN a = 1 .. l /\ DOMAIN s = 1 .. Len(s) /\ l \in Nat
      /\ a[l] = f /\ \A i \in 1 .. Len(s) : a[i] = s[i]
  OBVIOUS
<1> HIDE DEF a
<1>2. ResAt(a) = IF f.t = "res" THEN ResAt(s) \union {l} ELSE ResAt(s)
  <2>1. DOMAIN a = DOMAIN s \union {l} /\ l \notin DOMAIN s
    BY <1>1
  <2>2. \A i \in DOMAIN s : a[i] = s[i]
    BY <1>1
  <2>3. a[l] = f
    BY <1>1
  <2> HIDE DEF l
  <2> QED BY <2>1, <2>2, <2>3, Zenon DEF ResAt
<1>3. ASSUME f.t # "res", NoRes(s) PROVE NoRes(a)
  BY <1>2, <1>3 DEF NoRes
<1>4. ASSUME f.t # "res", OneRes(s)
      PROVE  OneRes(a) /\ Behind(a) = Append(Behind(s), f)
  <2>1. PICK i \in DOMAIN s : ResAt(s) = {i}
    BY <1>4 DEF OneRes
  <2>2. ResAt(a) = {i} /\ i \in DOMAIN a
    BY <1>1, <1>2, <1>4, <2>1
  <2>3. Behind(a) = SubSeq(a, i + 1, l) /\ Behind(s) = SubSeq(s, i + 1, Len(s))
    BY <1>1, <2>1, <2>2, BehindOne
  <2>4. SubSeq(a, i + 1, l) = Append(SubSeq(s, i + 1, Len(s)), f)
    BY <1>1, <2>1
  <2> QED BY <2>2, <2>3, <2>4 DEF OneRes
<1>5. ASSUME f.t = "res", NoRes(s) PROVE OneRes(a) /\ Behind(a) = <<>>
  <2>1. ResAt(a) = {l} /\ l \in DOMAIN a
    BY <1>1, <1>2, <1>5 DEF NoRes
  <2>2. Behind(a) = SubSeq(a, l + 1, l)
    BY <1>1, <2>1, BehindOne
  <2> QED BY <1>1, <2>1, <2>2, SubSeqEmpty DEF OneRes
<1> QED BY <1>3, <1>4, <1>5 DEF a

LEMMA BehindTail ==
    ASSUME NEW S, NEW s \in Seq(S), s # <<>>
    PROVE  /\ NoRes(s) => NoRes(Tail(s))
           /\ OneRes(s) /\ Head(s).t # "res" => OneRes(Tail(s)) /\ Behind(Tail(s)) = Behind(s)
           /\ OneRes(s) /\ Head(s).t = "res" => NoRes(Tail(s)) /\ Behind(s) = Tail(s)
<1> DEFINE t == Tail(s)
<1>1. /\ t \in Seq(S) /\ Len(t) = Len(s) - 1 /\ Len(s) \in Nat \ {0}
      /\ \A i \in 1 .. Len(t) : t[i] = s[i + 1]
      /\ Head(s) = s[1] /\ DOMAIN s = 1 .. Len(s) /\ DOMAIN t = 1 .. Len(t)
      /\ t = SubSeq(s, 2, Len(s))
  BY TailIsSubSeq
<1> HIDE DEF t
<1>2. /\ \A i \in DOMAIN t : i \in ResAt(t) <=> i + 1 \in ResAt(s)
      /\ 1 \in ResAt(s) <=> Head(s).t = "res"
      /\ ResAt(s) \subseteq DOMAIN s /\ ResAt(t) \subseteq DOMAIN t
  BY <1>1 DEF ResAt
<1>3. ASSUME NoRes(s) PROVE NoRes(t)
  BY <1>1, <1>2, <1>3 DEF NoRes
<1>4. ASSUME OneRes(s), Head(s).t # "res"
      PROVE  OneRes(t) /\ Behind(t) = Behind(s)
  <2>1. PICK i \in DOMAIN s : ResAt(s) = {i}
    BY <1>4 DEF OneRes
  <2>2. i # 1 /\ i - 1 \in DOMAIN t
    BY <1>1, <1>2, <1>4, <2>1
  <2>3. ResAt(t) = {i - 1}
    <3>1. \A j \in DOMAIN t : j + 1 = i <=> j = i - 1
      BY <1>1, <2>1
    <3> QED BY <1>2, <2>1, <2>2, <3>1
  <2>4. Behind(t) = SubSeq(t, i, Len(t)) /\ Behind(s) = SubSeq(s, i + 1, Len(s))
    <3>1. (i - 1) + 1 = i
      BY <1>1, <2>1
    <3> QED BY <2>1, <2>2, <2>3, <3>1, BehindOne
  <2>5. SubSeq(t, i, Len(t)) = SubSeq(s, i + 1, Len(s))
    <3> DEFINE m == Len(s) - i
               u == SubSeq(t, i, Len(t))
               v == SubSeq(s, i + 1, Len(s))
    <3>1. i \in Nat /\ m \in Nat /\ i >= 2 /\ Len(t) = i + m - 1 /\ Len(s) = i + m
      BY <1>1, <2>1, <2>2
    <3>2. u \in Seq(S) /\ Len(u) = m /\ \A j \in 1 .. m : u[j] = t[i + j - 1]
      <4>1. i \in Int /\ Len(t) \in Int /\ \A j \in i .. Len(t) : t[j] \in S
        BY <1>1, <3>1
      <4>2. /\ u \in Seq(S) /\ Len(u) = IF i <= Len(t) THEN Len(t) - i + 1 ELSE 0
            /\ \A j \in 1 .. Len(t) - i + 1 : u[j] = t[i + j - 1]
        BY <4>1, SubSeqProperties
      <4>3. Len(t) - i + 1 = m /\ (i <= Len(t) \/ m = 0)
        BY <3>1
      <4> HIDE DEF m, u
      <4>4. Len(u) = m
        BY <3>1, <4>2, <4>3
      <4> QED BY <4>2, <4>3, <4>4
    <3>3. v \in Seq(S) /\ Len(v) = m /\ \A j \in 1 .. m : v[j] = s[i + j]
      <4>1. i + 1 \in Int /\ Len(s) \in Int /\ \A j \in i + 1 .. Len(s) : s[j] \in S
        BY <1>1, <3>1
      <4>2. /\ v \in Seq(S) /\ Len(v) = IF i + 1 <= Len(s) THEN Len(s) - (i + 1) + 1 ELSE 0
            /\ \A j \in 1 .. Len(s) - (i + 1) + 1 : v[j] = s[(i + 1) + j - 1]
        BY <4>1, SubSeqProperties
      <4>3. \A j \in 1 .. m : (i + 1) + j - 1 = i + j
        BY <3>1
      <4>4. Len(s) - (i + 1) + 1 = m /\ (i + 1 <= Len(s) \/ m = 0)
        BY <3>1
      <4> HIDE DEF m, v
      <4>5. Len(v) = m
        BY <3>1, <4>2, <4>4
      <4>6. \A j \in 1 .. m : v[j] = s[i + j]
        BY <4>2, <4>3, <4>4
      <4> QED BY <4>2, <4>5, <4>6
    <3> HIDE DEF m, u, v
    <3>4. \A j \in 1 .. m : t[i + j - 1] = s[i + j]
      <4> TAKE j \in 1 .. m
      <4>1. i + j - 1 \in 1 .. Len(t)
        BY <3>1
      <4>2. (i + j - 1) + 1 = i + j
        BY <3>1
      <4> QED BY <1>1, <4>1, <4>2
    <3>5. u = v
      BY <3>2, <3>3, <3>4, SeqEqual
    <3> QED BY <3>5 DEF u, v
  <2> QED BY <2>2, <2>3, <2>4, <2>5 DEF OneRes
<1>5. ASSUME OneRes(s), Head(s).t = "res"
      PROVE  NoRes(t) /\ Behind(s) = t
  <2>1. ResAt(s) = {1} /\ 1 \in DOMAIN s
    BY <1>1, <1>2, <1>5 DEF OneRes
  <2>2. Behind(s) = SubSeq(s, 2, Len(s))
    BY <2>1, BehindOne
  <2>3. ResAt(t) = {}
    BY <1>1, <1>2, <2>1
  <2> QED BY <1>1, <2>2, <2>3 DEF NoRes
<1> QED BY <1>3, <1>4, <1>5 DEF t

-----------------------------------------------------------------------------
(* Where the bridge is, and what it has yet to read *)

Connects == {"list", "create", "history"}

\* The bridge dials, waits for one response after the other, and runs its pump
\* then; only a history request brings a response to the pump.
LinkOf(n) ==
    /\ srv[n] \in {"none", "dial"} <=> up[n] = "none"
    /\ srv[n] \in {"none", "dial"} \union Connects => pump[n] = "off" /\ ~torn[n]
    /\ srv[n] \in {"select", "read", "ask"} => pump[n] # "off"
    /\ srv[n] = "done" => up[n] = "closed"
    /\ pump[n] = "ended" => up[n] # "open"
    /\ srv[n] \in Connects /\ asked[n] # "none" => NoRes(fromGw[n])
    /\ srv[n] \in Connects /\ asked[n] = "none" /\ up[n] = "open" => OneRes(fromGw[n])
    /\ ~torn[n] /\ pump[n] = "on" => asked[n] = "none" /\ NoRes(fromGw[n])

FeedInv == OrderInv /\ \A n \in Conns : LinkOf(n)

USE DEF Shut

\* What phase, feed and link of socket n depend on.
Cell(n) ==
    <<srv[n], pump[n], up[n], asked[n], fromGw[n], torn[n], Shut(n), toPage[n]>>

\* The state of socket n in FeedInv.
CellTypes(n) ==
    /\ srv[n] \in {"none", "dial", "list", "create", "history", "select", "read", "ask", "done"}
    /\ pump[n] \in {"off", "on", "ended"}
    /\ up[n] \in {"none", "open", "broken", "closed"}
    /\ asked[n] \in Requests
    /\ fromGw[n] \in Seq(Responses \union ChatEvents)
    /\ torn[n] \in BOOLEAN
    /\ socket[n] \in {"unused", "connecting", "open", "closing", "closed"}
    /\ toPage[n] \in Seq(PageFrames)

LEMMA CellTyped ==
    ASSUME TypeInv, NEW n \in Conns
    PROVE  /\ CellTypes(n)
           /\ up[n] # "open" => fromGw[n] = <<>> /\ asked[n] = "none"
           /\ pump[n] = "on" => srv[n] \in {"select", "read", "ask"}
           /\ asked[n] \in {"list", "create"} => srv[n] = asked[n]
           /\ socket[n] \in {"unused", "connecting"} => srv[n] = "none"
BY DEF TypeInv, BridgeInv, SocketsTypeOK, BridgeTypeOK, BridgeTypes, BridgeLinks, Undialled, CellTypes

LEMMA NotRes ==
    ASSUME NEW s \in Seq(Responses \union ChatEvents), NEW i \in 1 .. Len(s), i \notin ResAt(s)
    PROVE  s[i] \in ChatEvents
<1>1. s[i] \in Responses \union ChatEvents /\ s[i].t # "res"
  BY DEF ResAt
<1> QED BY <1>1, ResponseFields

LEMMA BehindTyped ==
    ASSUME NEW s \in Seq(Responses \union ChatEvents), NoRes(s) \/ OneRes(s)
    PROVE  Behind(s) \in Seq(ChatEvents)
<1>1. CASE NoRes(s)
  <2>1. Behind(s) = <<>>
    BY <1>1, BehindNone
  <2> QED BY <2>1
<1>2. CASE OneRes(s)
  <2>1. PICK i \in DOMAIN s : ResAt(s) = {i}
    BY <1>2 DEF OneRes
  <2>2. i \in 1 .. Len(s) /\ Len(s) \in Nat
    OBVIOUS
  <2>3. ASSUME NEW j \in i + 1 .. Len(s) PROVE s[j] \in ChatEvents
    <3>1. j \in 1 .. Len(s) /\ j \notin ResAt(s)
      BY <2>1, <2>2
    <3> QED BY <3>1, NotRes
  <2>4. SubSeq(s, i + 1, Len(s)) \in Seq(ChatEvents)
    BY <2>2, <2>3, SubSeqProperties
  <2> QED BY <2>1, <2>4, BehindOne
<1> QED BY <1>1, <1>2

LEMMA ChatsAreEvents ==
    ASSUME NEW s \in Seq(PageFrames)
    PROVE  /\ Chats(s) \in Seq(ChatEvents)
           /\ \A k \in DOMAIN Chats(s) : \E i \in DOMAIN s : Chats(s)[k] = s[i]
<1>1. Chats(s) \in Seq(PageFrames)
  BY ChatsTyped
<1>2. ASSUME NEW k \in DOMAIN Chats(s)
      PROVE  Chats(s)[k] \in ChatEvents /\ \E i \in DOMAIN s : Chats(s)[k] = s[i]
  <2>1. PICK i \in ChatAt(s) : Chats(s)[k] = s[i]
    BY <1>2, ChatsTyped
  <2>2. i \in DOMAIN s /\ s[i] \in PageFrames /\ IsChat(s[i])
    BY <2>1 DEF ChatAt
  <2> QED BY <2>1, <2>2, PageFrameFields DEF IsChat
<1> QED BY <1>1, <1>2

LEMMA ComingTyped ==
    ASSUME TypeInv, NEW n \in Conns, LinkOf(n), ~torn[n]
    PROVE  /\ Coming(n) \in Seq(ChatEvents)
           /\ up[n] # "open" => Coming(n) = <<>>
<1>1. /\ fromGw[n] \in Seq(Responses \union ChatEvents)
      /\ up[n] # "open" => fromGw[n] = <<>> /\ asked[n] = "none"
  BY CellTyped DEF CellTypes
<1>2. CASE pump[n] = "on"
  <2>1. NoRes(fromGw[n])
    BY <1>2 DEF LinkOf
  <2>2. \A i \in 1 .. Len(fromGw[n]) : fromGw[n][i] \in ChatEvents
    BY <1>1, <2>1, NotRes DEF NoRes
  <2> QED BY <1>1, <1>2, <2>2 DEF Coming
<1>3. CASE pump[n] # "on" /\ srv[n] = "history"
  <2>1. NoRes(fromGw[n]) \/ OneRes(fromGw[n])
    <3>1. CASE up[n] = "open"
      BY <1>3, <3>1 DEF LinkOf, Connects
    <3>2. CASE up[n] # "open"
      BY <1>1, <3>2 DEF NoRes, ResAt
    <3> QED BY <3>1, <3>2
  <2>2. up[n] # "open" => NoRes(fromGw[n])
    BY <1>1 DEF NoRes, ResAt
  <2> QED BY <1>1, <1>3, <2>1, <2>2, BehindTyped, BehindNone DEF Coming
<1>4. CASE pump[n] # "on" /\ srv[n] # "history"
  BY <1>4 DEF Coming
<1> QED BY <1>2, <1>3, <1>4

LEMMA FeedTyped ==
    ASSUME TypeInv, NEW n \in Conns, LinkOf(n)
    PROVE  FeedOf(n) \in Seq(ChatEvents)
<1>1. CASE torn[n]
  BY <1>1 DEF FeedOf
<1>2. CASE ~torn[n]
  <2>1. Chats(toPage[n]) \in Seq(ChatEvents) /\ Coming(n) \in Seq(ChatEvents)
    BY <1>2, CellTyped, ChatsAreEvents, ComingTyped DEF CellTypes
  <2> QED BY <1>2, <2>1 DEF FeedOf
<1> QED BY <1>1, <1>2

-----------------------------------------------------------------------------
(* What a step does to the feed of a socket *)

Over(n) == up[n] # "none" /\ (up[n] # "open" \/ torn[n] \/ Shut(n))
Started(n) == pump[n] = "on" \/ Responded(n)

LEMMA PhaseIs ==
    ASSUME NEW n \in Conns
    PROVE  /\ PhaseOf(n) = IF Over(n) THEN "over" ELSE IF Started(n) THEN "open" ELSE "new"
           /\ PhaseOf(n)' = IF Over(n)' THEN "over" ELSE IF Started(n)' THEN "open" ELSE "new"
BY DEF PhaseOf, Over, Started

Same(n) == PhaseOf(n)' = PhaseOf(n) /\ FeedOf(n)' = FeedOf(n)
Subscribes(n) == PhaseOf(n) = "new" /\ PhaseOf(n)' = "open" /\ FeedOf(n)' = FeedOf(n)
Stops(n) ==
    /\ PhaseOf(n) # "over" /\ PhaseOf(n)' = "over"
    /\ \E i \in 0 .. Len(FeedOf(n)) : FeedOf(n)' = SubSeq(FeedOf(n), 1, i)
Drops(n) == PhaseOf(n) = "over" /\ PhaseOf(n)' = "over" /\ FeedOf(n)' = <<>>

\* Nothing is added to the feed and nothing taken by the page.
Quiet(n) == Same(n) \/ Subscribes(n) \/ Stops(n) \/ Drops(n)

LEMMA SameCell ==
    ASSUME NEW n \in Conns, UNCHANGED Cell(n), LinkOf(n)
    PROVE  Same(n) /\ LinkOf(n)'
<1>1. /\ srv'[n] = srv[n] /\ pump'[n] = pump[n] /\ up'[n] = up[n] /\ asked'[n] = asked[n]
      /\ fromGw'[n] = fromGw[n] /\ torn'[n] = torn[n] /\ toPage'[n] = toPage[n]
      /\ Shut(n)' <=> Shut(n)
  BY DEF Cell
<1>2. PhaseOf(n)' = PhaseOf(n)
  BY <1>1, PhaseIs DEF Over, Started, Responded
<1>3. FeedOf(n)' = FeedOf(n)
  BY <1>1 DEF FeedOf, Coming
<1>4. LinkOf(n)'
  BY <1>1 DEF LinkOf
<1> QED BY <1>2, <1>3, <1>4 DEF Same

\* Socket and feed are gone.
LEMMA GoneIsQuiet ==
    ASSUME TypeInv, NEW n \in Conns, LinkOf(n), PhaseOf(n)' = "over", FeedOf(n)' = <<>>
    PROVE  Quiet(n)
<1>1. FeedOf(n) \in Seq(ChatEvents)
  BY FeedTyped
<1>2. CASE PhaseOf(n) = "over"
  BY <1>2 DEF Quiet, Drops
<1>3. CASE PhaseOf(n) # "over"
  <2>1. 0 \in 0 .. Len(FeedOf(n)) /\ SubSeq(FeedOf(n), 1, 0) = <<>>
    BY <1>1, SubSeqEmpty
  <2> QED BY <1>3, <2>1 DEF Quiet, Stops
<1> QED BY <1>2, <1>3

\* The gateway's socket is gone with what was in it.
LEMMA CutIsQuiet ==
    ASSUME TypeInv, NEW n \in Conns, LinkOf(n),
           up'[n] \in {"broken", "closed"}, fromGw'[n] = <<>>,
           torn'[n] = torn[n], socket'[n] = socket[n],
           Chats(toPage'[n]) = Chats(toPage[n])
    PROVE  Quiet(n)
<1>1. PhaseOf(n)' = "over"
  BY PhaseIs DEF Over
<1>2. NoRes(fromGw'[n])
  BY DEF NoRes, ResAt
<1>3. Coming(n)' = <<>>
  BY <1>2, BehindNone DEF Coming
<1>4. Chats(toPage[n]) \in Seq(ChatEvents)
  BY CellTyped, ChatsAreEvents DEF CellTypes
<1>5. CASE torn[n] \/ Shut(n)
  BY <1>1, <1>5, GoneIsQuiet DEF FeedOf
<1>6. CASE ~(torn[n] \/ Shut(n))
  <2>1. FeedOf(n)' = Chats(toPage[n]) /\ FeedOf(n) = Chats(toPage[n]) \o Coming(n)
    BY <1>3, <1>4, <1>6 DEF FeedOf
  <2>2. Coming(n) \in Seq(ChatEvents) /\ (up[n] # "open" => Coming(n) = <<>>)
    BY <1>6, ComingTyped
  <2>3. CASE PhaseOf(n) = "over"
    <3>1. Coming(n) = <<>>
      BY <1>6, <2>2, <2>3, PhaseIs DEF Over
    <3> QED BY <1>1, <1>4, <2>1, <2>3, <3>1 DEF Quiet, Same
  <2>4. CASE PhaseOf(n) # "over"
    <3> DEFINE i == Len(Chats(toPage[n]))
    <3>1. i \in 0 .. Len(FeedOf(n)) /\ SubSeq(FeedOf(n), 1, i) = Chats(toPage[n])
      BY <1>4, <2>1, <2>2
    <3> QED BY <1>1, <2>1, <2>4, <3>1 DEF Quiet, Stops
  <2> QED BY <2>3, <2>4
<1> QED BY <1>5, <1>6

\* Frames without chat events are written to the page.
LEMMA WritesNoChat ==
    ASSUME TypeInv, NEW n \in Conns, NEW f \in PageFrames, ~IsChat(f)
    PROVE  /\ Chats(Written(n, <<f>>)[n]) = Chats(toPage[n])
           /\ Chats(Written(n, <<>>)[n]) = Chats(toPage[n])
           /\ Chats(Written(n, <<Control("close")>>)[n]) = Chats(toPage[n])
           /\ Chats(Written(n, <<f>> \o <<Control("close")>>)[n]) = Chats(toPage[n])
           /\ Chats(Written(n, <<>> \o <<Control("close")>>)[n]) = Chats(toPage[n])
<1> DEFINE s == toPage[n]
           c == Control("close")
<1>1. s \in Seq(PageFrames) /\ toPage \in [Conns -> Seq(PageFrames)]
  BY CellTyped DEF CellTypes, TypeInv, BridgeInv, SocketsTypeOK
<1>2. c \in PageFrames /\ ~IsChat(c)
  BY FramesTyped DEF Control, IsChat
<1> HIDE DEF s, c
<1>3. s \o <<f>> \in Seq(PageFrames)
  BY <1>1
<1>4. Chats(s \o <<f>>) = Chats(s) /\ Chats(s \o <<c>>) = Chats(s)
  BY <1>1, <1>2, ChatsAppend
<1>5. Chats((s \o <<f>>) \o <<c>>) = Chats(s)
  BY <1>2, <1>3, <1>4, ChatsAppend
<1>6. s \o (<<f>> \o <<c>>) = (s \o <<f>>) \o <<c>> /\ s \o <<>> = s /\ <<>> \o <<c>> = <<c>>
  BY <1>1, <1>2
<1> QED BY <1>1, <1>4, <1>5, <1>6 DEF Written, s, c

-----------------------------------------------------------------------------
(* The steps of the bridge *)

LEMMA OthersKeepCell ==
    ASSUME TypeInv, NEW m \in Conns, NEW n \in Conns, n # m,
           \/ Handle(m) \/ Pump(m) \/ PumpEnds(m) \/ GatewayAnswers(m)
           \/ GatewayRefuses(m) \/ SendRefused(m) \/ DialFails(m) \/ TimesOut(m) \/ UpstreamBreaks(m)
    PROVE  UNCHANGED Cell(n)
<1> USE DEF TypeInv, BridgeInv, BridgeTypeOK, BridgeTypes, SocketsTypeOK, sockets, handler, upstream
<1>1. srv'[n] = srv[n] /\ torn'[n] = torn[n] /\ toPage'[n] = toPage[n] /\ socket' = socket
  <2>1. CASE Dial(m) \/ ReadHistory(m) \/ PumpEnds(m) \/ UpstreamBreaks(m)
    BY <2>1 DEF Dial, At, ReadHistory, PumpEnds, UpstreamBreaks
  <2>2. CASE ReadRes(m)
    BY <2>2 DEF ReadRes, At, Ready, StartPump, SendHistory, Unreachable, Leave, Written
  <2>3. CASE Select(m) \/ PageGone(m) \/ DialFails(m)
    BY <2>3 DEF Select, PageGone, DialFails, Unreachable, Leave, Written, At
  <2>4. CASE RequestFails(m) \/ TimesOut(m)
    BY <2>4 DEF RequestFails, TimesOut, Abandon, Unreachable, Leave, Written, At
  <2>5. CASE Pump(m) \/ ReadSend(m) \/ SendRefused(m)
    BY <2>5 DEF Pump, ReadSend, SendRefused, TakeSend, Written, At
  <2>6. CASE GatewayAnswers(m) \/ GatewayRefuses(m)
    BY <2>6 DEF GatewayAnswers, GatewayRefuses, Respond
  <2> QED BY <2>1, <2>2, <2>3, <2>4, <2>5, <2>6 DEF Handle
<1>2. pump'[n] = pump[n] /\ up'[n] = up[n] /\ asked'[n] = asked[n] /\ fromGw'[n] = fromGw[n]
  <2>1. CASE Dial(m) \/ ReadHistory(m) \/ PumpEnds(m) \/ UpstreamBreaks(m)
    BY <2>1 DEF Dial, Ask, ReadHistory, PumpEnds, UpstreamBreaks, Cut
  <2>2. CASE ReadRes(m)
    BY <2>2 DEF ReadRes, Ask, Ready, StartPump, SendHistory, Unreachable, Leave, Cut
  <2>3. CASE Select(m) \/ PageGone(m) \/ DialFails(m)
    BY <2>3 DEF Select, PageGone, DialFails, Unreachable, Leave, Cut
  <2>4. CASE RequestFails(m) \/ TimesOut(m)
    BY <2>4 DEF RequestFails, TimesOut, Abandon, Unreachable, Leave, Cut
  <2>5. CASE Pump(m) \/ ReadSend(m) \/ SendRefused(m)
    BY <2>5 DEF Pump, ReadSend, SendRefused, TakeSend
  <2>6. CASE GatewayAnswers(m) \/ GatewayRefuses(m)
    <3>1. PICK ok \in BOOLEAN : Respond(m, ok)
      BY <2>6 DEF GatewayAnswers, GatewayRefuses
    <3>2. UNCHANGED <<pump, up>>
      BY <3>1 DEF Respond
    <3>3. asked'[n] = asked[n]
      BY <3>1 DEF Respond
    <3>4. fromGw'[n] = fromGw[n]
      BY <3>1 DEF Respond
    <3> QED BY <3>2, <3>3, <3>4
  <2> QED BY <2>1, <2>2, <2>3, <2>4, <2>5, <2>6 DEF Handle
<1> QED BY <1>1, <1>2 DEF Cell

LEMMA RespondIsQuiet ==
    ASSUME TypeInv, NEW n \in Conns, LinkOf(n), NEW ok \in BOOLEAN, Respond(n, ok)
    PROVE  Quiet(n) /\ LinkOf(n)'
<1> DEFINE a == Answer(asked[n], ok)
<1>1. /\ CellTypes(n) /\ asked[n] # "none" /\ up[n] = "open"
      /\ asked'[n] = "none" /\ fromGw'[n] = Append(fromGw[n], a)
      /\ UNCHANGED <<srv, pump, up, torn, socket, toPage>>
  BY CellTyped DEF Respond, handler, TypeInv, BridgeInv, BridgeTypeOK, BridgeTypes
<1>2. a \in Responses \union ChatEvents /\ a.t = "res"
  BY <1>1, AnswerTyped DEF TypeInv, BridgeInv, CellTypes, Answer
<1> HIDE DEF a
<1>3. CASE torn[n]
  <2>1. Over(n) /\ Over(n)' /\ FeedOf(n) = <<>> /\ FeedOf(n)' = <<>>
    BY <1>1, <1>3 DEF Over, FeedOf
  <2>2. LinkOf(n)'
    BY <1>1, <1>3 DEF LinkOf, Connects
  <2> QED BY <2>1, <2>2, PhaseIs DEF Quiet, Same
<1>4. CASE ~torn[n]
  <2>1. srv[n] \in Connects /\ pump[n] = "off" /\ NoRes(fromGw[n])
    BY <1>1, <1>4 DEF LinkOf, Connects, CellTypes
  <2>2. OneRes(fromGw'[n]) /\ Behind(fromGw'[n]) = <<>> /\ Behind(fromGw[n]) = <<>>
    BY <1>1, <1>2, <2>1, BehindAppend, BehindNone DEF CellTypes
  <2>3. LinkOf(n)'
    BY <1>1, <1>4, <2>1, <2>2 DEF LinkOf, Connects
  <2>4. FeedOf(n)' = FeedOf(n)
    BY <1>1, <2>1, <2>2 DEF FeedOf, Coming
  <2>5. (Over(n)' <=> Over(n)) /\ ~Started(n)
    BY <1>1, <2>1 DEF Over, Started, Responded
  <2> QED BY <2>3, <2>4, <2>5, PhaseIs DEF Quiet, Same, Subscribes
<1> QED BY <1>3, <1>4

LEMMA BreakIsQuiet ==
    ASSUME TypeInv, NEW n \in Conns, LinkOf(n), UpstreamBreaks(n)
    PROVE  Quiet(n) /\ LinkOf(n)'
<1>1. /\ CellTypes(n) /\ up[n] = "open" /\ up'[n] = "broken" /\ asked'[n] = "none" /\ fromGw'[n] = <<>>
      /\ UNCHANGED <<srv, pump, torn, socket, toPage>>
  BY CellTyped DEF UpstreamBreaks, Cut, handler, TypeInv, BridgeInv, BridgeTypeOK, BridgeTypes
<1>2. Quiet(n)
  BY <1>1, CutIsQuiet
<1>3. NoRes(fromGw'[n])
  BY <1>1 DEF NoRes, ResAt
<1>4. LinkOf(n)'
  BY <1>1, <1>3 DEF LinkOf, Connects
<1> QED BY <1>2, <1>4

LEMMA LeaveIsQuiet ==
    ASSUME TypeInv, NEW n \in Conns, LinkOf(n), torn' = torn, socket' = socket,
           Leave(n, <<>>) \/ Leave(n, <<Control("failed")>>)
    PROVE  Quiet(n) /\ LinkOf(n)'
<1>1. /\ CellTypes(n) /\ srv'[n] = "done" /\ pump'[n] = "off" /\ up'[n] = "closed"
      /\ asked'[n] = "none" /\ fromGw'[n] = <<>>
  BY CellTyped DEF Leave, At, Cut, TypeInv, BridgeInv, BridgeTypeOK, BridgeTypes
<1>2. Control("failed") \in PageFrames /\ ~IsChat(Control("failed"))
  BY FramesTyped DEF Control, IsChat
<1>3. Chats(toPage'[n]) = Chats(toPage[n])
  <2>1. CASE Leave(n, <<>>)
    <3>1. toPage' = Written(n, <<>> \o <<Control("close")>>)
      BY <2>1 DEF Leave
    <3> QED BY <1>2, <3>1, WritesNoChat
  <2>2. CASE Leave(n, <<Control("failed")>>)
    <3>1. toPage' = Written(n, <<Control("failed")>> \o <<Control("close")>>)
      BY <2>2 DEF Leave
    <3> QED BY <1>2, <3>1, WritesNoChat
  <2> QED BY <2>1, <2>2
<1>4. Quiet(n)
  BY <1>1, <1>3, CutIsQuiet
<1>5. LinkOf(n)'
  BY <1>1 DEF LinkOf, Connects
<1> QED BY <1>4, <1>5

LEMMA AbandonIsQuiet ==
    ASSUME TypeInv, NEW n \in Conns, LinkOf(n), Abandon(n)
    PROVE  Quiet(n) /\ LinkOf(n)'
<1>1. CASE Unreachable(n)
  BY <1>1, LeaveIsQuiet DEF Abandon, Unreachable
<1>2. CASE ~Unreachable(n)
  <2>1. /\ CellTypes(n) /\ srv[n] \in {"history", "ask"} /\ srv'[n] = "select"
        /\ up'[n] = "broken" /\ asked'[n] = "none" /\ fromGw'[n] = <<>>
        /\ pump'[n] = IF srv[n] = "history" THEN "on" ELSE pump[n]
        /\ UNCHANGED <<torn, socket, toPage>>
    BY <1>2, CellTyped DEF Abandon, At, Cut, TypeInv, BridgeInv, BridgeTypeOK, BridgeTypes
  <2>2. Quiet(n)
    BY <2>1, CutIsQuiet
  <2>3. NoRes(fromGw'[n])
    BY <2>1 DEF NoRes, ResAt
  <2>4. LinkOf(n)'
    BY <2>1, <2>3 DEF LinkOf, Connects
  <2> QED BY <2>2, <2>4
<1> QED BY <1>1, <1>2

LEMMA DialIsQuiet ==
    ASSUME TypeInv, NEW n \in Conns, LinkOf(n), Dial(n)
    PROVE  Quiet(n) /\ LinkOf(n)'
<1>1. /\ srv[n] = "dial" /\ srv'[n] = "list" /\ up[n] = "none" /\ up'[n] = "open"
      /\ asked'[n] = "list" /\ fromGw[n] = <<>> /\ pump[n] = "off" /\ ~torn[n]
      /\ UNCHANGED <<fromGw, pump, torn, socket, toPage>>
  BY CellTyped DEF Dial, At, Ask, sockets, LinkOf, TypeInv, BridgeInv, BridgeTypeOK, BridgeTypes
<1>2. LinkOf(n)'
  BY <1>1 DEF LinkOf, Connects, NoRes, ResAt
<1>3. FeedOf(n)' = FeedOf(n) /\ PhaseOf(n) = "new"
  BY <1>1, PhaseIs DEF FeedOf, Coming, Over, Started, Responded
<1>4. CASE Shut(n)
  BY <1>1, <1>2, <1>4, GoneIsQuiet, PhaseIs DEF FeedOf, Over
<1>5. CASE ~Shut(n)
  BY <1>1, <1>2, <1>3, <1>5, PhaseIs DEF Over, Started, Responded, Quiet, Same
<1> QED BY <1>4, <1>5

\* The answer to a request of the bootstrap.
LEMMA AnsweredNext ==
    ASSUME TypeInv, NEW n \in Conns, LinkOf(n), srv[n] \in Connects, fromGw[n] # <<>>,
           Head(fromGw[n]).t = "res"
    PROVE  /\ up[n] = "open" /\ asked[n] = "none" /\ pump[n] = "off" /\ ~torn[n]
           /\ NoRes(Tail(fromGw[n])) /\ Behind(fromGw[n]) = Tail(fromGw[n])
<1>1. fromGw[n] \in Seq(Responses \union ChatEvents) /\ up[n] = "open"
  BY CellTyped DEF CellTypes
<1>2. ~NoRes(fromGw[n])
  <2>1. 1 \in DOMAIN fromGw[n] /\ Head(fromGw[n]) = fromGw[n][1]
    BY <1>1
  <2> QED BY <2>1 DEF NoRes, ResAt
<1>3. asked[n] = "none" /\ OneRes(fromGw[n]) /\ pump[n] = "off" /\ ~torn[n]
  BY <1>1, <1>2 DEF LinkOf
<1> QED BY <1>1, <1>3, BehindTail

LEMMA ReadResIsQuiet ==
    ASSUME TypeInv, NEW n \in Conns, LinkOf(n), OrderOf(n), ReadRes(n)
    PROVE  Quiet(n) /\ LinkOf(n)'
<1> DEFINE f == Head(fromGw[n])
           g == fromGw[n]
<1>1. /\ CellTypes(n) /\ srv[n] \in {"list", "create", "history", "ask"} /\ g # <<>> /\ up[n] = "open"
      /\ g \in Seq(Responses \union ChatEvents)
      /\ torn' = torn /\ socket' = socket
      /\ srv[n] = "ask" => torn[n]
  BY CellTyped DEF ReadRes, CellTypes, OrderOf
<1> USE DEF TypeInv, BridgeInv, BridgeTypeOK, BridgeTypes
<1>2. CASE f.t # "res"
  <2>1. fromGw'[n] = Tail(g) /\ UNCHANGED <<toPage, srv, pump, up, asked>>
    BY <1>2 DEF ReadRes
  <2>2. /\ NoRes(g) => NoRes(Tail(g))
        /\ OneRes(g) => OneRes(Tail(g)) /\ Behind(Tail(g)) = Behind(g)
    BY <1>1, <1>2, BehindTail
  <2>3. LinkOf(n)'
    BY <1>1, <2>1, <2>2 DEF LinkOf, Connects
  <2>4. PhaseOf(n)' = PhaseOf(n)
    BY <1>1, <2>1, PhaseIs DEF Over, Started, Responded
  <2>5. FeedOf(n)' = FeedOf(n)
    <3>1. CASE torn[n]
      BY <1>1, <3>1 DEF FeedOf
    <3>2. CASE ~torn[n]
      <4>1. srv[n] \in Connects /\ pump[n] = "off"
        BY <1>1, <3>2 DEF LinkOf, Connects
      <4>2. Behind(Tail(g)) = Behind(g)
        <5>1. CASE asked[n] = "none"
          BY <1>1, <2>2, <4>1, <5>1 DEF LinkOf
        <5>2. CASE asked[n] # "none"
          <6>1. NoRes(g)
            BY <4>1, <5>2 DEF LinkOf
          <6> QED BY <2>2, <6>1, BehindNone
        <5> QED BY <5>1, <5>2
      <4>3. Coming(n)' = Coming(n)
        BY <2>1, <4>1, <4>2 DEF Coming
      <4> QED BY <1>1, <2>1, <4>3 DEF FeedOf
    <3> QED BY <3>1, <3>2
  <2> QED BY <2>3, <2>4, <2>5 DEF Quiet, Same
<1>3. CASE f.t = "res" /\ srv[n] \in {"list", "create"} /\ ~Unreachable(n)
  <2>1. /\ asked[n] = "none" /\ pump[n] = "off" /\ ~torn[n]
        /\ NoRes(Tail(g))
    BY <1>1, <1>3, AnsweredNext DEF Connects
  <2>2. /\ fromGw'[n] = Tail(g) /\ UNCHANGED <<pump, up>>
        /\ asked'[n] \in {"history", "create"} /\ srv'[n] = asked'[n]
        /\ toPage' \in {toPage, Written(n, <<Control("ready")>>)}
    BY <1>3 DEF ReadRes, Ready, At, Ask
  <2>3. Control("ready") \in PageFrames /\ ~IsChat(Control("ready"))
    BY FramesTyped DEF Control, IsChat
  <2>4. Chats(toPage'[n]) = Chats(toPage[n])
    BY <2>2, <2>3, WritesNoChat
  <2>5. LinkOf(n)'
    BY <1>1, <2>1, <2>2 DEF LinkOf, Connects
  <2>6. Coming(n) = <<>> /\ Coming(n)' = <<>>
    BY <1>3, <2>1, <2>2, BehindNone DEF Coming
  <2>7. FeedOf(n)' = FeedOf(n)
    BY <1>1, <2>4, <2>6 DEF FeedOf
  <2>8. PhaseOf(n)' = PhaseOf(n)
    BY <1>1, <1>3, <2>1, <2>2, PhaseIs DEF Over, Started, Responded
  <2> QED BY <2>5, <2>7, <2>8 DEF Quiet, Same
<1>4. CASE Unreachable(n)
  BY <1>1, <1>4, LeaveIsQuiet DEF Unreachable
<1>5. CASE f.t = "res" /\ srv[n] = "history"
  <2>1. /\ asked[n] = "none" /\ pump[n] = "off" /\ ~torn[n]
        /\ NoRes(Tail(g)) /\ Behind(g) = Tail(g)
    BY <1>1, <1>5, AnsweredNext DEF Connects
  <2>2. /\ fromGw'[n] = Tail(g) /\ srv'[n] = "select" /\ pump'[n] = "on"
        /\ toPage' \in {Written(n, <<>>), Written(n, <<History(f)>>)}
        /\ UNCHANGED <<up, asked>>
    BY <1>5 DEF ReadRes, StartPump, At
  <2>3. History(f) \in PageFrames /\ ~IsChat(History(f))
    BY HistoryTyped DEF IsChat
  <2>4. Chats(toPage'[n]) = Chats(toPage[n])
    BY <2>2, <2>3, WritesNoChat
  <2>5. LinkOf(n)'
    BY <1>1, <2>1, <2>2 DEF LinkOf, Connects
  <2>6. Coming(n)' = Coming(n)
    BY <1>5, <2>1, <2>2 DEF Coming
  <2>7. FeedOf(n)' = FeedOf(n)
    BY <1>1, <2>4, <2>6 DEF FeedOf
  <2>8. PhaseOf(n)' = PhaseOf(n)
    BY <1>1, <1>5, <2>1, <2>2, PhaseIs DEF Over, Started, Responded
  <2> QED BY <2>5, <2>7, <2>8 DEF Quiet, Same
<1>6. CASE f.t = "res" /\ srv[n] = "ask"
  <2>1. srv'[n] = "select" /\ UNCHANGED <<pump, up, asked>>
    BY <1>6 DEF ReadRes, SendHistory, At
  <2>2. LinkOf(n)'
    BY <1>1, <1>6, <2>1 DEF LinkOf, Connects
  <2>3. Over(n) /\ Over(n)' /\ FeedOf(n) = <<>> /\ FeedOf(n)' = <<>>
    BY <1>1, <1>6, <2>1 DEF Over, FeedOf
  <2> QED BY <2>2, <2>3, PhaseIs DEF Quiet, Same
<1> QED BY <1>1, <1>2, <1>3, <1>4, <1>5, <1>6

LEMMA MovedOver ==
    ASSUME NEW S, NEW s \in Seq(S), NEW g \in Seq(S), g # <<>>
    PROVE  Append(s, Head(g)) \o Tail(g) = s \o g
<1>1. Len(g) \in Nat \ {0} /\ Head(g) = g[1] /\ Tail(g) \in Seq(S)
      /\ Len(Tail(g)) = Len(g) - 1 /\ \A i \in 1 .. Len(g) - 1 : Tail(g)[i] = g[i + 1]
  OBVIOUS
<1> DEFINE a == Append(s, Head(g)) \o Tail(g)
           b == s \o g
<1>2. /\ a \in Seq(S) /\ Len(a) = Len(s) + Len(g)
      /\ \A i \in 1 .. Len(s) + Len(g) :
            a[i] = IF i <= Len(s) THEN s[i] ELSE g[i - Len(s)]
  BY <1>1
<1>3. /\ b \in Seq(S) /\ Len(b) = Len(s) + Len(g)
      /\ \A i \in 1 .. Len(s) + Len(g) :
            b[i] = IF i <= Len(s) THEN s[i] ELSE g[i - Len(s)]
  OBVIOUS
<1> HIDE DEF a, b
<1>4. a = b
  BY <1>2, <1>3, SeqEqual
<1> QED BY <1>4 DEF a, b

\* A chat event goes over from the gateway's frames to the page's.
LEMMA PumpIsQuiet ==
    ASSUME TypeInv, NEW n \in Conns, LinkOf(n), Pump(n)
    PROVE  Quiet(n) /\ LinkOf(n)'
<1> DEFINE f == Head(fromGw[n])
           g == fromGw[n]
<1>1. /\ CellTypes(n) /\ g \in Seq(Responses \union ChatEvents) /\ g # <<>> /\ up[n] = "open"
      /\ pump[n] = "on" /\ srv[n] \in {"select", "read", "ask"} /\ fromGw'[n] = Tail(g)
      /\ toPage' = IF IsChat(f) THEN Written(n, <<f>>) ELSE toPage
      /\ UNCHANGED <<socket, srv, pump, torn, up, asked>>
  BY CellTyped DEF Pump, CellTypes, handler, TypeInv, BridgeInv, BridgeTypeOK, BridgeTypes
<1>2. NoRes(g) => NoRes(Tail(g))
  BY <1>1, BehindTail
<1>3. LinkOf(n)'
  BY <1>1, <1>2 DEF LinkOf, Connects
<1>4. PhaseOf(n)' = PhaseOf(n)
  BY <1>1, PhaseIs DEF Over, Started, Responded
<1>5. CASE torn[n] \/ Shut(n)
  BY <1>1, <1>3, <1>4, <1>5 DEF FeedOf, Quiet, Same
<1>6. CASE ~(torn[n] \/ Shut(n))
  <2>1. socket[n] = "open" /\ toPage \in [Conns -> Seq(PageFrames)]
    BY <1>1, <1>6, CellTyped DEF CellTypes, TypeInv, BridgeInv, SocketsTypeOK
  <2>2. f \in ChatEvents /\ g \in Seq(ChatEvents)
    <3>1. NoRes(g)
      BY <1>1, <1>6 DEF LinkOf
    <3>2. \A i \in 1 .. Len(g) : g[i] \in ChatEvents
      BY <1>1, <3>1, NotRes DEF NoRes
    <3> QED BY <1>1, <3>2
  <2>3. IsChat(f) /\ f \in PageFrames
    BY <2>2, FramesTyped, ChatEventFields DEF IsChat
  <2>4. toPage'[n] = toPage[n] \o <<f>>
    BY <1>1, <2>1, <2>3 DEF Written
  <2>5. Chats(toPage'[n]) = Append(Chats(toPage[n]), f)
    BY <2>1, <2>3, <2>4, ChatsAppend
  <2>6. Chats(toPage[n]) \in Seq(ChatEvents)
    BY <1>1, ChatsAreEvents DEF CellTypes
  <2>7. Append(Chats(toPage[n]), f) \o Tail(g) = Chats(toPage[n]) \o g
    BY <1>1, <2>2, <2>6, MovedOver
  <2>8. FeedOf(n)' = Append(Chats(toPage[n]), f) \o Tail(g) /\ FeedOf(n) = Chats(toPage[n]) \o g
    BY <1>1, <1>6, <2>5 DEF FeedOf, Coming
  <2> QED BY <1>3, <1>4, <2>7, <2>8 DEF Quiet, Same
<1> QED BY <1>5, <1>6

LEMMA PumpEndsIsQuiet ==
    ASSUME TypeInv, NEW n \in Conns, LinkOf(n), PumpEnds(n)
    PROVE  Quiet(n) /\ LinkOf(n)'
<1>1. /\ CellTypes(n) /\ pump[n] = "on" /\ pump'[n] = "ended" /\ up[n] = "broken"
      /\ srv[n] \in {"select", "read", "ask"} /\ fromGw[n] = <<>>
      /\ UNCHANGED <<sockets, srv, torn, upstream>>
  BY CellTyped DEF PumpEnds, TypeInv, BridgeInv, BridgeTypeOK, BridgeTypes
<1>2. LinkOf(n)'
  BY <1>1 DEF LinkOf, Connects, upstream
<1>3. PhaseOf(n)' = PhaseOf(n)
  BY <1>1, PhaseIs DEF Over, sockets, upstream
<1>4. FeedOf(n)' = FeedOf(n)
  BY <1>1 DEF FeedOf, Coming, sockets, upstream
<1> QED BY <1>2, <1>3, <1>4 DEF Quiet, Same

LEMMA SelectIsQuiet ==
    ASSUME TypeInv, NEW n \in Conns, LinkOf(n), Select(n) \/ PageGone(n) \/ DialFails(n)
    PROVE  Quiet(n) /\ LinkOf(n)'
<1>1. CASE Leave(n, <<>>) \/ Leave(n, <<Control("failed")>>)
  BY <1>1, LeaveIsQuiet DEF Select, PageGone, DialFails
<1>2. CASE Select(n) /\ pump[n] # "ended"
  <2>1. /\ srv[n] = "select" /\ srv'[n] = "read"
        /\ UNCHANGED <<socket, pump, toPage, upstream, torn>>
    BY <1>2 DEF Select, At, TypeInv, BridgeInv, BridgeTypeOK, BridgeTypes
  <2>2. LinkOf(n)'
    BY <2>1 DEF LinkOf, Connects, upstream
  <2>3. PhaseOf(n)' = PhaseOf(n) /\ FeedOf(n)' = FeedOf(n)
    BY <2>1, PhaseIs DEF Over, Started, Responded, FeedOf, Coming, upstream
  <2> QED BY <2>2, <2>3 DEF Quiet, Same
<1> QED BY <1>1, <1>2 DEF Select, PageGone, DialFails, Unreachable

LEMMA ReadSendIsQuiet ==
    ASSUME TypeInv, NEW n \in Conns, LinkOf(n), ReadSend(n) \/ SendRefused(n)
    PROVE  Quiet(n) /\ LinkOf(n)'
<1>1. /\ srv[n] = "read" /\ srv'[n] = "select"
      /\ toPage' \in {toPage, Written(n, <<Control("failed")>>)}
      /\ UNCHANGED <<socket, pump, torn, upstream>>
  BY DEF ReadSend, SendRefused, TakeSend, At, TypeInv, BridgeInv, BridgeTypeOK, BridgeTypes
<1>2. LinkOf(n)'
  BY <1>1 DEF LinkOf, Connects, upstream
<1>3. Chats(toPage'[n]) = Chats(toPage[n])
  <2>1. Control("failed") \in PageFrames /\ ~IsChat(Control("failed"))
    BY FramesTyped DEF Control, IsChat
  <2> QED BY <1>1, <2>1, WritesNoChat
<1>4. PhaseOf(n)' = PhaseOf(n)
  BY <1>1, PhaseIs DEF Over, Started, Responded, upstream
<1>5. FeedOf(n)' = FeedOf(n)
  BY <1>1, <1>3 DEF FeedOf, Coming, upstream
<1> QED BY <1>2, <1>4, <1>5 DEF Quiet, Same

\* A history request beside the pump: nothing is promised from here on.
LEMMA ReadHistoryIsQuiet ==
    ASSUME TypeInv, NEW n \in Conns, LinkOf(n), ReadHistory(n)
    PROVE  Quiet(n) /\ LinkOf(n)'
<1>1. /\ CellTypes(n) /\ srv[n] = "read" /\ srv'[n] = "ask" /\ torn'[n]
      /\ UNCHANGED <<pump, up, fromGw>>
  BY CellTyped DEF ReadHistory, At, TypeInv, BridgeInv, BridgeTypeOK, BridgeTypes
<1>2. LinkOf(n)'
  BY <1>1 DEF LinkOf, Connects
<1>3. PhaseOf(n)' = "over" /\ FeedOf(n)' = <<>>
  BY <1>1, PhaseIs DEF Over, FeedOf, LinkOf
<1> QED BY <1>2, <1>3, GoneIsQuiet

\* A step of the bridge for socket m.
LEMMA ServesQuietly ==
    ASSUME FeedInv, NEW m \in Conns,
           \/ Handle(m) \/ Pump(m) \/ PumpEnds(m) \/ GatewayAnswers(m)
           \/ GatewayRefuses(m) \/ SendRefused(m) \/ DialFails(m) \/ TimesOut(m) \/ UpstreamBreaks(m)
    PROVE  /\ Quiet(m)
           /\ \A n \in Conns \ {m} : Same(n)
           /\ \A n \in Conns : LinkOf(n)'
<1>1. TypeInv /\ \A n \in Conns : LinkOf(n) /\ OrderOf(n)
  BY DEF FeedInv, OrderInv
<1>2. Quiet(m) /\ LinkOf(m)'
  BY <1>1, RespondIsQuiet, BreakIsQuiet, AbandonIsQuiet, DialIsQuiet, ReadResIsQuiet, PumpIsQuiet,
     PumpEndsIsQuiet, SelectIsQuiet, ReadSendIsQuiet, ReadHistoryIsQuiet
     DEF Handle, GatewayAnswers, GatewayRefuses, RequestFails, TimesOut
<1>3. \A n \in Conns \ {m} : Same(n) /\ LinkOf(n)'
  BY <1>1, OthersKeepCell, SameCell
<1> QED BY <1>2, <1>3

\* What the agent says is added to the feed of every subscribed socket.
Told(n, e) ==
    /\ PhaseOf(n)' = PhaseOf(n)
    /\ FeedOf(n)' = IF PhaseOf(n) = "open" THEN Append(FeedOf(n), e) ELSE FeedOf(n)

LEMMA AppendedLater ==
    ASSUME NEW S, NEW s \in Seq(S), NEW t \in Seq(S), NEW e \in S
    PROVE  s \o Append(t, e) = Append(s \o t, e)
<1> DEFINE a == s \o Append(t, e)
           b == Append(s \o t, e)
<1>1. a \in Seq(S) /\ b \in Seq(S) /\ Len(a) = Len(s) + Len(t) + 1 /\ Len(b) = Len(s) + Len(t) + 1
  OBVIOUS
<1>2. \A i \in 1 .. Len(a) : a[i] = b[i]
  OBVIOUS
<1> HIDE DEF a, b
<1>3. a = b
  BY <1>1, <1>2, SeqEqual
<1> QED BY <1>3 DEF a, b

LEMMA BroadcastIsTold ==
    ASSUME FeedInv, NEW n \in Conns, NEW e \in ChatEvents, Broadcast(e),
           UNCHANGED <<socket, toPage, handler, up, asked>>
    PROVE  Told(n, e) /\ LinkOf(n)'
<1> DEFINE g == fromGw[n]
<1>1. /\ TypeInv /\ LinkOf(n) /\ CellTypes(n) /\ g \in Seq(Responses \union ChatEvents)
      /\ e \in Responses \union ChatEvents /\ e.t # "res"
      /\ UNCHANGED <<srv, pump, torn>>
      /\ fromGw'[n] = IF up[n] = "open" THEN Append(g, e) ELSE g
  BY CellTyped, ChatEventFields DEF FeedInv, OrderInv, CellTypes, Broadcast, handler
<1>2. CASE up[n] # "open"
  <2>1. UNCHANGED Cell(n)
    BY <1>1, <1>2 DEF Cell
  <2>2. PhaseOf(n) # "open"
    BY <1>1, <1>2, CellTyped, PhaseIs DEF Over, Started, Responded, LinkOf
  <2> QED BY <1>1, <2>1, <2>2, SameCell DEF Same, Told
<1>3. CASE up[n] = "open"
  <2>1. /\ NoRes(g) => NoRes(Append(g, e))
        /\ OneRes(g) => OneRes(Append(g, e)) /\ Behind(Append(g, e)) = Append(Behind(g), e)
    BY <1>1, BehindAppend
  <2>2. LinkOf(n)'
    BY <1>1, <1>3, <2>1 DEF LinkOf, Connects
  <2>3. PhaseOf(n)' = PhaseOf(n)
    BY <1>1, PhaseIs DEF Over, Started, Responded
  <2>4. CASE torn[n] \/ Shut(n)
    <3>1. PhaseOf(n) = "over" /\ FeedOf(n) = <<>> /\ FeedOf(n)' = <<>>
      BY <1>1, <1>3, <2>4, PhaseIs DEF Over, FeedOf
    <3> QED BY <2>2, <2>3, <3>1 DEF Told
  <2>5. CASE ~(torn[n] \/ Shut(n))
    <3>1. PhaseOf(n) = "open" <=> Started(n)
      BY <1>3, <2>5, PhaseIs DEF Over
    <3>2. Coming(n)' = IF Started(n) THEN Append(Coming(n), e) ELSE Coming(n)
      <4>1. CASE pump[n] = "on"
        BY <1>1, <1>3, <4>1 DEF Coming, Started
      <4>2. CASE pump[n] # "on" /\ srv[n] = "history" /\ asked[n] = "none"
        <5>1. OneRes(g)
          BY <1>1, <1>3, <4>2 DEF LinkOf, Connects
        <5> QED BY <1>1, <1>3, <2>1, <4>2, <5>1 DEF Coming, Started, Responded
      <4>3. CASE pump[n] # "on" /\ srv[n] = "history" /\ asked[n] # "none"
        <5>1. NoRes(g)
          BY <1>1, <4>3 DEF LinkOf, Connects
        <5> QED BY <1>1, <1>3, <2>1, <4>3, <5>1, BehindNone DEF Coming, Started, Responded
      <4>4. CASE pump[n] # "on" /\ srv[n] # "history"
        BY <1>1, <4>4 DEF Coming, Started, Responded
      <4> QED BY <4>1, <4>2, <4>3, <4>4
    <3>3. Chats(toPage[n]) \in Seq(ChatEvents) /\ Coming(n) \in Seq(ChatEvents)
      BY <1>1, <2>5, ChatsAreEvents, ComingTyped DEF CellTypes
    <3>4. Chats(toPage[n]) \o Append(Coming(n), e) = Append(Chats(toPage[n]) \o Coming(n), e)
      BY <3>3, AppendedLater
    <3>5. FeedOf(n) = Chats(toPage[n]) \o Coming(n) /\ FeedOf(n)' = Chats(toPage[n]) \o Coming(n)'
      BY <1>1, <2>5 DEF FeedOf
    <3> QED BY <2>2, <2>3, <3>1, <3>2, <3>4, <3>5 DEF Told
  <2> QED BY <2>4, <2>5
<1> QED BY <1>2, <1>3

-----------------------------------------------------------------------------
(* The steps of the page *)

\* The page takes the first of the feed.
Takes(n) ==
    /\ PhaseOf(n)' = PhaseOf(n)
    /\ FeedOf(n) # <<>> /\ FeedOf(n)' = Tail(FeedOf(n))

\* The server accepts a socket it has not served before.
LEMMA AcceptIsQuiet ==
    ASSUME FeedInv, NEW w \in Conns, w = ws, Accept
    PROVE  /\ Quiet(w)
           /\ \A n \in Conns \ {w} : Same(n)
           /\ \A n \in Conns : LinkOf(n)'
<1>1. /\ TypeInv /\ w \in Conns /\ LinkOf(w) /\ srv[w] = "none" /\ srv'[w] = "dial"
      /\ \A n \in Conns \ {w} : srv'[n] = srv[n]
      /\ \A n \in Conns : Shut(n)' <=> Shut(n)
      /\ UNCHANGED <<toPage, pump, torn, up, asked, fromGw>>
  BY CellTyped DEF FeedInv, OrderInv, Accept, Opened, upstream, TypeInv, BridgeInv, BridgeTypeOK,
     BridgeTypes, SocketsTypeOK, Undialled, PageTypeOK, PageTypes
<1>2. \A n \in Conns \ {w} : Same(n) /\ LinkOf(n)'
  BY <1>1, SameCell DEF FeedInv, Cell
<1>3. LinkOf(w)'
  BY <1>1 DEF LinkOf, Connects
<1>4. PhaseOf(w)' = PhaseOf(w)
  BY <1>1, PhaseIs DEF Over, Started, Responded
<1>5. FeedOf(w)' = FeedOf(w)
  BY <1>1 DEF FeedOf, Coming
<1> QED BY <1>2, <1>3, <1>4, <1>5 DEF Quiet, Same

\* The page takes no more frames of the socket.
Shuts == Closed \/ StartsClosing

LEMMA ShutIsQuiet ==
    ASSUME FeedInv, NEW w \in Conns, w = ws, Shuts, UNCHANGED bridge
    PROVE  /\ Quiet(w)
           /\ \A n \in Conns \ {w} : Same(n)
           /\ \A n \in Conns : LinkOf(n)'
<1>1. /\ TypeInv /\ w \in Conns /\ LinkOf(w) /\ OrderOf(w) /\ CellTypes(w)
      /\ socket'[w] \in {"closing", "closed"}
      /\ \A n \in Conns \ {w} : socket'[n] = socket[n] /\ toPage'[n] = toPage[n]
      /\ UNCHANGED <<srv, pump, torn, up, asked, fromGw>>
  BY CellTyped DEF FeedInv, OrderInv, Shuts, Closed, StartsClosing, bridge, handler, upstream, TypeInv,
     BridgeInv, SocketsTypeOK, PageTypeOK, PageTypes
<1>2. \A n \in Conns \ {w} : Same(n) /\ LinkOf(n)'
  BY <1>1, SameCell DEF FeedInv, Cell
<1>3. LinkOf(w)'
  BY <1>1 DEF LinkOf
<1>4. FeedOf(w)' = <<>>
  BY <1>1 DEF FeedOf
<1>5. CASE up[w] # "none"
  <2>1. PhaseOf(w)' = "over"
    BY <1>1, <1>5, PhaseIs DEF Over
  <2> QED BY <1>1, <1>2, <1>3, <1>4, <2>1, GoneIsQuiet
<1>6. CASE up[w] = "none"
  <2>1. srv[w] \in {"none", "dial"} /\ pump[w] = "off"
    BY <1>1, <1>6 DEF LinkOf
  <2>2. Chats(toPage[w]) = <<>>
    BY <1>1, <2>1, ChatsEmpty DEF OrderOf, Boot, CellTypes
  <2>3. FeedOf(w) = <<>>
    BY <2>1, <2>2 DEF FeedOf, Coming
  <2>4. PhaseOf(w)' = PhaseOf(w)
    BY <1>1, <1>6, <2>1, PhaseIs DEF Over, Started, Responded
  <2> QED BY <1>2, <1>3, <1>4, <2>3, <2>4 DEF Quiet, Same
<1> QED BY <1>5, <1>6

LEMMA TakenFirst ==
    ASSUME NEW S, NEW s \in Seq(S), NEW t \in Seq(S), s # <<>>
    PROVE  s \o t # <<>> /\ Head(s \o t) = Head(s) /\ Tail(s \o t) = Tail(s) \o t
<1> DEFINE a == Tail(s \o t)
           b == Tail(s) \o t
<1>1. /\ Len(s) \in Nat \ {0} /\ Len(t) \in Nat /\ s \o t \in Seq(S)
      /\ Len(s \o t) = Len(s) + Len(t)
      /\ \A i \in 1 .. Len(s) + Len(t) :
            (s \o t)[i] = IF i <= Len(s) THEN s[i] ELSE t[i - Len(s)]
  OBVIOUS
<1>2. s \o t # <<>> /\ Head(s \o t) = Head(s)
  BY <1>1
<1>3. /\ a \in Seq(S) /\ Len(a) = Len(s) + Len(t) - 1
      /\ \A i \in 1 .. Len(s) + Len(t) - 1 : a[i] = (s \o t)[i + 1]
  BY <1>1, <1>2
<1>4. /\ Tail(s) \in Seq(S) /\ Len(Tail(s)) = Len(s) - 1
      /\ \A i \in 1 .. Len(s) - 1 : Tail(s)[i] = s[i + 1]
  BY <1>1
<1>5. /\ b \in Seq(S) /\ Len(b) = Len(s) + Len(t) - 1
      /\ \A i \in 1 .. Len(s) + Len(t) - 1 :
            b[i] = IF i <= Len(s) - 1 THEN Tail(s)[i] ELSE t[i - (Len(s) - 1)]
  BY <1>1, <1>4
<1> HIDE DEF a, b
<1>6. \A i \in 1 .. Len(s) + Len(t) - 1 : a[i] = b[i]
  <2> TAKE i \in 1 .. Len(s) + Len(t) - 1
  <2>1. a[i] = (s \o t)[i + 1] /\ i + 1 \in 1 .. Len(s) + Len(t)
    BY <1>1, <1>3
  <2>2. CASE i <= Len(s) - 1
    BY <1>1, <1>4, <1>5, <2>1, <2>2
  <2>3. CASE ~(i <= Len(s) - 1)
    <3>1. i - (Len(s) - 1) = (i + 1) - Len(s)
      BY <1>1
    <3>2. b[i] = t[i - (Len(s) - 1)]
      BY <1>5, <2>3
    <3>3. (s \o t)[i + 1] = t[(i + 1) - Len(s)]
      <4>1. ~(i + 1 <= Len(s))
        BY <1>1, <2>3
      <4> QED BY <1>1, <2>1, <4>1
    <3> QED BY <2>1, <3>1, <3>2, <3>3
  <2> QED BY <2>2, <2>3
<1>7. a = b
  BY <1>3, <1>5, <1>6, SeqEqual
<1> QED BY <1>2, <1>7 DEF a, b

LEMMA ReceiveIsQuiet ==
    ASSUME FeedInv, NEW w \in Conns, w = ws, Receive, UNCHANGED bridge
    PROVE  /\ \/ Quiet(w) /\ (Shuts \/ ~IsChat(Head(toPage[w])) \/ torn[w])
              \/ IsChat(Head(toPage[w])) /\ ~torn[w] /\ Head(FeedOf(w)) = Head(toPage[w]) /\ Takes(w)
           /\ \A n \in Conns \ {w} : Same(n)
           /\ \A n \in Conns : LinkOf(n)'
<1>1. CASE Shuts
  BY <1>1, ShutIsQuiet
<1>2. CASE ~Shuts
  <2> DEFINE s == toPage[w]
  <2>1. /\ TypeInv /\ w \in Conns /\ LinkOf(w) /\ s \in Seq(PageFrames) /\ s # <<>>
        /\ socket[w] = "open" /\ toPage'[w] = Tail(s)
        /\ \A n \in Conns \ {w} : toPage'[n] = toPage[n]
        /\ UNCHANGED <<socket, srv, pump, torn, up, asked, fromGw>>
    BY <1>2 DEF FeedInv, OrderInv, Receive, Shuts, bridge, handler, upstream, TypeInv, BridgeInv,
       SocketsTypeOK, PageTypeOK, PageTypes
  <2>2. \A n \in Conns \ {w} : Same(n) /\ LinkOf(n)'
    BY <2>1, SameCell DEF FeedInv, Cell
  <2>3. LinkOf(w)'
    BY <2>1 DEF LinkOf
  <2>4. PhaseOf(w)' = PhaseOf(w)
    BY <2>1, PhaseIs DEF Over, Started, Responded
  <2>5. Coming(w)' = Coming(w)
    BY <2>1 DEF Coming
  <2>6. CASE torn[w]
    BY <2>1, <2>2, <2>3, <2>4, <2>6 DEF FeedOf, Quiet, Same
  <2>7. CASE ~torn[w]
    <3>1. FeedOf(w) = Chats(s) \o Coming(w) /\ FeedOf(w)' = Chats(Tail(s)) \o Coming(w)
      BY <2>1, <2>5, <2>7 DEF FeedOf
    <3>2. CASE ~IsChat(Head(s))
      BY <2>1, <2>2, <2>3, <2>4, <3>1, <3>2, ChatsTail DEF Quiet, Same
    <3>3. CASE IsChat(Head(s))
      <4>1. Chats(s) # <<>> /\ Head(Chats(s)) = Head(s) /\ Chats(Tail(s)) = Tail(Chats(s))
        BY <2>1, <3>3, ChatsTail
      <4>2. Chats(s) \in Seq(ChatEvents) /\ Coming(w) \in Seq(ChatEvents)
        BY <2>1, <2>7, ChatsAreEvents, ComingTyped
      <4>3. /\ Chats(s) \o Coming(w) # <<>> /\ Head(Chats(s) \o Coming(w)) = Head(Chats(s))
            /\ Tail(Chats(s) \o Coming(w)) = Tail(Chats(s)) \o Coming(w)
        BY <4>1, <4>2, TakenFirst
      <4> QED BY <2>2, <2>3, <2>4, <2>7, <3>1, <3>3, <4>1, <4>3 DEF Takes
    <3> QED BY <3>2, <3>3
  <2> QED BY <2>6, <2>7
<1> QED BY <1>1, <1>2

\* The other steps of the page leave the feeds alone.
LEMMA SendingIsQuiet ==
    ASSUME FeedInv, Reconnect \/ RequestHistory \/ Submit, UNCHANGED bridge
    PROVE  \A n \in Conns : Same(n) /\ LinkOf(n)'
<1>1. UNCHANGED <<srv, pump, torn, up, asked, fromGw, toPage>>
  BY DEF Reconnect, RequestHistory, Submit, bridge, handler, upstream
<1>2. \A n \in Conns : Shut(n)' <=> Shut(n)
  <2>1. CASE socket' = socket
    BY <2>1
  <2>2. CASE Reconnect
    <3>1. /\ ws + 1 \in Conns /\ ws + 1 > ws /\ socket' = [socket EXCEPT ![ws + 1] = "connecting"]
          /\ socket \in [Conns -> {"unused", "connecting", "open", "closing", "closed"}]
      BY <2>2, ChatBounds DEF Reconnect, FeedInv, OrderInv, TypeInv, BridgeInv, SocketsTypeOK,
         PageTypeOK, PageTypes, Conns
    <3>2. socket[ws + 1] = "unused"
      BY <3>1 DEF FeedInv, OrderInv, TypeInv, PageTypeOK, PageLinks
    <3> QED BY <3>1, <3>2
  <2> QED BY <2>1, <2>2 DEF RequestHistory, Submit
<1>3. \A n \in Conns : UNCHANGED Cell(n)
  BY <1>1, <1>2 DEF Cell
<1> QED BY <1>3, SameCell DEF FeedInv

-----------------------------------------------------------------------------
(* The bridge is the feed of ChatFeed *)

\* What the agent does and says.
Says(e) ==
    \/ AgentStreams /\ e = Event("delta", Head(inbox), said + 1)
    \/ AgentFinishes /\ e = Event("final", Head(inbox), 0)
    \/ AgentFails /\ e = Event("error", Head(inbox), 0)

LEMMA AgentSays ==
    ASSUME FeedInv, AgentStreams \/ AgentFinishes \/ AgentFails
    PROVE  \E e \in ChatEvents :
              /\ Says(e)
              /\ Broadcast(e) /\ UNCHANGED <<socket, toPage, handler, up, asked>>
<1>1. inbox # <<>> /\ Head(inbox) \in Runs /\ said \in 0 .. MaxDeltas
  BY DEF AgentStreams, AgentFinishes, AgentFails, FeedInv, OrderInv, TypeInv, BridgeInv,
     BridgeTypeOK, BridgeTypes
<1>2. CASE AgentStreams
  <2>1. said + 1 \in 1 .. MaxDeltas
    BY <1>1, <1>2, ChatBounds DEF AgentStreams
  <2>2. Event("delta", Head(inbox), said + 1) \in ChatEvents
    BY <1>1, <2>1, FramesTyped
  <2> QED BY <1>2, <2>2 DEF AgentStreams, Says, sockets
<1>3. CASE AgentFinishes
  <2>1. Event("final", Head(inbox), 0) \in ChatEvents
    BY <1>1, FramesTyped
  <2> QED BY <1>3, <2>1 DEF AgentFinishes, Says, sockets
<1>4. CASE AgentFails
  <2>1. Event("error", Head(inbox), 0) \in ChatEvents
    BY <1>1, FramesTyped
  <2> QED BY <1>4, <2>1 DEF AgentFails, Says, sockets
<1> QED BY <1>2, <1>3, <1>4

\* A message of the user's is no answer.
LEMMA UserPosts ==
    ASSUME log \in Seq(Posts), NEW r \in Runs, log' = Append(log, Post("user", r))
    PROVE  answered' = answered
<1> PICK p \in Posts : p = Post("user", r)
  BY PostTyped
<1>1. DOMAIN log' = DOMAIN log \union {Len(log) + 1} /\ log'[Len(log) + 1] = p
      /\ \A i \in DOMAIN log : log'[i] = log[i]
  OBVIOUS
<1>2. \A q \in Runs : Post("agent", q) # p
  BY DEF Post
<1> QED BY <1>1, <1>2, Zenon DEF answered

\* An answer is one more.
LEMMA AgentPosts ==
    ASSUME log \in Seq(Posts), NEW r \in Runs, log' = Append(log, Post("agent", r)),
           NEW q \in answered'
    PROVE  q \in answered \/ q = r
<1> PICK p \in Posts : p = Post("agent", r)
  BY PostTyped
<1>1. DOMAIN log' = DOMAIN log \union {Len(log) + 1} /\ log'[Len(log) + 1] = p
      /\ \A i \in DOMAIN log : log'[i] = log[i]
  OBVIOUS
<1>2. Post("agent", q) = p => q = r
  BY DEF Post
<1>3. q \in Runs /\ \E i \in DOMAIN log' : log'[i] = Post("agent", q)
  BY DEF answered
<1>4. (\E i \in DOMAIN log : log[i] = Post("agent", q)) \/ Post("agent", q) = p
  BY <1>1, <1>3
<1> QED BY <1>2, <1>3, <1>4 DEF answered

LEMMA NoPosts == log' = log => answered' = answered
BY DEF answered

\* A message may have reached the agent.
NothingSaid ==
    /\ answered' = answered
    /\ \/ inbox' = inbox
       \/ \E r \in Runs : inbox' = Append(inbox, r)

LEMMA ServesSayNothing ==
    ASSUME TypeInv, NEW m \in Conns,
           \/ Handle(m) \/ Pump(m) \/ PumpEnds(m) \/ GatewayAnswers(m)
           \/ GatewayRefuses(m) \/ SendRefused(m) \/ DialFails(m) \/ TimesOut(m) \/ UpstreamBreaks(m)
    PROVE  NothingSaid
<1> USE NoPosts DEF NothingSaid, agent
<1>1. CASE Dial(m) \/ ReadHistory(m) \/ PumpEnds(m) \/ UpstreamBreaks(m)
  BY <1>1 DEF Dial, ReadHistory, PumpEnds, UpstreamBreaks
<1>2. CASE ReadRes(m) \/ Pump(m)
  BY <1>2 DEF ReadRes, Pump
<1>3. CASE Select(m) \/ PageGone(m) \/ DialFails(m)
  BY <1>3 DEF Select, PageGone, DialFails
<1>4. CASE RequestFails(m) \/ TimesOut(m)
  BY <1>4 DEF RequestFails, TimesOut, Abandon
<1>5. CASE ReadSend(m) \/ SendRefused(m)
  <2>1. Head(toServer[m]).run \in Runs /\ log \in Seq(Posts)
    BY <1>5, ServerFrameFields DEF ReadSend, SendRefused, TakeSend, TypeInv, BridgeInv,
       SocketsTypeOK, BridgeTypeOK, BridgeTypes
  <2> QED BY <1>5, <2>1, UserPosts DEF ReadSend, SendRefused, TakeSend
<1>6. CASE GatewayAnswers(m) \/ GatewayRefuses(m)
  BY <1>6 DEF GatewayAnswers, GatewayRefuses, Respond
<1> QED BY <1>1, <1>2, <1>3, <1>4, <1>5, <1>6 DEF Handle

\* A step in which the page receives nothing.
Unread ==
    \/ Accept
    \/ BridgeNext /\ UNCHANGED page
    \/ /\ ConnectFails \/ SocketBreaks \/ CloseEvent \/ Reconnect \/ RequestHistory \/ Submit
       /\ UNCHANGED bridge
    \/ UNCHANGED vars

LEMMA UnreadOrReceived == [Next]_vars => Unread \/ (Receive /\ UNCHANGED bridge)
BY DEF Next, PageNext, Unread

\* In such a step at most one socket is subscribed, stopped or dropped, or the agent
\* says something.
LEMMA FeedSteps ==
    ASSUME FeedInv, Unread
    PROVE  /\ \A n \in Conns : LinkOf(n)'
           /\ \/ NothingSaid /\ \A n \in Conns : Same(n)
              \/ NothingSaid /\ \E m \in Conns : Quiet(m) /\ \A n \in Conns \ {m} : Same(n)
              \/ \E e \in ChatEvents : Says(e) /\ UNCHANGED page /\ \A n \in Conns : Told(n, e)
<1>1. ws \in Conns
  BY DEF FeedInv, OrderInv, TypeInv, PageTypeOK, PageTypes
<1>2. PICK w \in Conns : w = ws
  BY <1>1
<1>3. CASE Accept
  BY <1>2, <1>3, AcceptIsQuiet, NoPosts DEF Accept, agent, NothingSaid
<1>4. CASE BridgeNext /\ UNCHANGED page
  <2>1. CASE AgentStreams \/ AgentFinishes \/ AgentFails
    <3>1. PICK e \in ChatEvents :
            Says(e) /\ Broadcast(e) /\ UNCHANGED <<socket, toPage, handler, up, asked>>
      BY <2>1, AgentSays
    <3>2. \A n \in Conns : Told(n, e) /\ LinkOf(n)'
      BY <3>1, BroadcastIsTold
    <3> QED BY <1>4, <3>1, <3>2
  <2>2. CASE \E m \in Conns :
               \/ Handle(m) \/ Pump(m) \/ PumpEnds(m) \/ GatewayAnswers(m)
               \/ GatewayRefuses(m) \/ SendRefused(m) \/ DialFails(m) \/ TimesOut(m) \/ UpstreamBreaks(m)
    BY <2>2, ServesQuietly, ServesSayNothing DEF FeedInv, OrderInv
  <2> QED BY <1>4, <2>1, <2>2 DEF BridgeNext
<1>5. CASE /\ ConnectFails \/ SocketBreaks \/ CloseEvent \/ Reconnect \/ RequestHistory \/ Submit
           /\ UNCHANGED bridge
  <2> NothingSaid
    BY <1>5, NoPosts DEF bridge, agent, NothingSaid
  <2>1. CASE ConnectFails \/ SocketBreaks \/ CloseEvent
    BY <1>2, <1>5, <2>1, ShutIsQuiet DEF ConnectFails, SocketBreaks, CloseEvent, Shuts
  <2>2. CASE Reconnect \/ RequestHistory \/ Submit
    BY <1>5, <2>2, SendingIsQuiet
  <2> QED BY <1>5, <2>1, <2>2
<1>6. CASE UNCHANGED vars
  <2>1. \A n \in Conns : UNCHANGED Cell(n)
    BY <1>6 DEF vars, sockets, bridge, handler, upstream, Cell
  <2>2. NothingSaid
    BY <1>6, NoPosts DEF vars, bridge, agent, NothingSaid
  <2> QED BY <2>1, <2>2, SameCell DEF FeedInv
<1> QED BY <1>3, <1>4, <1>5, <1>6 DEF Unread

LEMMA FeedInvInit == Init => FeedInv
<1> SUFFICES ASSUME Init PROVE FeedInv
  OBVIOUS
<1>1. ASSUME NEW n \in Conns PROVE LinkOf(n)
  BY DEF Init, BridgeInit, LinkOf, Connects
<1> QED BY <1>1, OrderInvInit DEF FeedInv

LEMMA FeedInvKept == FeedInv /\ [Next]_vars => FeedInv'
<1> SUFFICES ASSUME FeedInv, [Next]_vars PROVE FeedInv'
  OBVIOUS
<1>1. OrderInv'
  BY OrderInvKept DEF FeedInv
<1>2. CASE Unread
  BY <1>1, <1>2, FeedSteps DEF FeedInv
<1>3. CASE Receive /\ UNCHANGED bridge
  <2>1. ws \in Conns
    BY DEF FeedInv, OrderInv, TypeInv, PageTypeOK, PageTypes
  <2> QED BY <1>1, <1>3, <2>1, ReceiveIsQuiet DEF FeedInv
<1> QED BY <1>2, <1>3, UnreadOrReceived

\* The steps of ChatFeed, for the sockets of the chat.
Phases == [n \in Conns |-> PhaseOf(n)]
Feeds == [n \in Conns |-> FeedOf(n)]

LEMMA QuietIsFeedStep ==
    ASSUME TypeInv, NEW m \in Conns, LinkOf(m), Quiet(m), \A n \in Conns \ {m} : Same(n)
    PROVE  [Feed!Next]_<<Phases, Feeds>>
<1> DEFINE P == Phases
           F == Feeds
<1>1. /\ P = [n \in Conns |-> PhaseOf(n)] /\ F = [n \in Conns |-> FeedOf(n)]
      /\ P' = [n \in Conns |-> PhaseOf(n)'] /\ F' = [n \in Conns |-> FeedOf(n)']
  BY DEF Phases, Feeds
<1> HIDE DEF P, F
<1>2. /\ P' = [P EXCEPT ![m] = PhaseOf(m)'] /\ F' = [F EXCEPT ![m] = FeedOf(m)']
      /\ P[m] = PhaseOf(m) /\ F[m] = FeedOf(m)
  BY <1>1 DEF Same
<1>3. P = [P EXCEPT ![m] = P[m]] /\ F = [F EXCEPT ![m] = F[m]]
  BY <1>1
<1>4. CASE Same(m)
  BY <1>2, <1>3, <1>4 DEF Same, P, F
<1>5. CASE Subscribes(m)
  <2>1. Feed!Subscribe(m)
    BY <1>2, <1>3, <1>5 DEF Subscribes, Feed!Subscribe, P, F, Phases, Feeds
  <2> QED BY <2>1 DEF Feed!Next
<1>6. CASE Stops(m)
  <2>1. Feed!End(m)
    BY <1>2, <1>6 DEF Stops, Feed!End, P, F, Phases, Feeds
  <2> QED BY <2>1 DEF Feed!Next
<1>7. CASE Drops(m)
  <2>1. Feed!Drop(m)
    BY <1>2, <1>3, <1>7 DEF Drops, Feed!Drop, P, F, Phases, Feeds
  <2> QED BY <2>1 DEF Feed!Next
<1> QED BY <1>4, <1>5, <1>6, <1>7 DEF Quiet

LEMMA FeedStep == FeedInv /\ [Next]_vars => [Feed!Next]_<<Phases, Feeds>>
<1> SUFFICES ASSUME FeedInv, [Next]_vars PROVE [Feed!Next]_<<Phases, Feeds>>
  OBVIOUS
<1>1. CASE \A n \in Conns : Same(n)
  BY <1>1 DEF Same, Phases, Feeds
<1>2. CASE \E m \in Conns : Quiet(m) /\ \A n \in Conns \ {m} : Same(n)
  BY <1>2, QuietIsFeedStep DEF FeedInv, OrderInv
<1>3. CASE \E e \in ChatEvents : Says(e) /\ UNCHANGED page /\ \A n \in Conns : Told(n, e)
  <2>1. PICK e \in ChatEvents : \A n \in Conns : Told(n, e)
    BY <1>3
  <2>2. Feed!Emit(e)
    BY <2>1 DEF Told, Feed!Emit
  <2> QED BY <2>2 DEF Feed!Next
<1>4. CASE \E w \in Conns : Takes(w) /\ \A n \in Conns \ {w} : Same(n)
  <2>1. PICK w \in Conns : Takes(w) /\ \A n \in Conns \ {w} : Same(n)
    BY <1>4
  <2>2. Phases' = Phases /\ Feeds[w] # <<>> /\ Feeds' = [Feeds EXCEPT ![w] = Tail(Feeds[w])]
    BY <2>1 DEF Takes, Same, Phases, Feeds
  <2>3. Feed!Deliver(w)
    BY <2>2 DEF Phases, Feeds, Feed!Deliver
  <2> QED BY <2>3 DEF Feed!Next
<1>5. CASE Receive /\ UNCHANGED bridge
  <2>1. ws \in Conns
    BY DEF FeedInv, OrderInv, TypeInv, PageTypeOK, PageTypes
  <2> QED BY <1>2, <1>4, <1>5, <2>1, ReceiveIsQuiet
<1> QED BY <1>1, <1>2, <1>3, <1>5, FeedSteps, UnreadOrReceived

LEMMA FeedStarts == Init => Feed!Init
<1> SUFFICES ASSUME Init PROVE Feed!Init
  OBVIOUS
<1>1. ASSUME NEW n \in Conns PROVE PhaseOf(n) = "new" /\ FeedOf(n) = <<>>
  <2>1. /\ srv[n] = "none" /\ pump[n] = "off" /\ up[n] = "none" /\ ~torn[n]
        /\ ~Shut(n) /\ toPage[n] = <<>>
    BY DEF Init, SocketsInit, BridgeInit
  <2>2. PhaseOf(n) = "new"
    BY <2>1, PhaseIs DEF Over, Started, Responded
  <2>3. Chats(toPage[n]) = <<>>
    BY <2>1, NoFrame, ChatsEmpty, NoFrames
  <2> QED BY <2>1, <2>2, <2>3 DEF FeedOf, Coming
<1> QED BY <1>1 DEF Feed!Init

\* The bridge and the channels around it (bridge.go) are, for each socket, one
\* ordered feed of chat events without gaps, from the answer to the request for the
\* transcript on until the socket, the gateway or a history request ends it.
THEOREM BridgeIsFeed == Spec => ImplementsFeed
<1>1. FeedInv /\ [Next]_vars => [Feed!Next]_<<[n \in Conns |-> PhaseOf(n)], [n \in Conns |-> FeedOf(n)]>>
  BY FeedStep DEF Phases, Feeds
<1> QED BY <1>1, FeedInvInit, FeedInvKept, FeedStarts, PTL DEF Spec, ImplementsFeed, Feed!Spec

-----------------------------------------------------------------------------
(* Streams end *)

Ends(f, r) == f.t \in {"final", "error"} /\ f.run = r

\* After place i of the events s, the next of the agent's frames are of run r, up
\* to its end; or the agent is still at it (q are its messages).
Continued(q, s, i, r) ==
    \/ \E j \in DOMAIN s : i < j /\ Ends(s[j], r) /\ \A k \in i + 1 .. j - 1 : s[k].run = r
    \/ q # <<>> /\ Head(q) = r /\ \A k \in DOMAIN s : i < k => s[k].run = r

StreamOf(n) ==
    PhaseOf(n) = "open" =>
        \A i \in DOMAIN FeedOf(n) :
            FeedOf(n)[i].t = "delta" => Continued(inbox, FeedOf(n), i, FeedOf(n)[i].run)

\* The stream on the page.
ShownOf(n) ==
    n = ws /\ streaming /\ begun = n =>
        /\ PhaseOf(n) # "new"
        /\ PhaseOf(n) = "open" =>
              \E r \in Runs : text = {r} /\ Continued(inbox, FeedOf(n), 0, r)

\* Each piece of an answer on its way to the page is followed by its end, and so is
\* the stream on the page.
StreamInv == FeedInv /\ \A n \in Conns : StreamOf(n) /\ ShownOf(n)

LEMMA NewIsEmpty ==
    ASSUME FeedInv, NEW n \in Conns, PhaseOf(n) = "new"
    PROVE  srv[n] \in Boot /\ FeedOf(n) = <<>>
<1>1. TypeInv /\ LinkOf(n) /\ OrderOf(n) /\ CellTypes(n) /\ ~Over(n) /\ ~Started(n)
  BY CellTyped, PhaseIs DEF FeedInv, OrderInv
<1>2. srv[n] \in Boot
  BY <1>1 DEF LinkOf, Over, Started, Boot, CellTypes
<1>3. pump[n] # "on" /\ (srv[n] = "history" => NoRes(fromGw[n]))
  BY <1>1 DEF LinkOf, Connects, Started, Responded
<1>4. Coming(n) = <<>>
  BY <1>3, BehindNone DEF Coming
<1>5. Chats(toPage[n]) = <<>>
  BY <1>1, <1>2, ChatsEmpty DEF OrderOf, CellTypes
<1> QED BY <1>2, <1>4, <1>5 DEF FeedOf

LEMMA ContinuedMore ==
    ASSUME NEW q \in Seq(Runs), NEW m \in Runs, NEW s, NEW i, NEW r, Continued(q, s, i, r)
    PROVE  Continued(Append(q, m), s, i, r)
<1>1. q # <<>> => Append(q, m) # <<>> /\ Head(Append(q, m)) = Head(q)
  OBVIOUS
<1> QED BY <1>1, Zenon DEF Continued

\* The agent goes on with its answer, or ends it.
LEMMA ContinuedLater ==
    ASSUME NEW q \in Seq(Runs), q # <<>>, NEW u \in {q, Tail(q)},
           NEW S, NEW s \in Seq(S), NEW e \in S, e.run = Head(q),
           u = q \/ e.t \in {"final", "error"},
           NEW i \in Nat, NEW r,
           \/ i <= Len(s) /\ Continued(q, s, i, r)
           \/ i = Len(s) + 1 /\ u = q /\ r = e.run
    PROVE  Continued(u, Append(s, e), i, r)
<1> DEFINE a == Append(s, e)
           l == Len(s) + 1
<1>1. /\ a \in Seq(S) /\ Len(a) = l /\ DOMAIN a = 1 .. l /\ DOMAIN s = 1 .. Len(s) /\ l \in Nat
      /\ a[l] = e /\ \A k \in 1 .. Len(s) : a[k] = s[k]
  OBVIOUS
<1> HIDE DEF a, l
<1>2. CASE i = l /\ u = q /\ r = e.run
  <2>1. \A k \in DOMAIN a : ~(i < k)
    BY <1>1, <1>2
  <2> QED BY <1>2, <2>1 DEF Continued, a
<1>3. ASSUME NEW j \in DOMAIN s, i < j, Ends(s[j], r), \A k \in i + 1 .. j - 1 : s[k].run = r
      PROVE  Continued(u, a, i, r)
  <2>1. j \in DOMAIN a /\ a[j] = s[j] /\ j \in 1 .. Len(s)
    BY <1>1 DEF l
  <2>2. \A k \in i + 1 .. j - 1 : k \in 1 .. Len(s)
    BY <2>1
  <2>3. \A k \in i + 1 .. j - 1 : a[k].run = r
    BY <1>1, <1>3, <2>2
  <2>4. Ends(a[j], r)
    BY <1>3, <2>1
  <2> QED BY <1>3, <2>1, <2>3, <2>4, Zenon DEF Continued
<1>4. CASE i <= Len(s) /\ Head(q) = r /\ \A k \in DOMAIN s : i < k => s[k].run = r
  <2>1. \A k \in DOMAIN a : i < k => a[k].run = r
    <3> TAKE k \in DOMAIN a
    <3>1. CASE k = l
      BY <1>1, <1>4, <3>1
    <3>2. CASE k # l
      <4>1. k \in DOMAIN s /\ a[k] = s[k]
        BY <1>1, <3>2 DEF l
      <4> QED BY <1>4, <4>1
    <3> QED BY <3>1, <3>2
  <2>2. CASE u = q
    BY <1>4, <2>1, <2>2 DEF Continued, a
  <2>3. CASE e.t \in {"final", "error"}
    <3>1. Ends(a[l], r) /\ l \in DOMAIN a /\ i < l
      BY <1>1, <1>4, <2>3 DEF Ends, l
    <3>2. \A k \in i + 1 .. l - 1 : k \in DOMAIN a /\ i < k
      BY <1>1
    <3>3. \A k \in i + 1 .. l - 1 : a[k].run = r
      BY <2>1, <3>2
    <3>4. \E j \in DOMAIN a : i < j /\ Ends(a[j], r) /\ \A k \in i + 1 .. j - 1 : a[k].run = r
      BY <3>1, <3>3
    <3> QED BY <3>4 DEF Continued, a
  <2> QED BY <2>2, <2>3
<1> QED BY <1>2, <1>3, <1>4 DEF Continued, a, l

\* The page takes the first event: it is a piece of run r, or the end of one.
LEMMA ContinuedTail ==
    ASSUME NEW q, NEW S, NEW s \in Seq(S), s # <<>>, NEW i \in Nat, NEW r,
           \/ Continued(q, s, i + 1, r)
           \/ i = 0 /\ Continued(q, s, 0, r) /\ Head(s).t = "delta"
    PROVE  Continued(q, Tail(s), i, r)
<1> DEFINE t == Tail(s)
<1>1. /\ t \in Seq(S) /\ Len(t) = Len(s) - 1 /\ Len(s) \in Nat \ {0}
      /\ DOMAIN s = 1 .. Len(s) /\ DOMAIN t = 1 .. Len(s) - 1
      /\ \A k \in 1 .. Len(s) - 1 : t[k] = s[k + 1]
      /\ Head(s) = s[1]
  OBVIOUS
<1> HIDE DEF t
<1>2. \/ \E j \in 2 .. Len(s) : i + 1 < j /\ Ends(s[j], r) /\ \A k \in i + 2 .. j - 1 : s[k].run = r
      \/ q # <<>> /\ Head(q) = r /\ \A k \in 2 .. Len(s) : i + 1 < k => s[k].run = r
  <2>1. CASE Continued(q, s, i + 1, r)
    <3>1. CASE \E j \in DOMAIN s : i + 1 < j /\ Ends(s[j], r) /\ \A k \in (i + 1) + 1 .. j - 1 : s[k].run = r
      <4>1. PICK j \in DOMAIN s : i + 1 < j /\ Ends(s[j], r) /\ \A k \in (i + 1) + 1 .. j - 1 : s[k].run = r
        BY <3>1
      <4>2. j \in 2 .. Len(s) /\ (i + 1) + 1 = i + 2
        BY <1>1, <4>1
      <4> QED BY <4>1, <4>2
    <3>2. CASE q # <<>> /\ Head(q) = r /\ \A k \in DOMAIN s : i + 1 < k => s[k].run = r
      BY <1>1, <3>2
    <3> QED BY <2>1, <3>1, <3>2 DEF Continued
  <2>2. CASE i = 0 /\ Continued(q, s, 0, r) /\ Head(s).t = "delta"
    <3>1. CASE \E j \in DOMAIN s : 0 < j /\ Ends(s[j], r) /\ \A k \in 0 + 1 .. j - 1 : s[k].run = r
      <4>1. PICK j \in DOMAIN s : 0 < j /\ Ends(s[j], r) /\ \A k \in 0 + 1 .. j - 1 : s[k].run = r
        BY <3>1
      <4>2. j # 1
        BY <1>1, <2>2, <4>1 DEF Ends
      <4>3. j \in 2 .. Len(s) /\ \A k \in 2 .. j - 1 : k \in 0 + 1 .. j - 1
        BY <1>1, <4>2
      <4> QED BY <2>2, <4>1, <4>3
    <3>2. CASE q # <<>> /\ Head(q) = r /\ \A k \in DOMAIN s : 0 < k => s[k].run = r
      BY <1>1, <3>2
    <3> QED BY <2>2, <3>1, <3>2 DEF Continued
  <2> QED BY <2>1, <2>2
<1>3. ASSUME NEW j \in 2 .. Len(s), i + 1 < j, Ends(s[j], r), \A k \in i + 2 .. j - 1 : s[k].run = r
      PROVE  Continued(q, t, i, r)
  <2>1. j - 1 \in DOMAIN t /\ i < j - 1 /\ t[j - 1] = s[j]
    <3>1. j - 1 \in 1 .. Len(s) - 1 /\ (j - 1) + 1 = j
      BY <1>1
    <3> QED BY <1>1, <1>3, <3>1
  <2>2. \A k \in i + 1 .. (j - 1) - 1 : t[k].run = r
    <3> TAKE k \in i + 1 .. (j - 1) - 1
    <3>1. k \in 1 .. Len(s) - 1 /\ k + 1 \in i + 2 .. j - 1
      BY <1>1
    <3> QED BY <1>1, <1>3, <3>1
  <2>3. \E l \in DOMAIN t : i < l /\ Ends(t[l], r) /\ \A k \in i + 1 .. l - 1 : t[k].run = r
    BY <1>3, <2>1, <2>2
  <2> QED BY <2>3 DEF Continued
<1>4. ASSUME q # <<>>, Head(q) = r, \A k \in 2 .. Len(s) : i + 1 < k => s[k].run = r
      PROVE  Continued(q, t, i, r)
  <2>1. \A k \in DOMAIN t : i < k => t[k].run = r
    <3> TAKE k \in DOMAIN t
    <3>1. k \in 1 .. Len(s) - 1 /\ k + 1 \in 2 .. Len(s) /\ (i < k => i + 1 < k + 1)
      BY <1>1
    <3> QED BY <1>1, <1>4, <3>1
  <2> QED BY <1>4, <2>1 DEF Continued
<1> QED BY <1>2, <1>3, <1>4 DEF t

\* The first event is a piece of the run that goes on, or its end.
LEMMA ContinuedHead ==
    ASSUME NEW q, NEW S, NEW s \in Seq(S), s # <<>>, NEW r, Continued(q, s, 0, r)
    PROVE  Head(s).run = r
<1>1. 1 \in DOMAIN s /\ Head(s) = s[1] /\ \A j \in DOMAIN s : j \in Nat /\ (0 < j /\ j # 1 => 1 \in 0 + 1 .. j - 1)
  OBVIOUS
<1>2. CASE \E j \in DOMAIN s : 0 < j /\ Ends(s[j], r) /\ \A k \in 0 + 1 .. j - 1 : s[k].run = r
  <2>1. PICK j \in DOMAIN s : 0 < j /\ Ends(s[j], r) /\ \A k \in 0 + 1 .. j - 1 : s[k].run = r
    BY <1>2
  <2>2. CASE j = 1
    BY <1>1, <2>1, <2>2 DEF Ends
  <2>3. CASE j # 1
    BY <1>1, <2>1, <2>3
  <2> QED BY <2>2, <2>3
<1>3. CASE \A k \in DOMAIN s : 0 < k => s[k].run = r
  BY <1>1, <1>3
<1> QED BY <1>2, <1>3 DEF Continued

LEMMA SaysOfRun ==
    ASSUME TypeInv, NEW e \in ChatEvents, Says(e)
    PROVE  /\ inbox \in Seq(Runs) /\ inbox # <<>> /\ e.run = Head(inbox) /\ e.run \in Runs
           /\ inbox' \in {inbox, Tail(inbox)}
           /\ inbox' = inbox \/ e.t \in {"final", "error"}
           /\ e.t = "delta" => inbox' = inbox
BY ChatEventFields DEF Says, AgentStreams, AgentFinishes, AgentFails, Event, TypeInv, BridgeInv,
   BridgeTypeOK, BridgeTypes

LEMMA QuietStream ==
    ASSUME StreamInv, NEW n \in Conns, Quiet(n), NothingSaid
    PROVE  /\ StreamOf(n)'
           /\ n = ws /\ ws' = ws /\ UNCHANGED <<streaming, text, begun>> => ShownOf(n)'
<1>1. FeedInv /\ StreamOf(n) /\ ShownOf(n) /\ inbox \in Seq(Runs)
  BY DEF StreamInv, FeedInv, OrderInv, TypeInv, BridgeInv, BridgeTypeOK, BridgeTypes
<1>2. \A s, i, r : Continued(inbox, s, i, r) => Continued(inbox', s, i, r)
  BY <1>1, ContinuedMore DEF NothingSaid
<1>3. CASE Same(n)
  BY <1>1, <1>2, <1>3 DEF Same, StreamOf, ShownOf, stream
<1>4. CASE Subscribes(n)
  <2>1. FeedOf(n)' = <<>>
    BY <1>1, <1>4, NewIsEmpty DEF Subscribes
  <2> QED BY <1>1, <1>4, <2>1 DEF Subscribes, StreamOf, ShownOf, stream
<1>5. CASE Stops(n) \/ Drops(n)
  BY <1>5 DEF Stops, Drops, StreamOf, ShownOf
<1> QED BY <1>3, <1>4, <1>5 DEF Quiet

LEMMA ToldStream ==
    ASSUME StreamInv, NEW n \in Conns, NEW e \in ChatEvents, Says(e), Told(n, e), UNCHANGED page
    PROVE  StreamOf(n)' /\ ShownOf(n)'
<1> DEFINE s == FeedOf(n)
<1>1. /\ TypeInv /\ StreamOf(n) /\ ShownOf(n) /\ s \in Seq(ChatEvents)
      /\ UNCHANGED <<ws, stream>>
  BY FeedTyped DEF StreamInv, FeedInv, OrderInv, page, client
<1>2. CASE PhaseOf(n) # "open"
  BY <1>1, <1>2 DEF Told, StreamOf, ShownOf, stream
<1>3. CASE PhaseOf(n) = "open"
  <2>1. PhaseOf(n)' = "open" /\ FeedOf(n)' = Append(s, e)
    BY <1>3 DEF Told
  <2>2. /\ inbox \in Seq(Runs) /\ inbox # <<>> /\ e.run = Head(inbox)
        /\ inbox' \in {inbox, Tail(inbox)}
        /\ inbox' = inbox \/ e.t \in {"final", "error"}
        /\ e.t = "delta" => inbox' = inbox
    BY <1>1, SaysOfRun
  <2>3. /\ Append(s, e) \in Seq(ChatEvents) /\ DOMAIN Append(s, e) = 1 .. Len(s) + 1
        /\ Append(s, e)[Len(s) + 1] = e /\ \A i \in 1 .. Len(s) : Append(s, e)[i] = s[i]
        /\ DOMAIN s = 1 .. Len(s) /\ Len(s) \in Nat
    BY <1>1
  <2> HIDE DEF s
  <2>4. ASSUME NEW i \in Nat, NEW r, i <= Len(s), Continued(inbox, s, i, r)
        PROVE  Continued(inbox', Append(s, e), i, r)
    BY <1>1, <2>2, <2>4, ContinuedLater
  <2>5. ASSUME NEW i \in 1 .. Len(s) + 1, Append(s, e)[i].t = "delta"
        PROVE  Continued(inbox', Append(s, e), i, Append(s, e)[i].run)
    <3>1. CASE i = Len(s) + 1
      BY <1>1, <2>2, <2>3, <2>5, <3>1, ContinuedLater
    <3>2. CASE i # Len(s) + 1
      <4>1. i \in Nat /\ i <= Len(s) /\ i \in DOMAIN s /\ Append(s, e)[i] = s[i]
        BY <2>3, <3>2
      <4>2. Continued(inbox, s, i, s[i].run)
        BY <1>1, <1>3, <2>5, <4>1 DEF StreamOf, s
      <4> QED BY <2>4, <4>1, <4>2
    <3> QED BY <3>1, <3>2
  <2>6. StreamOf(n)'
    BY <2>1, <2>3, <2>5 DEF StreamOf
  <2>7. ShownOf(n)'
    <3> SUFFICES ASSUME n = ws', streaming', begun' = n
                 PROVE  \E r \in Runs : text' = {r} /\ Continued(inbox', FeedOf(n)', 0, r)
      BY <2>1 DEF ShownOf
    <3>1. PICK r \in Runs : text = {r} /\ Continued(inbox, s, 0, r)
      BY <1>1, <1>3 DEF ShownOf, stream, s
    <3>2. Continued(inbox', Append(s, e), 0, r)
      BY <2>3, <2>4, <3>1
    <3> QED BY <1>1, <2>1, <3>1, <3>2 DEF stream
  <2> QED BY <2>6, <2>7
<1> QED BY <1>2, <1>3

\* The page takes a chat event.
LEMMA TakenStream ==
    ASSUME StreamInv, NEW n \in Conns, n = ws, Receive, UNCHANGED bridge,
           IsChat(Head(toPage[n])), Head(FeedOf(n)) = Head(toPage[n]), Takes(n)
    PROVE  StreamOf(n)' /\ ShownOf(n)'
<1> DEFINE s == FeedOf(n)
           f == Head(toPage[n])
<1>1. /\ FeedInv /\ TypeInv /\ StreamOf(n) /\ ShownOf(n) /\ s \in Seq(ChatEvents) /\ s # <<>>
      /\ f = Head(s) /\ f \in ChatEvents
      /\ inbox' = inbox /\ PhaseOf(n)' = PhaseOf(n) /\ FeedOf(n)' = Tail(s)
  BY FeedTyped DEF StreamInv, FeedInv, OrderInv, bridge, agent, Takes
<1>2. /\ 1 \in DOMAIN s /\ s[1] = f
      /\ \A i \in DOMAIN Tail(s) : i \in Nat /\ i + 1 \in DOMAIN s /\ Tail(s)[i] = s[i + 1]
  BY <1>1
<1>3. /\ ws' = ws
      /\ \/ f.t = "delta" /\ OnChatDelta(f.run)
         \/ f.t # "delta" /\ ~streaming'
      /\ f.run \in Runs
  <2>1. f.t \in {"delta", "final", "error"} /\ f.run \in Runs
    BY <1>1, ChatEventFields
  <2>2. ~(f.t = "close")
    BY <2>1
  <2> QED BY <2>1, <2>2 DEF Receive, client, OnChatFinal, OnChatError, EndStream, stream
<1>4. PhaseOf(n) # "new"
  BY <1>1, NewIsEmpty
<1> HIDE DEF s, f
<1>5. StreamOf(n)'
  <2> SUFFICES ASSUME PhaseOf(n) = "open", NEW i \in DOMAIN Tail(s), Tail(s)[i].t = "delta"
               PROVE  Continued(inbox, Tail(s), i, Tail(s)[i].run)
    BY <1>1 DEF StreamOf
  <2>1. Continued(inbox, s, i + 1, s[i + 1].run)
    BY <1>1, <1>2 DEF StreamOf, s
  <2> QED BY <1>1, <1>2, <2>1, ContinuedTail
<1>6. ShownOf(n)'
  <2> SUFFICES ASSUME streaming', begun' = n, PhaseOf(n) = "open"
               PROVE  \E r \in Runs : text' = {r} /\ Continued(inbox, Tail(s), 0, r)
    BY <1>1, <1>4 DEF ShownOf
  <2>1. f.t = "delta" /\ OnChatDelta(f.run)
    BY <1>3
  <2>2. CASE streaming
    <3>1. PICK r \in Runs : text = {r} /\ Continued(inbox, s, 0, r)
      BY <1>1, <2>1, <2>2 DEF OnChatDelta, ShownOf, s
    <3>2. f.run = r
      BY <1>1, <3>1, ContinuedHead
    <3>3. text' = {r}
      BY <2>1, <2>2, <3>1, <3>2 DEF OnChatDelta
    <3>4. Continued(inbox, Tail(s), 0, r)
      BY <1>1, <2>1, <3>1, ContinuedTail
    <3> QED BY <3>3, <3>4
  <2>3. CASE ~streaming
    <3>1. text' = {f.run}
      BY <2>1, <2>3 DEF OnChatDelta
    <3>2. Continued(inbox, s, 0 + 1, f.run)
      <4>1. Continued(inbox, s, 1, s[1].run)
        BY <1>1, <1>2, <2>1 DEF StreamOf, s
      <4> QED BY <1>2, <4>1
    <3>3. Continued(inbox, Tail(s), 0, f.run)
      BY <1>1, <3>2, ContinuedTail
    <3> QED BY <1>3, <3>1, <3>3
  <2> QED BY <2>2, <2>3
<1> QED BY <1>5, <1>6

LEMMA ReceiveKeepsStream ==
    ASSUME StreamInv, Receive, UNCHANGED bridge, NEW n \in Conns
    PROVE  StreamOf(n)' /\ ShownOf(n)'
<1>1. FeedInv /\ TypeInv /\ LinkOf(n) /\ ws' = ws /\ NothingSaid
  BY NoPosts DEF StreamInv, FeedInv, OrderInv, Receive, Closed, StartsClosing, page, client, bridge,
     agent, NothingSaid
<1>2. CASE n # ws
  <2>1. ws \in Conns
    BY <1>1 DEF TypeInv, PageTypeOK, PageTypes
  <2>2. Quiet(n)
    BY <1>1, <1>2, <2>1, ReceiveIsQuiet DEF Quiet
  <2> QED BY <1>1, <1>2, <2>2, QuietStream DEF ShownOf
<1>3. CASE n = ws /\ Quiet(n) /\ (Shuts \/ ~IsChat(Head(toPage[n])) \/ torn[n])
  <2>1. StreamOf(n)' /\ (UNCHANGED <<streaming, text, begun>> => ShownOf(n)')
    BY <1>1, <1>3, QuietStream
  <2>2. CASE Shuts
    BY <2>1, <2>2 DEF Shuts, Closed, StartsClosing, page, stream
  <2>3. CASE torn[n]
    <3>1. up[n] # "none" /\ UNCHANGED <<up, torn>>
      BY <1>1, <2>3 DEF LinkOf, bridge, handler, upstream
    <3>2. PhaseOf(n)' = "over"
      BY <2>3, <3>1, PhaseIs DEF Over
    <3> QED BY <2>1, <3>2 DEF ShownOf
  <2>4. CASE ~Shuts /\ ~IsChat(Head(toPage[n]))
    <3>1. (UNCHANGED <<streaming, text, begun>>) \/ ~streaming'
      BY <1>3, <2>4 DEF Receive, Shuts, IsChat, OnReady, OnHistory, OnChatError, EndStream, stream
    <3> QED BY <2>1, <3>1 DEF ShownOf
  <2> QED BY <1>3, <2>2, <2>3, <2>4
<1>4. CASE /\ n = ws /\ IsChat(Head(toPage[n])) /\ Head(FeedOf(n)) = Head(toPage[n])
           /\ Takes(n)
  BY <1>4, TakenStream
<1> QED BY <1>1, <1>2, <1>3, <1>4, ReceiveIsQuiet

LEMMA UnreadKeepsStream ==
    ASSUME StreamInv, Unread, NEW n \in Conns
    PROVE  StreamOf(n)' /\ ShownOf(n)'
<1>1. FeedInv /\ UNCHANGED stream /\ (ws' = ws \/ (ws' = ws + 1 /\ begun <= ws))
  <2>1. UNCHANGED stream /\ (ws' = ws \/ ws' = ws + 1)
    BY DEF Unread, Accept, Opened, ConnectFails, SocketBreaks, CloseEvent, Closed, Reconnect,
       RequestHistory, Submit, page, client, vars
  <2> QED BY <2>1 DEF StreamInv, FeedInv, OrderInv
<1>2. CASE \E e \in ChatEvents : Says(e) /\ UNCHANGED page /\ Told(n, e)
  BY <1>2, ToldStream
<1>3. CASE Quiet(n) /\ NothingSaid
  <2>1. StreamOf(n)' /\ (n = ws /\ ws' = ws => ShownOf(n)')
    BY <1>1, <1>3, QuietStream DEF stream
  <2>2. CASE ws' = ws
    BY <2>1, <2>2 DEF ShownOf
  <2>3. CASE ws' = ws + 1 /\ begun <= ws
    <3>1. begun' # ws'
      BY <1>1, <2>3 DEF stream, FeedInv, OrderInv, TypeInv, PageTypeOK, PageTypes, Conns
    <3> QED BY <2>1, <3>1 DEF ShownOf
  <2> QED BY <1>1, <2>1, <2>2, <2>3
<1> QED BY <1>1, <1>2, <1>3, FeedSteps DEF Quiet

LEMMA StreamInvKept == StreamInv /\ [Next]_vars => StreamInv'
<1> SUFFICES ASSUME StreamInv, [Next]_vars PROVE StreamInv'
  OBVIOUS
<1>1. FeedInv'
  BY FeedInvKept DEF StreamInv
<1>2. ASSUME NEW n \in Conns PROVE StreamOf(n)' /\ ShownOf(n)'
  BY UnreadOrReceived, UnreadKeepsStream, ReceiveKeepsStream
<1> QED BY <1>1, <1>2 DEF StreamInv

LEMMA StreamInvInit == Init => StreamInv
<1> SUFFICES ASSUME Init PROVE StreamInv
  OBVIOUS
<1>1. FeedInv /\ ~streaming
  BY FeedInvInit DEF Init, PageInit
<1>2. ASSUME NEW n \in Conns PROVE StreamOf(n) /\ ShownOf(n)
  <2>1. up[n] = "none" /\ pump[n] = "off" /\ srv[n] = "none"
    BY DEF Init, BridgeInit
  <2> QED BY <1>1, <2>1, PhaseIs DEF Over, Started, Responded, StreamOf, ShownOf
<1> QED BY <1>1, <1>2 DEF StreamInv

\* An event of the feed is a frame of the page's or of the gateway's socket.
LEMMA FeedIsOnItsWay ==
    ASSUME TypeInv, NEW n \in Conns, LinkOf(n), NEW k \in DOMAIN FeedOf(n)
    PROVE  \/ \E i \in DOMAIN toPage[n] : toPage[n][i] = FeedOf(n)[k]
           \/ \E i \in DOMAIN fromGw[n] : fromGw[n][i] = FeedOf(n)[k]
<1>1. CellTypes(n) /\ fromGw[n] \in Seq(Responses \union ChatEvents)
  BY CellTyped DEF CellTypes
<1>2. ~torn[n] /\ FeedOf(n) = Chats(toPage[n]) \o Coming(n)
  BY DEF FeedOf
<1> DEFINE s == Chats(toPage[n])
           t == Coming(n)
<1>3. s \in Seq(ChatEvents) /\ t \in Seq(ChatEvents)
  BY <1>1, <1>2, ChatsAreEvents, ComingTyped DEF CellTypes
<1>4. \A j \in DOMAIN s : \E i \in DOMAIN toPage[n] : toPage[n][i] = s[j]
  BY <1>1, ChatsAreEvents DEF CellTypes
<1>5. \A j \in DOMAIN t : \E i \in DOMAIN fromGw[n] : fromGw[n][i] = t[j]
  <2>1. CASE t = fromGw[n]
    BY <2>1
  <2>2. CASE t = Behind(fromGw[n]) /\ OneRes(fromGw[n])
    <3>1. PICK i \in DOMAIN fromGw[n] : t = SubSeq(fromGw[n], i + 1, Len(fromGw[n]))
      BY <2>2, BehindOne DEF OneRes
    <3>2. \A j \in DOMAIN t : i + j \in DOMAIN fromGw[n] /\ fromGw[n][i + j] = t[j]
      BY <1>1, <3>1
    <3> QED BY <3>2
  <2>3. CASE t = <<>>
    BY <2>3
  <2>4. t = fromGw[n] \/ t = <<>> \/ (t = Behind(fromGw[n]) /\ OneRes(fromGw[n]))
    <3>1. CASE srv[n] = "history" /\ up[n] = "open"
      <4>1. NoRes(fromGw[n]) \/ OneRes(fromGw[n])
        BY <3>1 DEF LinkOf, Connects
      <4> QED BY <4>1, BehindNone DEF Coming
    <3>2. CASE up[n] # "open"
      BY <1>2, <3>2, ComingTyped
    <3>3. CASE srv[n] # "history"
      BY <3>3 DEF Coming
    <3> QED BY <3>1, <3>2, <3>3
  <2> QED BY <2>1, <2>2, <2>3, <2>4
<1> HIDE DEF s, t
<1>6. (k \in DOMAIN s /\ FeedOf(n)[k] = s[k]) \/ (\E j \in DOMAIN t : FeedOf(n)[k] = t[j])
  <2>1. FeedOf(n) = s \o t
    BY <1>2 DEF s, t
  <2>2. k \in 1 .. Len(s) + Len(t) /\ (s \o t)[k] = IF k <= Len(s) THEN s[k] ELSE t[k - Len(s)]
    BY <1>3, <2>1
  <2>3. CASE k <= Len(s)
    BY <1>3, <2>1, <2>2, <2>3
  <2>4. CASE ~(k <= Len(s))
    <3>1. k - Len(s) \in DOMAIN t
      BY <1>3, <2>2, <2>4
    <3> QED BY <2>1, <2>2, <2>4, <3>1
  <2> QED BY <2>3, <2>4
<1> QED BY <1>4, <1>5, <1>6

\* onChatDelta and onChatFinal (main.ts): a stream that began on this socket shows
\* pieces of one answer only, and its end is still to come.
THEOREM StreamsDoEnd == Spec => []StreamEnds
<1>1. ASSUME StreamInv PROVE StreamEnds
  <2> SUFFICES ASSUME streaming, begun = ws, socket[ws] = "open", up[ws] = "open", ~torn[ws]
               PROVE  \E r \in Runs :
                         /\ text = {r}
                         /\ \/ inbox # <<>> /\ Head(inbox) = r
                            \/ \E i \in DOMAIN toPage[ws] : Ends(toPage[ws][i], r)
                            \/ \E i \in DOMAIN fromGw[ws] : Ends(fromGw[ws][i], r)
    BY DEF StreamEnds, OnItsWay, Ends
  <2>1. ws \in Conns /\ TypeInv /\ LinkOf(ws) /\ ShownOf(ws)
    BY <1>1 DEF StreamInv, FeedInv, OrderInv, TypeInv, PageTypeOK, PageTypes
  <2>2. PhaseOf(ws) = "open"
    BY <2>1, PhaseIs DEF ShownOf, Over
  <2>3. PICK r \in Runs : text = {r} /\ Continued(inbox, FeedOf(ws), 0, r)
    BY <2>1, <2>2 DEF ShownOf
  <2>4. CASE \E k \in DOMAIN FeedOf(ws) : Ends(FeedOf(ws)[k], r)
    <3>1. PICK k \in DOMAIN FeedOf(ws) : Ends(FeedOf(ws)[k], r)
      BY <2>4
    <3>2. \/ \E i \in DOMAIN toPage[ws] : toPage[ws][i] = FeedOf(ws)[k]
          \/ \E i \in DOMAIN fromGw[ws] : fromGw[ws][i] = FeedOf(ws)[k]
      BY <2>1, FeedIsOnItsWay
    <3> QED BY <2>3, <3>1, <3>2
  <2> QED BY <2>3, <2>4 DEF Continued
<1> QED BY <1>1, StreamInvInit, StreamInvKept, PTL DEF Spec

-----------------------------------------------------------------------------
(* No answer is lost *)

Comes(s, r) == \E i \in DOMAIN s : s[i].t = "final" /\ s[i].run = r

\* Every answer the agent has given, but for those the transcript of socket n passed
\* over, is in S or in the feed of the socket.
Covers(n, S) == \A r \in answered \ omitted[n] : r \in S \/ Comes(FeedOf(n), r)

\* The frames of one kind.
Among(s, t) == {s[i] : i \in {j \in DOMAIN s : s[j].t = t}}

\* What a socket is to be sent, and was sent, of the transcript.
LostOf(n) ==
    /\ srv[n] \in Boot => hist[n] # "sent" /\ Among(toPage[n], "history") = {}
    /\ PhaseOf(n) = "open" /\ srv[n] = "history" =>
         \A f \in Among(fromGw[n], "res") :
            f.ok => Covers(n, History(f).runs)
    /\ PhaseOf(n) = "open" /\ hist[n] = "sent" =>
         /\ \A f \in Among(toPage[n], "history") : ~f.empty /\ Covers(n, f.runs)
         /\ n = ws /\ Among(toPage[n], "history") = {} => Covers(n, shown \union swallowed)

\* A transcript and what follows it hold every answer that was not passed over, and so
\* do the page and what follows.
LostInv == FeedInv /\ \A n \in Conns : LostOf(n)

\* Only the answer to a request for the transcript passes answers over.
LEMMA OmittedKept ==
    ASSUME TypeInv, NEW m \in Conns, NEW n \in Conns,
           \/ Handle(m) \/ Pump(m) \/ PumpEnds(m) \/ SendRefused(m) \/ DialFails(m) \/ TimesOut(m)
              \/ UpstreamBreaks(m)
           \/ n # m /\ (GatewayAnswers(m) \/ GatewayRefuses(m))
    PROVE  omitted'[n] = omitted[n]
<1> USE DEF agent
<1>1. CASE Dial(m) \/ ReadHistory(m) \/ PumpEnds(m) \/ UpstreamBreaks(m)
  BY <1>1 DEF Dial, ReadHistory, PumpEnds, UpstreamBreaks
<1>2. CASE ReadRes(m) \/ Pump(m)
  BY <1>2 DEF ReadRes, Pump
<1>3. CASE Select(m) \/ PageGone(m) \/ DialFails(m)
  BY <1>3 DEF Select, PageGone, DialFails
<1>4. CASE RequestFails(m) \/ TimesOut(m)
  BY <1>4 DEF RequestFails, TimesOut, Abandon
<1>5. CASE ReadSend(m) \/ SendRefused(m)
  BY <1>5 DEF ReadSend, SendRefused, TakeSend
<1>6. CASE n # m /\ (GatewayAnswers(m) \/ GatewayRefuses(m))
  <2>1. PICK ok \in BOOLEAN : Respond(m, ok)
    BY <1>6 DEF GatewayAnswers, GatewayRefuses
  <2>2. omitted \in [Conns -> SUBSET Runs]
    BY DEF TypeInv, BridgeInv, BridgeTypeOK, BridgeTypes
  <2>3. omitted' \in {omitted, [omitted EXCEPT ![m] = PassedOver]}
    BY <2>1 DEF Respond
  <2> QED BY <1>6, <2>2, <2>3
<1> QED BY <1>1, <1>2, <1>3, <1>4, <1>5, <1>6 DEF Handle

\* The transcript lists an answer that is not passed over, and so is not empty.
LEMMA HistoryRuns ==
    ASSUME NEW f
    PROVE  /\ History(f).runs = {r \in Runs : Post("agent", r) \in f.posts \ Skipped}
           /\ History(f).empty => History(f).runs = {}
BY DEF History, Transcript

LEMMA AmongAppend ==
    ASSUME NEW S, NEW s \in Seq(S), NEW f \in S, NEW t
    PROVE  /\ Among(Append(s, f), t) = Among(s, t) \union (IF f.t = t THEN {f} ELSE {})
           /\ Among(s \o <<f>>, t) = Among(s, t) \union (IF f.t = t THEN {f} ELSE {})
<1> DEFINE a == Append(s, f)
           l == Len(s) + 1
<1>1. /\ DOMAIN a = DOMAIN s \union {l} /\ l \notin DOMAIN s
      /\ a[l] = f /\ \A i \in DOMAIN s : a[i] = s[i]
      /\ a = s \o <<f>>
  OBVIOUS
<1> HIDE DEF a, l
<1>2. Among(a, t) = Among(s, t) \union (IF f.t = t THEN {f} ELSE {})
  BY <1>1 DEF Among
<1> QED BY <1>1, <1>2 DEF a

LEMMA AmongTail ==
    ASSUME NEW S, NEW s \in Seq(S), s # <<>>, NEW t
    PROVE  /\ Among(s, t) = Among(Tail(s), t) \union (IF Head(s).t = t THEN {Head(s)} ELSE {})
           /\ Head(s) \in S
<1> DEFINE a == Tail(s)
<1>1. /\ \A i \in DOMAIN a : i + 1 \in DOMAIN s /\ a[i] = s[i + 1]
      /\ 1 \in DOMAIN s /\ s[1] = Head(s) /\ Head(s) \in S
      /\ \A i \in DOMAIN s : i = 1 \/ (i - 1 \in DOMAIN a /\ a[i - 1] = s[i])
  OBVIOUS
<1> HIDE DEF a
<1>2. Among(s, t) \subseteq Among(a, t) \union (IF Head(s).t = t THEN {Head(s)} ELSE {})
  BY <1>1 DEF Among
<1>3. Among(a, t) \union (IF Head(s).t = t THEN {Head(s)} ELSE {}) \subseteq Among(s, t)
  BY <1>1 DEF Among
<1> QED BY <1>1, <1>2, <1>3 DEF a

LEMMA AmongNone ==
    /\ \A t : Among(<<>>, t) = {}
    /\ \A s : NoRes(s) => Among(s, "res") = {}
    /\ \A s : ~HasHistory(s) => Among(s, "history") = {}
BY DEF Among, NoRes, ResAt, HasHistory

\* Frames that are no transcript are written to the page.
LEMMA WritesNoHistory ==
    ASSUME TypeInv, NEW n \in Conns, NEW f \in PageFrames, f.t # "history"
    PROVE  Among(Written(n, <<f>>)[n], "history") = Among(toPage[n], "history")
<1> DEFINE s == toPage[n]
<1>1. s \in Seq(PageFrames) /\ toPage \in [Conns -> Seq(PageFrames)]
  BY DEF TypeInv, BridgeInv, SocketsTypeOK
<1> HIDE DEF s
<1>2. Among(s \o <<f>>, "history") = Among(s, "history") \union (IF f.t = "history" THEN {f} ELSE {})
  BY <1>1, AmongAppend
<1>3. Among(s \o <<f>>, "history") = Among(s, "history")
  BY <1>2
<1> QED BY <1>1, <1>3 DEF Written, s

\* The socket is not subscribed, or is no longer.
LEMMA GoneKeepsLost ==
    ASSUME NEW n \in Conns, LostOf(n), PhaseOf(n)' # "open",
           srv'[n] \in Boot =>
              /\ srv[n] \in Boot /\ hist'[n] = hist[n]
              /\ Among(toPage'[n], "history") \subseteq Among(toPage[n], "history")
    PROVE  LostOf(n)'
BY DEF LostOf, Among

\* The socket is subscribed before and after, and nothing about its transcript
\* changes.
LEMMA SameKeepsLost ==
    ASSUME NEW n \in Conns, LostOf(n), Quiet(n), answered' = answered,
           omitted'[n] = omitted[n], hist'[n] = hist[n],
           PhaseOf(n)' = "open" => PhaseOf(n) = "open",
           srv'[n] \in Boot => srv[n] \in Boot,
           srv'[n] = "history" =>
              srv[n] = "history" /\ Among(fromGw'[n], "res") \subseteq Among(fromGw[n], "res"),
           Among(toPage'[n], "history") = Among(toPage[n], "history"),
           n = ws' => n = ws /\ shown \union swallowed \subseteq shown' \union swallowed'
    PROVE  LostOf(n)'
<1>1. /\ Among(toPage[n], "history")' = Among(toPage'[n], "history")
      /\ Among(fromGw[n], "res")' = Among(fromGw'[n], "res")
  BY DEF Among
<1>2. CASE PhaseOf(n)' = "open"
  <2>1. FeedOf(n)' = FeedOf(n)
    BY <1>2 DEF Quiet, Same, Subscribes, Stops, Drops
  <2>2. \A S, T : S \subseteq T /\ Covers(n, S) => Covers(n, T)'
    BY <2>1 DEF Covers, Comes
  <2>3. \A S : Covers(n, S) => Covers(n, S)'
    BY <2>2
  <2>4. PhaseOf(n) = "open"
    BY <1>2
  <2>5. srv'[n] \in Boot => hist'[n] # "sent" /\ Among(toPage'[n], "history") = {}
    BY DEF LostOf
  <2>6. ASSUME srv'[n] = "history", NEW f \in Among(fromGw'[n], "res"), f.ok
        PROVE  Covers(n, History(f).runs)'
    <3>1. PICK h : h = History(f)
      OBVIOUS
    <3>2. Covers(n, h.runs)
      BY <2>4, <2>6, <3>1 DEF LostOf
    <3> QED BY <2>3, <3>1, <3>2 DEF Covers, Comes, History
  <2>7. ASSUME hist'[n] = "sent", NEW f \in Among(toPage'[n], "history")
        PROVE  ~f.empty /\ Covers(n, f.runs)'
    BY <2>3, <2>4, <2>7 DEF LostOf
  <2>8. ASSUME hist'[n] = "sent", n = ws', Among(toPage'[n], "history") = {}
        PROVE  Covers(n, shown \union swallowed)'
    <3>1. Covers(n, shown \union swallowed)
      BY <2>4, <2>8 DEF LostOf
    <3> QED BY <2>1, <2>8, <3>1 DEF Covers, Comes
  <2> QED BY <1>1, <2>5, <2>6, <2>7, <2>8 DEF LostOf
<1>3. CASE PhaseOf(n)' # "open"
  BY <1>1, <1>3, GoneKeepsLost
<1> QED BY <1>2, <1>3

\* The response is the only one.
LEMMA OnlyResponse ==
    ASSUME NEW g \in Seq(Responses \union ChatEvents), NEW a \in Responses \union ChatEvents,
           a.t = "res", NoRes(g)
    PROVE  Among(Append(g, a), "res") = {a}
<1>1. PICK S : S = Responses \union ChatEvents
  OBVIOUS
<1>2. g \in Seq(S) /\ a \in S
  BY <1>1
<1>3. Among(Append(g, a), "res") = Among(g, "res") \union (IF a.t = "res" THEN {a} ELSE {})
  <2>1. Append(g, a) = g \o <<a>>
    BY <1>2
  <2>2. Among(g \o <<a>>, "res") = Among(g, "res") \union (IF a.t = "res" THEN {a} ELSE {})
    BY <1>2, AmongAppend
  <2> QED BY <2>1, <2>2
<1>4. Among(g, "res") = {}
  BY AmongNone
<1> QED BY <1>3, <1>4

LEMMA RespondKeepsLost ==
    ASSUME LostInv, NEW n \in Conns, NEW ok \in BOOLEAN, Respond(n, ok)
    PROVE  LostOf(n)'
<1> DEFINE g == fromGw[n]
<1> PICK a : a = Answer(asked[n], ok)
  OBVIOUS
<1>1. /\ TypeInv /\ LinkOf(n) /\ LostOf(n) /\ CellTypes(n)
      /\ asked[n] # "none" /\ up[n] = "open"
      /\ asked'[n] = "none" /\ fromGw'[n] = Append(g, a) /\ g \in Seq(Responses \union ChatEvents)
      /\ UNCHANGED <<srv, pump, up, torn, socket, toPage, hist, log, answered>>
  BY CellTyped, NoPosts DEF LostInv, FeedInv, OrderInv, CellTypes, Respond, handler, TypeInv, BridgeInv,
     BridgeTypeOK, BridgeTypes
<1>2. a \in Responses \union ChatEvents /\ a.t = "res"
  BY <1>1, AnswerTyped DEF TypeInv, BridgeInv, CellTypes, Answer
<1>3. CASE torn[n] \/ srv[n] # "history"
  <2>1. PhaseOf(n)' # "open"
    <3>1. pump[n] # "on" \/ torn[n]
      BY <1>1, <1>3 DEF LinkOf
    <3> QED BY <1>1, <1>3, <3>1, PhaseIs DEF Over, Started, Responded
  <2> QED BY <1>1, <2>1, GoneKeepsLost
<1>4. CASE ~torn[n] /\ srv[n] = "history"
  <2>1. NoRes(g) /\ asked[n] = "history" /\ srv[n] \in Boot
    BY <1>1, <1>4, CellTyped DEF LinkOf, Connects, CellTypes, Requests, Boot
  <2>2. a.ok => \A r \in answered' \ omitted'[n] : r \in History(a).runs
    <3>1. a.ok <=> ok
      BY DEF Answer
    <3>2. CASE ok
      <4>1. a.posts = Latest /\ omitted'[n] = PassedOver
        <5>1. a.posts = Latest
          BY <2>1, <3>2 DEF Answer
        <5>2. omitted' = [omitted EXCEPT ![n] = PassedOver] /\ omitted \in [Conns -> SUBSET Runs]
          BY <2>1, <3>2 DEF Respond, LostInv, FeedInv, OrderInv, TypeInv, BridgeInv, BridgeTypeOK, BridgeTypes
        <5> QED BY <5>1, <5>2
      <4>2. \A r \in answered \ PassedOver : r \in Runs /\ Post("agent", r) \in Latest \ Skipped
        BY DEF PassedOver, answered
      <4>3. History(a).runs = {r \in Runs : Post("agent", r) \in a.posts \ Skipped}
        BY HistoryRuns
      <4> QED BY <1>1, <4>1, <4>2, <4>3
    <3> QED BY <3>1, <3>2
  <2> HIDE DEF g
  <2>4. Among(Append(g, a), "res") = {a}
    BY <1>1, <1>2, <2>1, OnlyResponse
  <2>5. Among(fromGw[n], "res")' = {a} /\ Among(toPage[n], "history")' = Among(toPage[n], "history")
    <3>1. fromGw'[n] = Append(g, a) /\ toPage'[n] = toPage[n]
      BY <1>1 DEF g
    <3>2. Among(fromGw[n], "res")' = Among(fromGw'[n], "res")
      BY DEF Among
    <3>3. Among(toPage[n], "history")' = Among(toPage'[n], "history")
      BY DEF Among
    <3> QED BY <2>4, <3>1, <3>2, <3>3
  <2>6. a.ok => Covers(n, History(a).runs)'
    <3>1. PICK h : h = History(a)
      OBVIOUS
    <3>2. a.ok => Covers(n, h.runs)'
      BY <2>2, <3>1 DEF Covers
    <3> QED BY <3>1, <3>2 DEF Covers, History
  <2>7. hist[n] # "sent" /\ Among(toPage[n], "history") = {}
    BY <1>1, <2>1 DEF LostOf
  <2> QED BY <1>1, <2>2, <2>5, <2>6, <2>7 DEF LostOf
<1> QED BY <1>3, <1>4

LEMMA LeaveKeepsLost ==
    ASSUME LostInv, NEW n \in Conns, Leave(n, <<>>) \/ Leave(n, <<Control("failed")>>)
    PROVE  LostOf(n)'
<1>1. srv'[n] = "done" /\ up'[n] = "closed"
  BY DEF Leave, At, Cut, LostInv, FeedInv, OrderInv, TypeInv, BridgeInv, BridgeTypeOK, BridgeTypes
<1>2. PhaseOf(n)' # "open"
  BY <1>1, PhaseIs DEF Over
<1> QED BY <1>1, <1>2, GoneKeepsLost DEF LostInv, Boot

LEMMA AbandonKeepsLost ==
    ASSUME LostInv, NEW n \in Conns, Abandon(n)
    PROVE  LostOf(n)'
<1>1. CASE Unreachable(n)
  BY <1>1, LeaveKeepsLost DEF Unreachable
<1>2. CASE ~Unreachable(n)
  <2>1. srv'[n] = "select" /\ up'[n] = "broken"
    BY <1>2 DEF Abandon, At, Cut, LostInv, FeedInv, OrderInv, TypeInv, BridgeInv, BridgeTypeOK,
       BridgeTypes
  <2>2. PhaseOf(n)' # "open"
    BY <2>1, PhaseIs DEF Over
  <2> QED BY <2>1, <2>2, GoneKeepsLost DEF LostInv, Boot
<1> QED BY <1>1, <1>2

\* The steps after which the socket is not subscribed.
LEMMA EndingsKeepLost ==
    ASSUME LostInv, NEW n \in Conns,
           \/ Dial(n) \/ UpstreamBreaks(n) \/ PumpEnds(n) \/ ReadHistory(n)
           \/ (Select(n) /\ pump[n] = "ended") \/ PageGone(n) \/ DialFails(n)
    PROVE  LostOf(n)'
<1>1. TypeInv /\ LinkOf(n) /\ LostOf(n)
  BY DEF LostInv, FeedInv, OrderInv
<1> USE DEF TypeInv, BridgeInv, BridgeTypeOK, BridgeTypes
<1>2. CASE Dial(n)
  <2>1. /\ srv[n] = "dial" /\ srv'[n] = "list" /\ pump'[n] = "off"
        /\ UNCHANGED <<hist, toPage>>
    BY <1>1, <1>2 DEF Dial, At, sockets, LinkOf
  <2>2. PhaseOf(n)' # "open"
    BY <2>1, PhaseIs DEF Started, Responded
  <2> QED BY <1>1, <2>1, <2>2, GoneKeepsLost DEF Boot
<1>3. CASE UpstreamBreaks(n)
  <2>1. up'[n] = "broken" /\ UNCHANGED <<srv, hist, toPage>>
    BY <1>1, <1>3 DEF UpstreamBreaks, Cut, handler
  <2>2. PhaseOf(n)' # "open"
    BY <2>1, PhaseIs DEF Over
  <2> QED BY <1>1, <2>1, <2>2, GoneKeepsLost
<1>4. CASE PumpEnds(n)
  <2>1. up'[n] = "broken" /\ UNCHANGED <<srv, hist, toPage>>
    BY <1>1, <1>4 DEF PumpEnds, upstream, sockets
  <2>2. PhaseOf(n)' # "open"
    BY <2>1, PhaseIs DEF Over
  <2> QED BY <1>1, <2>1, <2>2, GoneKeepsLost
<1>5. CASE ReadHistory(n)
  <2>1. srv'[n] = "ask" /\ torn'[n] /\ up'[n] # "none"
    BY <1>1, <1>5 DEF ReadHistory, At, LinkOf
  <2>2. PhaseOf(n)' # "open"
    BY <2>1, PhaseIs DEF Over
  <2> QED BY <1>1, <2>1, <2>2, GoneKeepsLost DEF Boot
<1>6. CASE (Select(n) /\ pump[n] = "ended") \/ PageGone(n) \/ DialFails(n)
  BY <1>6, LeaveKeepsLost DEF Select, PageGone, DialFails, Unreachable
<1> QED BY <1>2, <1>3, <1>4, <1>5, <1>6

\* The steps that leave the transcript alone.
LEMMA PumpingKeepsLost ==
    ASSUME LostInv, NEW n \in Conns, UNCHANGED page,
           Pump(n) \/ ReadSend(n) \/ SendRefused(n) \/ (Select(n) /\ pump[n] # "ended")
    PROVE  LostOf(n)'
<1>1. TypeInv /\ LinkOf(n) /\ LostOf(n) /\ FeedInv
  BY DEF LostInv, FeedInv, OrderInv
<1> USE DEF TypeInv, BridgeInv, BridgeTypeOK, BridgeTypes
<1>2. Quiet(n) /\ answered' = answered /\ omitted'[n] = omitted[n]
  BY <1>1, ServesQuietly, ServesSayNothing, OmittedKept DEF Handle, NothingSaid
<1>3. /\ srv'[n] \in {"select", "read", "ask"} /\ srv[n] \in {"select", "read", "ask"}
      /\ UNCHANGED <<pump, up, torn, socket, hist>>
  <2>1. CASE Pump(n)
    BY <1>1, <2>1, CellTyped DEF Pump, handler
  <2>2. CASE ReadSend(n) \/ SendRefused(n)
    BY <1>1, <2>2 DEF ReadSend, SendRefused, TakeSend, At, upstream
  <2>3. CASE Select(n) /\ pump[n] # "ended"
    BY <1>1, <2>3 DEF Select, At, upstream
  <2> QED BY <2>1, <2>2, <2>3
<1>4. PhaseOf(n)' = "open" => PhaseOf(n) = "open"
  BY <1>3, PhaseIs DEF Over, Started, Responded
<1>5. Among(toPage'[n], "history") = Among(toPage[n], "history")
  <2>1. CASE toPage' = toPage
    BY <2>1
  <2>2. CASE Pump(n) /\ IsChat(Head(fromGw[n]))
    <3>1. Head(fromGw[n]) \in Responses \union ChatEvents
      BY <1>1, <2>2 DEF Pump
    <3>2. Head(fromGw[n]) \in PageFrames /\ Head(fromGw[n]).t # "history"
      BY <2>2, <3>1, ResponseFields, FramesTyped DEF IsChat, Responses
    <3>3. toPage' = Written(n, <<Head(fromGw[n])>>)
      BY <2>2 DEF Pump
    <3> QED BY <1>1, <3>2, <3>3, WritesNoHistory
  <2>3. CASE toPage' = Written(n, <<Control("failed")>>)
    <3>1. Control("failed") \in PageFrames /\ Control("failed").t # "history"
      BY FramesTyped DEF Control
    <3> QED BY <1>1, <2>3, <3>1, WritesNoHistory
  <2> QED BY <2>1, <2>2, <2>3 DEF Pump, ReadSend, SendRefused, Select
<1>6. n = ws' => n = ws /\ shown \union swallowed \subseteq shown' \union swallowed'
  BY DEF page, client, view
<1>7. srv'[n] \notin Boot /\ srv'[n] # "history"
  BY <1>3 DEF Boot
<1> HIDE DEF TypeInv
<1> QED BY <1>1, <1>2, <1>3, <1>4, <1>5, <1>6, <1>7, SameKeepsLost

\* The transcript is written, unless it is empty, and the pump starts.
LEMMA StartsWithTranscript ==
    ASSUME LostInv, NEW n \in Conns, UNCHANGED page, ReadRes(n), srv[n] = "history",
           Head(fromGw[n]).t = "res"
    PROVE  LostOf(n)'
<1> DEFINE g == fromGw[n]
<1> PICK f : f = Head(g)
  OBVIOUS
<1>1. /\ FeedInv /\ TypeInv /\ LinkOf(n) /\ LostOf(n) /\ CellTypes(n) /\ g # <<>>
      /\ g \in Seq(Responses \union ChatEvents) /\ toPage \in [Conns -> Seq(PageFrames)]
      /\ socket[n] \in {"unused", "connecting"} => srv[n] = "none"
  BY CellTyped DEF LostInv, FeedInv, OrderInv, CellTypes, TypeInv, BridgeInv, SocketsTypeOK, ReadRes
<1>2. /\ StartPump(n, f) /\ UNCHANGED <<socket, torn, up, asked, answered, omitted, shown, swallowed>>
      /\ srv'[n] = "select" /\ srv'[n] \notin Boot
      /\ hist'[n] = IF f.ok THEN "sent" ELSE "skipped"
  BY <1>1, NoPosts DEF ReadRes, StartPump, At, agent, page, view, Boot, TypeInv, BridgeInv, BridgeTypeOK,
     BridgeTypes
<1>3. asked[n] = "none" /\ up[n] = "open" /\ ~torn[n]
  BY <1>1, AnsweredNext DEF Connects
<1>4. f \in Responses \union ChatEvents /\ f.t = "res" /\ f \in Among(g, "res")
  <2>1. 1 \in DOMAIN g /\ g[1] = f /\ f \in Responses \union ChatEvents
    BY <1>1
  <2> QED BY <2>1 DEF Among
<1> HIDE DEF g
<1>5. CASE PhaseOf(n)' # "open"
  BY <1>1, <1>2, <1>5, GoneKeepsLost
<1>6. CASE PhaseOf(n)' = "open" /\ ~f.ok
  BY <1>2, <1>6 DEF LostOf, Boot
<1>7. CASE PhaseOf(n)' = "open" /\ f.ok
  <2>1. socket[n] = "open" /\ PhaseOf(n) = "open"
    BY <1>1, <1>2, <1>3, <1>7, PhaseIs DEF Over, Started, Responded, CellTypes
  <2>2. FeedOf(n)' = FeedOf(n)
    <3>1. Quiet(n)
      BY <1>1, ServesQuietly DEF Handle
    <3> QED BY <1>7, <2>1, <3>1 DEF Quiet, Same, Subscribes, Stops, Drops
  <2> PICK h : h = History(f)
    OBVIOUS
  <2>3. Covers(n, h.runs) /\ (h.empty => h.runs = {}) /\ Among(toPage[n], "history") = {}
    BY <1>1, <1>4, <1>7, <2>1, HistoryRuns DEF LostOf, Boot, g
  <2>4. \A S, T : S \subseteq T /\ Covers(n, S) => Covers(n, T)'
    BY <1>2, <2>2 DEF Covers, Comes
  <2>5. CASE h.empty
    <3>1. toPage'[n] = toPage[n]
      BY <1>1, <1>2, <2>1, <2>5 DEF StartPump, Written
    <3>2. Among(toPage[n], "history")' = {}
      BY <2>3, <3>1 DEF Among
    <3>3. PICK T : T = shown \union swallowed
      OBVIOUS
    <3>4. Covers(n, T)' /\ T = (shown \union swallowed)'
      BY <1>2, <2>3, <2>4, <2>5, <3>3
    <3>5. Covers(n, shown \union swallowed)'
      BY <3>4 DEF Covers
    <3> QED BY <1>2, <3>2, <3>5 DEF LostOf, Boot
  <2>6. CASE ~h.empty
    <3>2. h \in PageFrames /\ h.t = "history"
      BY HistoryTyped
    <3>3. toPage'[n] = toPage[n] \o <<h>>
      BY <1>1, <1>2, <2>1, <2>6 DEF StartPump, Written
    <3>4. Among(toPage[n] \o <<h>>, "history") = {h}
      <4>1. toPage[n] \in Seq(PageFrames)
        BY <1>1
      <4>2. Among(toPage[n] \o <<h>>, "history")
              = Among(toPage[n], "history") \union (IF h.t = "history" THEN {h} ELSE {})
        BY <3>2, <4>1, AmongAppend
      <4> QED BY <2>3, <3>2, <4>2
    <3>5. Among(toPage[n], "history")' = {h}
      BY <3>3, <3>4 DEF Among
    <3>6. Covers(n, h.runs)'
      BY <2>3, <2>4
    <3> QED BY <1>2, <2>6, <3>2, <3>5, <3>6 DEF LostOf, Boot
  <2> QED BY <2>5, <2>6
<1> QED BY <1>5, <1>6, <1>7

LEMMA ReadResKeepsLost ==
    ASSUME LostInv, NEW n \in Conns, UNCHANGED page, ReadRes(n)
    PROVE  LostOf(n)'
<1> DEFINE g == fromGw[n]
           f == Head(g)
<1>1. /\ FeedInv /\ TypeInv /\ LinkOf(n) /\ OrderOf(n) /\ LostOf(n) /\ CellTypes(n)
      /\ g # <<>> /\ g \in Seq(Responses \union ChatEvents)
      /\ srv[n] \in Connects \union {"ask"}
      /\ UNCHANGED <<socket, torn, answered, omitted, ws, shown, swallowed>>
  BY CellTyped, NoPosts DEF LostInv, FeedInv, OrderInv, CellTypes, ReadRes, Connects, agent, page, client, view
<1>2. Quiet(n)
  BY <1>1, ServesQuietly DEF Handle
<1>3. CASE torn[n]
  <2>1. srv[n] = "ask"
    BY <1>1, <1>3 DEF LinkOf, Connects
  <2>2. srv'[n] \in {"ask", "select"} /\ up'[n] = up[n] /\ up[n] # "none"
    BY <1>1, <2>1 DEF ReadRes, SendHistory, At, LinkOf, TypeInv, BridgeInv, BridgeTypeOK, BridgeTypes
  <2>3. PhaseOf(n)' # "open"
    BY <1>1, <1>3, <2>2, PhaseIs DEF Over
  <2> QED BY <1>1, <2>2, <2>3, GoneKeepsLost DEF Boot
<1>4. CASE ~torn[n] /\ f.t # "res"
  <2>1. /\ fromGw'[n] = Tail(g) /\ UNCHANGED <<toPage, srv, pump, up, asked, hist>>
        /\ srv[n] \in Connects /\ pump[n] = "off"
    BY <1>1, <1>4 DEF ReadRes, OrderOf, LinkOf, TypeInv, BridgeInv, BridgeTypeOK, BridgeTypes
  <2>2. PhaseOf(n)' = PhaseOf(n)
    BY <1>1, <2>1, PhaseIs DEF Over, Started, Responded
  <2>3. Among(fromGw'[n], "res") \subseteq Among(g, "res")
    BY <1>1, <2>1, AmongTail
  <2> HIDE DEF f
  <2> QED BY <1>1, <1>2, <2>1, <2>2, <2>3, SameKeepsLost
<1>5. CASE f.t = "res" /\ Unreachable(n)
  BY <1>5, LeaveKeepsLost DEF Unreachable
<1>6. CASE f.t = "res" /\ srv[n] \in {"list", "create"} /\ ~Unreachable(n)
  <2>1. /\ asked'[n] # "none" /\ srv'[n] \in {"create", "history"} /\ pump'[n] = pump[n]
        /\ pump[n] = "off" /\ hist' = hist
        /\ toPage' \in {toPage, Written(n, <<Control("ready")>>)}
    BY <1>1, <1>6 DEF ReadRes, Ready, At, Ask, LinkOf, Connects, TypeInv, BridgeInv, BridgeTypeOK,
       BridgeTypes
  <2>2. Among(toPage'[n], "history") = Among(toPage[n], "history")
    <3>1. Control("ready") \in PageFrames /\ Control("ready").t # "history"
      BY FramesTyped DEF Control
    <3> QED BY <1>1, <2>1, <3>1, WritesNoHistory
  <2>3. PhaseOf(n)' # "open"
    BY <2>1, PhaseIs DEF Started, Responded
  <2> QED BY <1>1, <1>6, <2>1, <2>2, <2>3, GoneKeepsLost DEF Boot
<1>7. CASE f.t = "res" /\ srv[n] = "history"
  BY <1>7, StartsWithTranscript
<1> QED BY <1>1, <1>3, <1>4, <1>5, <1>6, <1>7 DEF OrderOf, Connects

\* The bridge serves a socket.
LEMMA ServesKeepsLost ==
    ASSUME LostInv, NEW m \in Conns, NEW n \in Conns, UNCHANGED page,
           \/ Handle(m) \/ Pump(m) \/ PumpEnds(m) \/ GatewayAnswers(m)
           \/ GatewayRefuses(m) \/ SendRefused(m) \/ DialFails(m) \/ TimesOut(m) \/ UpstreamBreaks(m)
    PROVE  LostOf(n)'
<1>1. FeedInv /\ TypeInv /\ LostOf(n) /\ LinkOf(n)
  BY DEF LostInv, FeedInv, OrderInv
<1>2. CASE n # m
  <2>1. UNCHANGED Cell(n)
    BY <1>1, <1>2, OthersKeepCell
  <2>2. /\ srv'[n] = srv[n] /\ fromGw'[n] = fromGw[n] /\ toPage'[n] = toPage[n]
    BY <2>1 DEF Cell
  <2>3. hist'[n] = hist[n]
    <3> USE DEF TypeInv, BridgeInv, BridgeTypeOK, BridgeTypes
    <3>1. CASE Dial(m) \/ ReadHistory(m) \/ PumpEnds(m) \/ UpstreamBreaks(m)
      BY <3>1 DEF Dial, ReadHistory, PumpEnds, UpstreamBreaks, handler
    <3>2. CASE ReadRes(m)
      BY <1>1, <1>2, <3>2 DEF ReadRes, Ready, StartPump, SendHistory
    <3>3. CASE Select(m) \/ PageGone(m) \/ DialFails(m)
      BY <3>3 DEF Select, PageGone, DialFails
    <3>4. CASE RequestFails(m) \/ TimesOut(m)
      BY <1>1, <1>2, <3>4 DEF RequestFails, TimesOut, Abandon
    <3>5. CASE Pump(m) \/ ReadSend(m) \/ SendRefused(m)
      BY <3>5 DEF Pump, ReadSend, SendRefused, TakeSend, handler
    <3>6. CASE GatewayAnswers(m) \/ GatewayRefuses(m)
      BY <3>6 DEF GatewayAnswers, GatewayRefuses, Respond, handler
    <3> QED BY <3>1, <3>2, <3>3, <3>4, <3>5, <3>6 DEF Handle
  <2>4. Same(n) /\ Quiet(n) /\ answered' = answered /\ omitted'[n] = omitted[n]
    BY <1>1, <1>2, <2>1, SameCell, ServesSayNothing, OmittedKept DEF Quiet, NothingSaid
  <2>5. UNCHANGED <<ws, shown, swallowed>>
    BY DEF page, client, view
  <2> QED BY <1>1, <2>2, <2>3, <2>4, <2>5, SameKeepsLost DEF Same
<1>3. CASE n = m
  <2>1. CASE Select(n)
    BY <2>1, EndingsKeepLost, PumpingKeepsLost
  <2>2. CASE GatewayAnswers(n) \/ GatewayRefuses(n)
    BY <2>2, RespondKeepsLost DEF GatewayAnswers, GatewayRefuses
  <2>3. CASE RequestFails(n) \/ TimesOut(n)
    BY <2>3, AbandonKeepsLost DEF RequestFails, TimesOut
  <2> QED BY <1>3, <2>1, <2>2, <2>3, EndingsKeepLost, PumpingKeepsLost, ReadResKeepsLost DEF Handle
<1> QED BY <1>2, <1>3

\* What the agent says is in the feed of every subscribed socket.
LEMMA ToldKeepsLost ==
    ASSUME LostInv, NEW n \in Conns, NEW e \in ChatEvents, Says(e), Told(n, e), Broadcast(e),
           UNCHANGED page, UNCHANGED <<socket, toPage, handler, up, asked>>
    PROVE  LostOf(n)'
<1>1. /\ FeedInv /\ TypeInv /\ LinkOf(n) /\ LostOf(n) /\ CellTypes(n)
      /\ UNCHANGED <<srv, hist, omitted, ws, shown, swallowed>>
      /\ FeedOf(n) \in Seq(ChatEvents) /\ fromGw[n] \in Seq(Responses \union ChatEvents)
  BY CellTyped, FeedTyped DEF LostInv, FeedInv, OrderInv, CellTypes, handler, page, client, view, Says,
     AgentStreams, AgentFinishes, AgentFails
<1>2. /\ \A r \in answered' : r \in answered \/ (e.t = "final" /\ e.run = r)
      /\ e.t # "res" /\ e \in Responses \union ChatEvents
  <2>1. e.t # "res"
    BY ChatEventFields
  <2>2. CASE AgentFinishes /\ e = Event("final", Head(inbox), 0)
    <3>1. log \in Seq(Posts) /\ Head(inbox) \in Runs /\ log' = Append(log, Post("agent", Head(inbox)))
      BY <1>1, <2>2 DEF AgentFinishes, TypeInv, BridgeInv, BridgeTypeOK, BridgeTypes
    <3>2. e.t = "final" /\ e.run = Head(inbox)
      BY <2>2 DEF Event
    <3> QED BY <2>1, <3>1, <3>2, AgentPosts
  <2>3. CASE AgentStreams \/ AgentFails
    BY <2>1, <2>3, NoPosts DEF AgentStreams, AgentFails
  <2> QED BY <2>2, <2>3 DEF Says
<1>3. CASE PhaseOf(n) # "open"
  BY <1>1, <1>3, GoneKeepsLost DEF Told
<1>4. CASE PhaseOf(n) = "open"
  <2>1. PhaseOf(n)' = "open" /\ FeedOf(n)' = Append(FeedOf(n), e)
    BY <1>4 DEF Told
  <2>2. \A r : Comes(FeedOf(n), r) => Comes(FeedOf(n)', r)
    <3> DEFINE s == FeedOf(n)
    <3>1. \A i \in DOMAIN s : i \in DOMAIN Append(s, e) /\ Append(s, e)[i] = s[i]
      BY <1>1
    <3> HIDE DEF s
    <3>2. \A r : Comes(s, r) => Comes(Append(s, e), r)
      BY <3>1 DEF Comes
    <3> QED BY <2>1, <3>2 DEF s
  <2>3. \A r : e.t = "final" /\ e.run = r => Comes(FeedOf(n)', r)
    <3> DEFINE s == FeedOf(n)
    <3>1. Len(s) + 1 \in DOMAIN Append(s, e) /\ Append(s, e)[Len(s) + 1] = e
      BY <1>1
    <3> HIDE DEF s
    <3>2. \A r : e.t = "final" /\ e.run = r => Comes(Append(s, e), r)
      BY <3>1 DEF Comes
    <3> QED BY <2>1, <3>2 DEF s
  <2>4. \A S : Covers(n, S) => \A r \in answered' \ omitted'[n] : r \in S \/ Comes(FeedOf(n)', r)
    BY <1>1, <1>2, <2>2, <2>3 DEF Covers
  <2>5. \A S : Covers(n, S) => Covers(n, S)'
    BY <2>4 DEF Covers, Comes
  <2>6. Among(fromGw'[n], "res") = Among(fromGw[n], "res")
    <3>1. fromGw'[n] = fromGw[n] \/ fromGw'[n] = Append(fromGw[n], e)
      BY DEF Broadcast
    <3>2. PICK S : S = Responses \union ChatEvents
      OBVIOUS
    <3>3. fromGw[n] \in Seq(S) /\ e \in S
      BY <1>1, <1>2, <3>2
    <3>4. Append(fromGw[n], e) = fromGw[n] \o <<e>>
      BY <3>3
    <3>5. Among(fromGw[n] \o <<e>>, "res") = Among(fromGw[n], "res") \union (IF e.t = "res" THEN {e} ELSE {})
      BY <3>3, AmongAppend
    <3> QED BY <1>2, <3>1, <3>4, <3>5
  <2>7. /\ Among(toPage[n], "history")' = Among(toPage[n], "history")
        /\ Among(fromGw[n], "res")' = Among(fromGw[n], "res")
    BY <2>6 DEF Among
  <2>8. PICK T : T = shown \union swallowed
    OBVIOUS
  <2>9. Covers(n, T) => Covers(n, shown \union swallowed)'
    <3>1. T = (shown \union swallowed)'
      BY <1>1, <2>8
    <3> QED BY <2>5, <3>1 DEF Covers
  <2>10. \A f : Covers(n, History(f).runs) => Covers(n, History(f).runs)'
    <3> TAKE f
    <3> PICK h : h = History(f)
      OBVIOUS
    <3>1. Covers(n, h.runs) => Covers(n, h.runs)'
      BY <2>5
    <3> QED BY <3>1 DEF Covers, History
  <2> QED BY <1>1, <1>4, <2>1, <2>5, <2>7, <2>8, <2>9, <2>10 DEF LostOf
<1> QED BY <1>3, <1>4

LEMMA ShutKeepsLost ==
    ASSUME LostInv, NEW w \in Conns, w = ws, Shuts, UNCHANGED bridge, NEW n \in Conns
    PROVE  LostOf(n)'
<1>1. /\ FeedInv /\ TypeInv /\ LinkOf(n) /\ LostOf(n)
      /\ UNCHANGED <<srv, pump, up, asked, fromGw, torn, hist, answered, omitted, ws, shown, swallowed>>
  BY NoPosts DEF LostInv, FeedInv, OrderInv, Shuts, Closed, StartsClosing, page, client, view, bridge,
     handler, upstream, agent
<1>2. CASE n # w
  <2>1. Same(n) /\ toPage'[n] = toPage[n]
    BY <1>1, <1>2, ShutIsQuiet DEF Shuts, Closed, StartsClosing, TypeInv, BridgeInv, SocketsTypeOK
  <2> QED BY <1>1, <2>1, SameKeepsLost DEF Same, Quiet
<1>3. CASE n = w
  <2>1. Shut(n)' /\ toPage'[n] = <<>>
    BY <1>1, <1>3 DEF Shuts, Closed, StartsClosing, TypeInv, BridgeInv, SocketsTypeOK
  <2>2. PhaseOf(n)' # "open"
    BY <1>1, <2>1, PhaseIs DEF Over, Started, Responded, LinkOf
  <2>3. Among(toPage'[n], "history") = {}
    BY <2>1, AmongNone
  <2> QED BY <1>1, <2>2, <2>3, GoneKeepsLost
<1> QED BY <1>2, <1>3

LEMMA UnreadKeepsLost ==
    ASSUME LostInv, Unread, NEW n \in Conns
    PROVE  LostOf(n)'
<1>1. /\ FeedInv /\ TypeInv /\ LinkOf(n) /\ LostOf(n) /\ ws \in Conns
      /\ socket[n] \in {"unused", "connecting"} => srv[n] = "none"
  BY CellTyped DEF LostInv, FeedInv, OrderInv, TypeInv, PageTypeOK, PageTypes
<1>2. PICK w \in Conns : w = ws
  BY <1>1
<1>3. CASE Accept
  <2>1. /\ UNCHANGED <<pump, up, asked, fromGw, torn, hist, answered, omitted, ws, shown, swallowed,
                       toPage>>
        /\ srv[w] = "none" /\ srv' = [srv EXCEPT ![w] = "dial"]
        /\ srv'[w] = "dial" /\ (n # w => srv'[n] = srv[n])
    BY <1>1, <1>2, <1>3, CellTyped, NoPosts DEF Accept, Opened, upstream, agent, view, TypeInv, BridgeInv,
       BridgeTypeOK, BridgeTypes
  <2>2. CASE n # w
    <3>1. Same(n)
      BY <1>1, <1>2, <1>3, <2>2, AcceptIsQuiet
    <3> QED BY <1>1, <2>1, <2>2, <3>1, SameKeepsLost DEF Same, Quiet
  <2>3. CASE n = w
    <3>1. PhaseOf(n)' # "open"
      BY <1>1, <2>1, <2>3, PhaseIs DEF Started, Responded, LinkOf
    <3> QED BY <1>1, <2>1, <2>3, <3>1, GoneKeepsLost DEF Boot
  <2> QED BY <2>2, <2>3
<1>4. CASE BridgeNext /\ UNCHANGED page
  <2>1. CASE AgentStreams \/ AgentFinishes \/ AgentFails
    <3>1. PICK e \in ChatEvents :
            Says(e) /\ Broadcast(e) /\ UNCHANGED <<socket, toPage, handler, up, asked>>
      BY <1>1, <2>1, AgentSays
    <3>2. Told(n, e)
      BY <1>1, <3>1, BroadcastIsTold
    <3> QED BY <1>4, <3>1, <3>2, ToldKeepsLost
  <2>2. CASE \E m \in Conns :
               \/ Handle(m) \/ Pump(m) \/ PumpEnds(m) \/ GatewayAnswers(m)
               \/ GatewayRefuses(m) \/ SendRefused(m) \/ DialFails(m) \/ TimesOut(m) \/ UpstreamBreaks(m)
    BY <1>4, <2>2, ServesKeepsLost
  <2> QED BY <1>4, <2>1, <2>2 DEF BridgeNext
<1>5. CASE (ConnectFails \/ SocketBreaks \/ CloseEvent) /\ UNCHANGED bridge
  BY <1>2, <1>5, ShutKeepsLost DEF ConnectFails, SocketBreaks, CloseEvent, Shuts
<1>6. CASE (Reconnect \/ RequestHistory \/ Submit) /\ UNCHANGED bridge
  <2>1. /\ UNCHANGED <<srv, pump, up, asked, fromGw, torn, hist, answered, omitted, toPage, shown,
                       swallowed>>
        /\ Same(n)
    BY <1>1, <1>6, SendingIsQuiet, NoPosts DEF Reconnect, RequestHistory, Submit, bridge, handler, upstream,
       agent, page, view
  <2>2. CASE n = ws' /\ n # ws
    <3>1. Reconnect /\ n = ws + 1
      BY <1>6, <2>2 DEF Reconnect, RequestHistory, Submit, page, client
    <3>2. socket[n] = "unused"
      <4>1. n > ws
        BY <1>1, <3>1 DEF Conns
      <4> QED BY <1>1, <4>1 DEF TypeInv, PageTypeOK, PageLinks
    <3>3. PhaseOf(n)' # "open"
      BY <1>1, <2>1, <3>2, PhaseIs DEF Over, Started, Responded, LinkOf
    <3> QED BY <1>1, <2>1, <3>3, GoneKeepsLost
  <2>3. CASE ~(n = ws' /\ n # ws)
    BY <1>1, <2>1, <2>3, SameKeepsLost DEF Same, Quiet
  <2> QED BY <2>2, <2>3
<1>7. CASE UNCHANGED vars
  <2>1. UNCHANGED Cell(n) /\ UNCHANGED <<srv, fromGw, hist, answered, omitted, toPage, ws, shown, swallowed>>
    BY <1>7, NoPosts DEF vars, sockets, bridge, handler, upstream, agent, page, client, view, Cell
  <2>2. Same(n)
    BY <1>1, <2>1, SameCell
  <2> QED BY <1>1, <2>1, <2>2, SameKeepsLost DEF Same, Quiet
<1> QED BY <1>3, <1>4, <1>5, <1>6, <1>7 DEF Unread

\* The page takes a piece of an answer, or the answer.
LEMMA TakenKeepsLost ==
    ASSUME LostInv, NEW n \in Conns, n = ws, Receive, UNCHANGED bridge, ~torn[n],
           IsChat(Head(toPage[n])), Head(FeedOf(n)) = Head(toPage[n]), Takes(n)
    PROVE  LostOf(n)'
<1> DEFINE s == toPage[n]
<1> PICK f : f = Head(s)
  OBVIOUS
<1>1. /\ FeedInv /\ TypeInv /\ LinkOf(n) /\ OrderOf(n) /\ LostOf(n)
      /\ UNCHANGED <<srv, pump, up, asked, fromGw, torn, hist, answered, omitted>>
      /\ s \in Seq(PageFrames) /\ s # <<>> /\ f \in PageFrames /\ FeedOf(n) \in Seq(ChatEvents)
  BY FeedTyped, NoPosts DEF LostInv, FeedInv, OrderInv, Receive, bridge, handler, upstream, agent, TypeInv,
     BridgeInv, SocketsTypeOK
<1>2. f.t \in {"delta", "final", "error"} /\ f.run \in Runs
  BY <1>1, PageFrameFields DEF IsChat
<1>3. /\ toPage'[n] = Tail(s) /\ ws' = ws
      /\ shown \union swallowed \subseteq shown' \union swallowed'
      /\ f.t = "final" => f.run \in shown' \union swallowed'
  BY <1>1, <1>2 DEF Receive, OnChatDelta, OnChatFinal, OnChatError, client, view, TypeInv, BridgeInv,
     SocketsTypeOK
<1>4. ~HasHistory(s) /\ srv[n] \notin Boot
  BY <1>1, LaterFrames DEF OrderOf
<1>5. Among(s, "history") = {} /\ Among(toPage[n], "history")' = {}
  <2> HIDE DEF s
  <2>1. Among(s, "history") = {}
    BY <1>4, AmongNone
  <2>2. Among(Tail(s), "history") \subseteq Among(s, "history")
    BY <1>1, AmongTail
  <2> QED BY <1>3, <2>1, <2>2 DEF Among
<1>6. CASE PhaseOf(n) # "open"
  BY <1>1, <1>4, <1>6, GoneKeepsLost DEF Takes
<1>7. CASE PhaseOf(n) = "open"
  <2>1. PhaseOf(n)' = "open" /\ FeedOf(n) # <<>> /\ FeedOf(n)' = Tail(FeedOf(n))
    BY <1>7 DEF Takes
  <2>2. \A r : Comes(FeedOf(n), r) => Comes(FeedOf(n)', r) \/ (f.t = "final" /\ f.run = r)
    <3> DEFINE t == FeedOf(n)
    <3>1. /\ t \in Seq(ChatEvents) /\ t # <<>> /\ Head(t) = f
      BY <1>1, <2>1
    <3> HIDE DEF t
    <3>2. \A i \in DOMAIN t : (i = 1 /\ t[i] = f) \/ (i - 1 \in DOMAIN Tail(t) /\ Tail(t)[i - 1] = t[i])
      BY <3>1
    <3>3. \A r : Comes(t, r) => Comes(Tail(t), r) \/ (f.t = "final" /\ f.run = r)
      BY <3>2 DEF Comes
    <3> QED BY <2>1, <3>3 DEF t
  <2>3. ASSUME hist[n] = "sent" PROVE Covers(n, shown \union swallowed)'
    <3>1. Covers(n, shown \union swallowed)
      BY <1>1, <1>5, <1>7, <2>3 DEF LostOf
    <3>2. \A r \in answered \ omitted[n] : r \in shown' \union swallowed' \/ Comes(FeedOf(n)', r)
      BY <1>3, <2>2, <3>1 DEF Covers
    <3> QED BY <1>1, <3>2 DEF Covers, Comes
  <2> QED BY <1>1, <1>4, <1>5, <2>1, <2>3 DEF LostOf, Boot
<1> QED BY <1>6, <1>7

\* The page takes a frame of another kind.
LEMMA OtherFramesKeepLost ==
    ASSUME LostInv, NEW n \in Conns, n = ws, Receive, UNCHANGED bridge, ~torn[n], ~Shuts,
           ~IsChat(Head(toPage[n])), Quiet(n)
    PROVE  LostOf(n)'
<1> DEFINE s == toPage[n]
<1> PICK f : f = Head(s)
  OBVIOUS
<1>1. /\ TypeInv /\ LinkOf(n) /\ LostOf(n)
      /\ UNCHANGED <<srv, pump, up, asked, fromGw, torn, hist, answered, omitted, socket, ws>>
      /\ s \in Seq(PageFrames) /\ s # <<>> /\ f \in PageFrames /\ toPage'[n] = Tail(s)
  BY NoPosts DEF LostInv, FeedInv, OrderInv, Receive, Shuts, client, bridge, handler, upstream, agent, TypeInv,
     BridgeInv, SocketsTypeOK
<1>2. \/ f.t = "history" /\ OnHistory(f.runs, f.empty)
      \/ f.t # "history" /\ UNCHANGED <<shown, swallowed>>
  BY DEF Receive, Shuts, IsChat, OnReady, OnChatError, view
<1>3. PhaseOf(n)' = PhaseOf(n)
  BY <1>1, PhaseIs DEF Over, Started, Responded
<1>4. Among(s, "history") = Among(Tail(s), "history") \union (IF f.t = "history" THEN {f} ELSE {})
  <2> HIDE DEF s
  <2> QED BY <1>1, AmongTail
<1>5. CASE f.t # "history"
  BY <1>1, <1>2, <1>3, <1>4, <1>5, SameKeepsLost
<1>6. CASE f.t = "history" /\ PhaseOf(n) # "open"
  BY <1>1, <1>3, <1>4, <1>6, GoneKeepsLost
<1>7. CASE f.t = "history" /\ PhaseOf(n) = "open"
  <2>1. srv[n] \notin Boot
    BY <1>1, <1>4, <1>7 DEF LostOf
  <2>2. FeedOf(n)' = FeedOf(n)
    BY <1>3, <1>7 DEF Quiet, Same, Subscribes, Stops, Drops
  <2>3. \A S, T : S \subseteq T /\ Covers(n, S) => Covers(n, T)'
    BY <1>1, <2>2 DEF Covers, Comes
  <2>4. Among(toPage[n], "history")' = Among(Tail(s), "history")
    BY <1>1 DEF Among
  <2>5. ASSUME hist[n] = "sent"
        PROVE  /\ \A h \in Among(Tail(s), "history") : ~h.empty /\ Covers(n, h.runs)'
               /\ Covers(n, shown \union swallowed)'
    <3>1. \A h \in Among(s, "history") : ~h.empty /\ Covers(n, h.runs)
      BY <1>1, <1>7, <2>5 DEF LostOf
    <3>2. \A h \in Among(Tail(s), "history") : ~h.empty /\ Covers(n, h.runs)'
      BY <1>4, <2>3, <3>1
    <3>3. ~f.empty /\ Covers(n, f.runs)
      BY <1>4, <1>7, <3>1
    <3>4. shown' = f.runs
      BY <1>2, <1>7, <3>3 DEF OnHistory
    <3>5. PICK T : T = (shown \union swallowed)'
      OBVIOUS
    <3>6. Covers(n, T)'
      BY <2>3, <3>3, <3>4, <3>5
    <3> QED BY <3>2, <3>5, <3>6 DEF Covers
  <2> QED BY <1>1, <2>1, <2>4, <2>5 DEF LostOf, Boot
<1> QED BY <1>5, <1>6, <1>7

LEMMA ReceiveKeepsLost ==
    ASSUME LostInv, Receive, UNCHANGED bridge, NEW n \in Conns
    PROVE  LostOf(n)'
<1>1. /\ FeedInv /\ TypeInv /\ LinkOf(n) /\ LostOf(n) /\ ws \in Conns /\ ws' = ws
      /\ UNCHANGED <<srv, pump, up, asked, fromGw, torn, hist, answered, omitted>>
  BY NoPosts DEF LostInv, FeedInv, OrderInv, Receive, Closed, StartsClosing, page, client, bridge, handler, upstream, agent,
     TypeInv, PageTypeOK, PageTypes
<1>2. PICK w \in Conns : w = ws
  BY <1>1
<1>3. CASE Shuts
  BY <1>2, <1>3, ShutKeepsLost
<1>4. CASE n # w /\ ~Shuts
  <2>1. Same(n)
    BY <1>1, <1>2, <1>4, ReceiveIsQuiet
  <2>2. toPage'[n] = toPage[n]
    BY <1>1, <1>2, <1>4 DEF Receive, Shuts, TypeInv, BridgeInv, SocketsTypeOK
  <2> QED BY <1>1, <1>2, <1>4, <2>1, <2>2, SameKeepsLost DEF Same, Quiet
<1>5. CASE n = w /\ torn[n] /\ ~Shuts
  <2>1. up[n] # "none"
    BY <1>1, <1>5 DEF LinkOf
  <2>2. PhaseOf(n)' # "open"
    BY <1>1, <1>5, <2>1, PhaseIs DEF Over
  <2>3. Among(toPage'[n], "history") \subseteq Among(toPage[n], "history")
    <3>1. PICK s : s = toPage[n]
      OBVIOUS
    <3>2. s \in Seq(PageFrames) /\ s # <<>> /\ toPage'[n] = Tail(s)
      BY <1>1, <1>2, <1>5, <3>1 DEF Receive, Shuts, TypeInv, BridgeInv, SocketsTypeOK
    <3>3. Among(Tail(s), "history") \subseteq Among(s, "history")
      BY <3>2, AmongTail
    <3> QED BY <3>1, <3>2, <3>3
  <2> QED BY <1>1, <2>2, <2>3, GoneKeepsLost
<1>6. CASE n = w /\ ~torn[n] /\ ~Shuts
  <2>1. \/ Quiet(n) /\ ~IsChat(Head(toPage[n]))
        \/ IsChat(Head(toPage[n])) /\ Head(FeedOf(n)) = Head(toPage[n]) /\ Takes(n)
    BY <1>1, <1>2, <1>6, ReceiveIsQuiet
  <2> QED BY <1>2, <1>6, <2>1, TakenKeepsLost, OtherFramesKeepLost
<1> QED BY <1>3, <1>4, <1>5, <1>6

LEMMA LostInvKept == LostInv /\ [Next]_vars => LostInv'
<1> SUFFICES ASSUME LostInv, [Next]_vars PROVE LostInv'
  OBVIOUS
<1>1. FeedInv'
  BY FeedInvKept DEF LostInv
<1>2. ASSUME NEW n \in Conns PROVE LostOf(n)'
  BY UnreadOrReceived, UnreadKeepsLost, ReceiveKeepsLost
<1> QED BY <1>1, <1>2 DEF LostInv

LEMMA LostInvInit == Init => LostInv
<1> SUFFICES ASSUME Init PROVE LostInv
  OBVIOUS
<1>1. FeedInv
  BY FeedInvInit
<1>2. ASSUME NEW n \in Conns PROVE LostOf(n)
  <2>1. /\ up[n] = "none" /\ pump[n] = "off" /\ srv[n] = "none" /\ hist[n] = "due"
        /\ toPage[n] = <<>>
    BY DEF Init, BridgeInit, SocketsInit
  <2>2. PhaseOf(n) # "open"
    BY <2>1, PhaseIs DEF Started, Responded
  <2> QED BY <2>1, <2>2, AmongNone DEF LostOf
<1> QED BY <1>1, <1>2 DEF LostInv

\* StartPump and OnHistory (bridge.go, main.ts): after the transcript of a socket,
\* every answer is on the page, was swallowed, or is still to come, but for those that
\* were not among the last HistoryLimit messages when the gateway answered, or whose text
\* requestHistory leaves out.
THEOREM AnswersAreNotLost == Spec => []NothingLost
<1>1. ASSUME LostInv PROVE NothingLost
  <2> SUFFICES ASSUME socket[ws] = "open", up[ws] = "open", hist[ws] = "sent", ~torn[ws],
                      NEW r \in answered \ omitted[ws], r \notin shown \union swallowed
               PROVE  \/ \E i \in DOMAIN toPage[ws] :
                            LET f == toPage[ws][i] IN
                            (f.t = "final" /\ f.run = r) \/ (f.t = "history" /\ r \in f.runs)
                      \/ \E i \in DOMAIN fromGw[ws] :
                            LET f == fromGw[ws][i] IN
                            (f.t = "final" /\ f.run = r) \/ (f.t = "history" /\ r \in f.runs)
    BY DEF NothingLost, OnItsWay
  <2>1. PICK w \in Conns : w = ws /\ TypeInv /\ LinkOf(w) /\ LostOf(w)
    BY <1>1 DEF LostInv, FeedInv, OrderInv, TypeInv, PageTypeOK, PageTypes
  <2>2. pump[w] = "on"
    <3>1. srv[w] \in {"select", "read", "ask"}
      BY <2>1, CellTyped DEF LostOf, Boot, LinkOf, CellTypes
    <3> QED BY <2>1, <3>1, CellTyped DEF LinkOf, CellTypes
  <2>3. PhaseOf(w) = "open"
    BY <2>1, <2>2, PhaseIs DEF Over, Started
  <2>4. CASE Comes(FeedOf(w), r)
    <3>1. PICK k \in DOMAIN FeedOf(w) : FeedOf(w)[k].t = "final" /\ FeedOf(w)[k].run = r
      BY <2>4 DEF Comes
    <3>2. \/ \E i \in DOMAIN toPage[w] : toPage[w][i] = FeedOf(w)[k]
          \/ \E i \in DOMAIN fromGw[w] : fromGw[w][i] = FeedOf(w)[k]
      BY <2>1, FeedIsOnItsWay
    <3> QED BY <2>1, <3>1, <3>2
  <2>5. CASE Among(toPage[w], "history") = {}
    BY <2>1, <2>3, <2>4, <2>5 DEF LostOf, Covers
  <2>6. CASE \E f \in Among(toPage[w], "history") : r \in f.runs
    BY <2>1, <2>6 DEF Among
  <2> QED BY <2>1, <2>3, <2>4, <2>5, <2>6 DEF LostOf, Covers
<1> QED BY <1>1, LostInvInit, LostInvKept, PTL DEF Spec
=============================================================================
