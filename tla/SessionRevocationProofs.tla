---------------------- MODULE SessionRevocationProofs ----------------------
(* Theorems of SessionRevocation, for every number of replicas, requests,    *)
(* jtis and attempts, for every set of exp claims and for every cap, clock    *)
(* bound and key bound.                                                       *)
EXTENDS SessionRevocation, FiniteSetTheorems, TLAPS

-----------------------------------------------------------------------------
(* The inductive invariant *)

\* A request whose read is still fresh holds the list that is in the Secret.
SnapshotCurrent == \A h \in Handlers : pc[h] = "put" /\ fresh[h] => snap[h] = revoked

\* A request being served names some jti, and that of a session only once issued.
RequestKnown ==
    \A h \in Handlers :
        pc[h] # "idle" => tok[h] \in Tokens /\ (tok[h] \in Sessions => Issued(tok[h]))

\* Only issued sessions are acknowledged.
AckIssued == \A t \in Sessions : acked[t] > 0 => Issued(t)

\* No session carries a signing key from the future.
KeysPast == \A t \in Sessions : key[t] <= jwtKey

\* The session could pass Authenticate, and is acknowledged as revoked.
Demanded(t) == secretUp /\ key[t] = jwtKey /\ acked[t] > clock

\* Without an overwrite by an earlier exp and without the cap, an acknowledged
\* revocation is in the list.
KeptUnlessCut ==
    \A t \in Sessions \ (shortened \union displaced) : Demanded(t) => revoked[t] >= acked[t]

IInv ==
    /\ TypeOK
    /\ ListBounded
    /\ SnapshotCurrent
    /\ RequestKnown
    /\ AckIssued
    /\ KeysPast
    /\ RevokedRemembered
    /\ KeptUnlessCut

-----------------------------------------------------------------------------
(* What the edit of a revocation does to the list *)

\* exp claims are times.
LEMMA ExpsAreTimes == \A e \in Exps \union {0} : e \in Nat
<1>1. \A c \in 0 .. MaxTime : c + TTL \in Nat
  BY BoundAssumption
<1>2. \A e \in OtherExps : e \in Nat
  BY BoundAssumption
<1> QED BY <1>1, <1>2 DEF Exps

\* Jtis are few: a set of them has a cardinality, and a subset no larger one.
LEMMA ListedFinite ==
    ASSUME NEW A \in SUBSET Tokens
    PROVE  /\ IsFiniteSet(A)
           /\ Cardinality(A) \in Nat
           /\ \A B \in SUBSET A : Cardinality(B) <= Cardinality(A)
BY TokensAssumption, FS_Subset, FS_CardinalityType

\* Pruning keeps exactly the entries that last beyond now.
LEMMA PruneKeeps ==
    ASSUME NEW L \in List, NEW now \in Nat
    PROVE  /\ Pruned(L, now) \in List
           /\ \A t \in Tokens : Pruned(L, now)[t] = IF L[t] > now THEN L[t] ELSE 0
           /\ Listed(Pruned(L, now)) \subseteq Listed(L)
BY ExpsAreTimes DEF Pruned, List, Listed

\* The cap keeps everything, or exactly MaxEntries entries of which none ends
\* before an entry it drops.
LEMMA CappedKeeps ==
    ASSUME NEW L \in List, NEW K \in Capped(L)
    PROVE  /\ K \in List
           /\ \A t \in Listed(K) : t \in Listed(L) /\ K[t] = L[t]
           /\ Cardinality(Listed(K)) <= MaxEntries
           /\ \/ K = L
              \/ /\ Cardinality(Listed(K)) = MaxEntries
                 /\ \A kept \in Listed(K), dropped \in Listed(L) \ Listed(K) :
                        L[dropped] <= L[kept]
<1>1. CASE Cardinality(Listed(L)) <= MaxEntries
  BY <1>1 DEF Capped
<1>2. CASE ~(Cardinality(Listed(L)) <= MaxEntries)
  <2>1. PICK S \in NewestByExp(L) : K = Only(L, S)
    BY <1>2 DEF Capped
  <2>2. S \subseteq Listed(L) /\ Listed(L) \subseteq Tokens
    BY <2>1 DEF NewestByExp, Listed
  <2>3. K \in List /\ Listed(K) = S
    BY <2>1, <2>2 DEF Only, List, Listed
  <2>4. \A t \in S : K[t] = L[t]
    BY <2>1, <2>2 DEF Only
  <2> QED BY <2>1, <2>2, <2>3, <2>4, BoundAssumption DEF NewestByExp
<1> QED BY <1>1, <1>2

\* The edit before the cap: what is unexpired stays, and the jti gets its exp.
EditOf(L, t, e, now) == [Pruned(L, now) EXCEPT ![t] = e]

LEMMA EditShape ==
    ASSUME NEW L \in List, NEW t \in Tokens, NEW e \in Exps \union {0}, NEW now \in Nat, e > now
    PROVE  /\ EditOf(L, t, e, now) \in List
           /\ EditOf(L, t, e, now)[t] = e
           /\ \A u \in Tokens \ {t} :
                  EditOf(L, t, e, now)[u] = IF L[u] > now THEN L[u] ELSE 0
           /\ Listed(EditOf(L, t, e, now)) = Listed(Pruned(L, now)) \union {t}
<1>1. Pruned(L, now) \in [Tokens -> Exps \union {0}]
  BY PruneKeeps DEF List
<1>2. e \in Nat /\ e > 0
  BY ExpsAreTimes
<1> QED BY <1>1, <1>2, PruneKeeps DEF EditOf, List, Listed

\* What an edit of a bounded list leaves: the edit, up to the cap.
LEMMA EditedKeeps ==
    ASSUME NEW L \in List, Cardinality(Listed(L)) <= MaxEntries,
           NEW t \in Tokens, NEW e \in Exps \union {0}, NEW now \in Nat, e > now,
           NEW K \in Edited(L, t, e, now)
    PROVE  /\ K \in List
           /\ \A u \in Listed(K) : u \in Listed(EditOf(L, t, e, now)) /\ K[u] = EditOf(L, t, e, now)[u]
           /\ Cardinality(Listed(K)) <= MaxEntries
           /\ \/ K = EditOf(L, t, e, now)
              \/ /\ Cardinality(Listed(K)) = MaxEntries
                 /\ \A kept \in Listed(K), dropped \in Listed(EditOf(L, t, e, now)) \ Listed(K) :
                        EditOf(L, t, e, now)[dropped] <= EditOf(L, t, e, now)[kept]
<1> DEFINE edit == EditOf(L, t, e, now)
<1>0. e \in Nat /\ ~(e <= now)
  BY ExpsAreTimes
<1>1. /\ edit \in List
      /\ Listed(edit) = Listed(Pruned(L, now)) \union {t}
  BY EditShape
<1>2. K \in IF L[t] > now THEN {edit} ELSE Capped(edit)
  BY <1>0 DEF Edited, EditOf
<1> HIDE DEF edit
<1>3. CASE L[t] > now
  <2>1. t \in Listed(L)
    BY <1>3, ExpsAreTimes DEF Listed, List
  <2>2. Listed(edit) \in SUBSET Listed(L) /\ Listed(L) \in SUBSET Tokens
    BY <1>1, <2>1, PruneKeeps DEF Listed
  <2>3. Cardinality(Listed(edit)) <= MaxEntries
    BY <2>2, ListedFinite, BoundAssumption
  <2> QED BY <1>1, <1>2, <1>3, <2>3 DEF edit
<1>4. CASE ~(L[t] > now)
  BY <1>1, <1>2, <1>4, CappedKeeps DEF edit
<1> QED BY <1>3, <1>4

-----------------------------------------------------------------------------
(* The invariant is inductive *)

LEMMA InitEstablishes == Init => IInv
<1> SUFFICES ASSUME Init PROVE IInv
  OBVIOUS
<1>1. TypeOK
  BY BoundAssumption DEF Init, TypeOK, List, NoEntries
<1>2. Listed(revoked) = {}
  BY DEF Init, Listed, NoEntries
<1>3. ListBounded
  BY <1>2, FS_EmptySet, BoundAssumption DEF ListBounded
<1>4. \A t \in Sessions : ~(acked[t] > clock) /\ ~(acked[t] > 0)
  BY DEF Init
<1>5. RevokedRemembered /\ KeptUnlessCut /\ AckIssued
  BY <1>4 DEF RevokedRemembered, KeptUnlessCut, Demanded, AckIssued
<1> QED
  BY <1>1, <1>3, <1>5 DEF Init, IInv, SnapshotCurrent, RequestKnown, KeysPast

\* A step that leaves the Secret, the sessions and the history alone and does not
\* turn the clock back cannot forget a revocation.
LEMMA RememberedFrame ==
    ASSUME TypeOK, TypeOK', ListBounded, AckIssued, KeysPast, RevokedRemembered, KeptUnlessCut,
           UNCHANGED <<exp, key, secretVars, ackVars>>, clock' >= clock
    PROVE  ListBounded' /\ AckIssued' /\ KeysPast' /\ RevokedRemembered' /\ KeptUnlessCut'
<1>1. \A t \in Sessions : acked[t] > clock' => acked[t] > clock
  BY ExpsAreTimes DEF TypeOK
<1> QED
  BY <1>1 DEF secretVars, ackVars, ListBounded, AckIssued, Issued, KeysPast, RevokedRemembered,
     KeptUnlessCut, Demanded, Outlived

\* An acknowledgement raises the promise for its own session only.
LEMMA AckStep ==
    ASSUME TypeOK, NEW h \in Handlers, tok[h] \in Tokens, acked' \in {acked, Acknowledged(h)}
    PROVE  /\ acked' \in [Sessions -> Exps \union {0}]
           /\ \A t \in Sessions :
                  \/ acked'[t] = acked[t]
                  \/ t = tok[h] /\ acked'[t] = till[h] /\ till[h] > acked[t]
BY DEF TypeOK, Acknowledged

\* Put, the only step that edits the list.
LEMMA PutPreserves ==
    ASSUME IInv, NEW h \in Handlers, Put(h)
    PROVE  IInv'
<1> DEFINE t == tok[h]
           e == till[h]
<1> USE DEF IInv
<1>1. /\ t \in Tokens /\ (t \in Sessions => Issued(t))
      /\ snap[h] = revoked
      /\ e \in Exps \union {0} /\ e \in Nat
      /\ revoked \in List
  BY ExpsAreTimes DEF Put, RequestKnown, SnapshotCurrent, TypeOK
<1>2. PICK now \in readAt[h] .. clock :
        /\ revoked' \in Edited(revoked, t, e, now)
        /\ shortened' = IF Shortens(h, now) THEN shortened \union {t} ELSE shortened
        /\ displaced' = displaced \union Displaces(h, now)
  BY <1>1 DEF Put
<1>3. now \in Nat /\ now <= clock /\ clock \in Nat
  BY <1>2 DEF TypeOK
<1>4. /\ acked' \in [Sessions -> Exps \union {0}]
      /\ \A s \in Sessions :
            \/ acked'[s] = acked[s]
            \/ s = t /\ acked'[s] = e /\ e > acked[s]
  <2>1. acked' \in {acked, Acknowledged(h)}
    BY DEF Put
  <2> QED BY <1>1, <2>1, AckStep
<1>5. /\ exp' = exp /\ key' = key /\ clock' = clock /\ secretUp /\ secretUp' = secretUp
      /\ jwtKey' = jwtKey
  BY DEF Put
<1>n. \A s \in Sessions : acked[s] \in Nat /\ acked'[s] \in Nat /\ s \in Tokens
  BY <1>4, ExpsAreTimes, TokensAssumption DEF TypeOK
<1>r. \A s \in Tokens : revoked[s] \in Nat
  BY <1>1, ExpsAreTimes DEF List
<1>s. /\ Shortens(h, now) <=> now < e /\ e < revoked[t]
      /\ \A s \in Sessions :
            s \in Displaces(h, now) <=>
                now < e /\ (s = t \/ revoked[s] > now) /\ revoked'[s] = 0
  BY <1>1 DEF Shortens, Displaces
<1>6. /\ revoked' \in List
      /\ ListBounded'
      /\ RevokedRemembered'
      /\ KeptUnlessCut'
  <2>1. CASE e <= now
    <3>1. revoked' = revoked
      BY <1>2, <2>1 DEF Edited
    <3>2. shortened' = shortened /\ displaced' = displaced
      BY <1>1, <1>2, <1>3, <1>s, <2>1 DEF Displaces
    <3>3. \A s \in Sessions : acked'[s] > clock => acked'[s] = acked[s]
      BY <1>1, <1>3, <1>4, <1>n, <2>1
    <3> QED
      BY <1>1, <1>5, <1>n, <3>1, <3>2, <3>3 DEF ListBounded, RevokedRemembered, KeptUnlessCut,
         Demanded, Outlived
  <2>2. CASE ~(e <= now)
    <3> DEFINE edit == EditOf(revoked, t, e, now)
    <3>0. e > now
      BY <1>1, <1>3, <2>2
    <3>1. /\ edit \in List
          /\ edit[t] = e
          /\ \A u \in Tokens \ {t} : edit[u] = IF revoked[u] > now THEN revoked[u] ELSE 0
      BY <1>1, <1>3, <3>0, EditShape
    <3>2. /\ revoked' \in List
          /\ \A u \in Listed(revoked') : u \in Listed(edit) /\ revoked'[u] = edit[u]
          /\ Cardinality(Listed(revoked')) <= MaxEntries
          /\ \/ revoked' = edit
             \/ /\ Cardinality(Listed(revoked')) = MaxEntries
                /\ \A kept \in Listed(revoked'), dropped \in Listed(edit) \ Listed(revoked') :
                       edit[dropped] <= edit[kept]
      <4>1. Cardinality(Listed(revoked)) <= MaxEntries
        BY DEF ListBounded
      <4> HIDE DEF t, e
      <4> QED BY <1>1, <1>2, <1>3, <3>0, <4>1, EditedKeeps
    <3> HIDE DEF edit
    <3>3. \A u \in Tokens : edit[u] \in Nat /\ revoked'[u] \in Nat
      BY <3>1, <3>2, ExpsAreTimes DEF List
    <3>4. ASSUME NEW s \in Sessions, edit[s] >= acked'[s], acked'[s] > clock
          PROVE  /\ revoked'[s] >= acked'[s] \/ Outlived(s)'
                 /\ revoked'[s] = 0 \/ revoked'[s] >= acked'[s]
      <4>1. s \in Listed(edit)
        BY <1>3, <1>n, <3>3, <3>4 DEF Listed
      <4>2. CASE s \in Listed(revoked')
        BY <4>2, <3>2, <3>4
      <4>3. CASE s \notin Listed(revoked')
        <5>1. revoked' # edit /\ revoked'[s] = 0
          BY <4>1, <4>3, <3>3, <1>n DEF Listed
        <5>2. /\ Cardinality(Listed(revoked')) = MaxEntries
              /\ \A u \in Listed(revoked') : edit[s] <= edit[u]
          BY <3>2, <4>1, <4>3, <5>1
        <5>3. \A u \in Listed(revoked') : revoked'[u] >= acked'[s]
          <6> SUFFICES ASSUME NEW u \in Listed(revoked') PROVE revoked'[u] >= acked'[s]
            OBVIOUS
          <6>1. u \in Tokens /\ revoked'[u] = edit[u] /\ edit[s] <= edit[u]
            BY <3>2, <5>2 DEF Listed
          <6> QED BY <6>1, <3>3, <3>4, <1>n
        <5> QED BY <5>1, <5>2, <5>3 DEF Outlived
      <4> QED BY <4>2, <4>3
    <3>5. ASSUME NEW s \in Sessions, ~Shortens(h, now), acked'[s] > clock,
                 acked'[s] # acked[s] \/ revoked[s] >= acked[s]
          PROVE  edit[s] >= acked'[s]
      <4>1. CASE s # t
        <5>1. acked'[s] = acked[s] /\ revoked[s] >= acked[s]
          BY <1>4, <3>5, <4>1
        <5>2. edit[s] = revoked[s]
          BY <1>3, <1>n, <1>r, <3>1, <3>5, <4>1, <5>1
        <5> QED BY <5>1, <5>2
      <4>2. CASE s = t
        <5>1. edit[s] = e
          BY <3>1, <4>2
        <5>2. CASE acked'[s] # acked[s]
          BY <1>1, <1>4, <5>1, <5>2
        <5>3. CASE acked'[s] = acked[s]
          <6>1. e >= revoked[s]
            BY <1>1, <1>r, <1>s, <3>0, <3>5, <4>2
          <6> QED BY <1>1, <1>n, <1>r, <3>5, <5>1, <5>3, <6>1
        <5> QED BY <5>2, <5>3
      <4> QED BY <4>1, <4>2
    <3>6. KeptUnlessCut'
      <4> SUFFICES ASSUME NEW s \in Sessions, s \notin shortened', s \notin displaced',
                          key[s] = jwtKey, acked'[s] > clock
                   PROVE  revoked'[s] >= acked'[s]
        BY <1>5 DEF KeptUnlessCut, Demanded
      <4>1. s \notin shortened /\ s \notin displaced /\ s \notin Displaces(h, now)
        BY <1>2
      <4>2. acked'[s] # acked[s] \/ revoked[s] >= acked[s]
        BY <1>5, <4>1 DEF KeptUnlessCut, Demanded
      <4>3. edit[s] >= acked'[s]
        <5>1. CASE ~Shortens(h, now)
          BY <3>5, <4>2, <5>1
        <5>2. CASE Shortens(h, now)
          <6>1. s # t
            BY <1>2, <5>2
          <6>2. acked'[s] = acked[s] /\ revoked[s] >= acked[s]
            BY <1>4, <4>2, <6>1
          <6>3. edit[s] = revoked[s]
            BY <1>3, <1>n, <1>r, <3>1, <6>1, <6>2
          <6> QED BY <6>2, <6>3
        <5> QED BY <5>1, <5>2
      <4>4. revoked'[s] # 0
        <5>1. s = t \/ revoked[s] > now
          BY <1>3, <1>n, <1>r, <3>1, <4>3
        <5> QED BY <1>s, <3>0, <4>1, <5>1
      <4> QED BY <3>4, <4>3, <4>4
    <3>7. RevokedRemembered'
      <4> SUFFICES ASSUME shortened' = {}, NEW s \in Sessions, key[s] = jwtKey, acked'[s] > clock
                   PROVE  revoked'[s] >= acked'[s] \/ Outlived(s)'
        BY <1>5 DEF RevokedRemembered
      <4>1. shortened = {} /\ ~Shortens(h, now)
        BY <1>2
      <4>2. CASE acked'[s] # acked[s] \/ revoked[s] >= acked[s]
        BY <3>4, <3>5, <4>1, <4>2
      <4>3. CASE acked'[s] = acked[s] /\ ~(revoked[s] >= acked[s])
        <5>1. /\ Cardinality(Listed(revoked)) = MaxEntries
              /\ \A u \in Listed(revoked) : revoked[u] >= acked[s]
          BY <1>5, <4>1, <4>3 DEF RevokedRemembered, Outlived
        <5>2. \A u \in Listed(revoked) : u \in Listed(edit) /\ edit[u] >= acked[s]
          <6> SUFFICES ASSUME NEW u \in Listed(revoked) PROVE u \in Listed(edit) /\ edit[u] >= acked[s]
            OBVIOUS
          <6>1. u \in Tokens /\ revoked[u] >= acked[s] /\ acked[s] > clock
            BY <4>3, <5>1 DEF Listed
          <6>2. edit[u] >= revoked[u]
            <7>1. CASE u = t
              BY <1>1, <1>r, <1>s, <3>0, <3>1, <4>1, <7>1
            <7>2. CASE u # t
              BY <1>3, <1>n, <1>r, <3>1, <6>1, <7>2
            <7> QED BY <7>1, <7>2
          <6> QED BY <1>3, <1>n, <1>r, <3>3, <6>1, <6>2 DEF Listed
        <5>3. /\ IsFiniteSet(Listed(revoked)) /\ IsFiniteSet(Listed(revoked'))
              /\ Listed(edit) \subseteq Listed(revoked) \union {t}
          <6>1. Listed(revoked) \in SUBSET Tokens /\ Listed(revoked') \in SUBSET Tokens
            BY DEF Listed
          <6>2. \A u \in Tokens \ {t} : edit[u] > 0 => revoked[u] > 0
            BY <1>3, <1>r, <3>1
          <6> QED BY <6>1, <6>2, ListedFinite DEF Listed
        <5>4. CASE revoked' = edit
          <6>1. Listed(revoked) \subseteq Listed(revoked')
            BY <5>2, <5>4
          <6>2. Listed(revoked') = Listed(revoked)
            <7> SUFFICES ASSUME t \notin Listed(revoked), t \in Listed(revoked') PROVE FALSE
              BY <5>3, <5>4, <6>1
            <7>1. Listed(revoked') = Listed(revoked) \union {t}
              BY <5>3, <5>4, <6>1
            <7>2. Cardinality(Listed(revoked')) = MaxEntries + 1
              BY <5>1, <5>3, <7>1, FS_AddElement
            <7> QED BY <3>2, <7>2, BoundAssumption
          <6> QED BY <4>3, <5>1, <5>2, <5>4, <6>2 DEF Outlived
        <5>5. CASE /\ Cardinality(Listed(revoked')) = MaxEntries
                   /\ \A kept \in Listed(revoked'), dropped \in Listed(edit) \ Listed(revoked') :
                          edit[dropped] <= edit[kept]
          <6> SUFFICES ASSUME NEW u \in Listed(revoked') PROVE edit[u] >= acked[s]
            BY <3>2, <4>3, <5>5 DEF Outlived
          <6>1. u \in Listed(edit) /\ u \in Tokens
            BY <3>2 DEF Listed
          <6>2. CASE u \in Listed(revoked)
            BY <5>2, <6>2
          <6>3. CASE u \notin Listed(revoked)
            <7>1. \E d \in Listed(revoked) : d \notin Listed(revoked')
              <8> SUFFICES ASSUME Listed(revoked) \subseteq Listed(revoked') PROVE FALSE
                OBVIOUS
              <8>1. Listed(revoked') = Listed(revoked) \union {u}
                BY <3>2, <5>3, <6>1, <6>3
              <8>2. Cardinality(Listed(revoked')) = MaxEntries + 1
                BY <5>1, <5>3, <6>3, <8>1, FS_AddElement
              <8> QED BY <3>2, <8>2, BoundAssumption
            <7>2. PICK d \in Listed(revoked) : d \notin Listed(revoked')
              BY <7>1
            <7>3. edit[d] <= edit[u] /\ edit[d] >= acked[s] /\ d \in Tokens
              BY <5>2, <5>5, <7>2 DEF Listed
            <7> QED BY <1>n, <3>3, <6>1, <7>3
          <6> QED BY <6>2, <6>3
        <5> QED BY <3>2, <5>4, <5>5
      <4> QED BY <4>2, <4>3
    <3> QED BY <3>2, <3>6, <3>7 DEF ListBounded
  <2> QED BY <2>1, <2>2
<1>7. TypeOK'
  <2>1. shortened' \in SUBSET Tokens /\ displaced' \in SUBSET Sessions
    BY <1>1, <1>2 DEF Displaces, TypeOK
  <2>2. /\ pc' \in [Handlers -> {"idle", "waiting", "get", "put"}]
        /\ attempt' \in [Handlers -> 1 .. MaxAttempts]
    BY BoundAssumption DEF Put, Return, TypeOK
  <2>3. /\ tok' \in [Handlers -> Tokens \union {NoToken}]
        /\ till' \in [Handlers -> Exps \union {0}]
        /\ readAt' \in [Handlers -> Nat]
        /\ snap' \in [Handlers -> List]
        /\ fresh' \in [Handlers -> BOOLEAN]
    BY DEF Put, Return, Written, TypeOK, List, NoEntries
  <2> QED BY <1>4, <1>6, <2>1, <2>2, <2>3 DEF Put, TypeOK, checkVars
<1>8. SnapshotCurrent' /\ KeysPast'
  BY <1>5 DEF Put, Return, Written, SnapshotCurrent, KeysPast
<1>9. RequestKnown'
  <2>1. \A g \in Handlers : pc'[g] # "idle" => g # h /\ pc[g] # "idle" /\ tok'[g] = tok[g]
    BY DEF Put, Return, TypeOK
  <2> QED BY <1>5, <2>1 DEF RequestKnown, Issued
<1>10. AckIssued'
  BY <1>1, <1>4, <1>5 DEF AckIssued, Issued
<1> QED BY <1>6, <1>7, <1>8, <1>9, <1>10

LEMMA NextPreserves == IInv /\ [Next]_vars => IInv'
<1> SUFFICES ASSUME IInv, [Next]_vars PROVE IInv'
  OBVIOUS
<1> USE DEF IInv
<1>1. ASSUME NEW t \in Sessions, Login(t) PROVE IInv'
  <2>1. exp[t] = 0 /\ acked[t] = 0
    BY <1>1, ExpsAreTimes DEF Login, Issued, AckIssued, TypeOK
  <2>2. TypeOK'
    <3>1. clock + TTL \in Exps
      BY DEF Exps, TypeOK
    <3>2. exp' \in [Sessions -> Exps \union {0}] /\ key' \in [Sessions -> Nat]
      BY <1>1, <3>1 DEF Login, TypeOK
    <3> QED BY <1>1, <3>2 DEF Login, TypeOK, secretVars, logoutVars, ackVars, checkVars
  <2>3. ListBounded' /\ SnapshotCurrent'
    BY <1>1 DEF Login, ListBounded, SnapshotCurrent, secretVars, logoutVars
  <2>4. \A s \in Sessions : s # t => exp'[s] = exp[s] /\ key'[s] = key[s]
    BY <1>1 DEF Login, TypeOK
  <2>5. exp'[t] > 0
    BY <1>1, BoundAssumption DEF Login, TypeOK
  <2>6. RequestKnown' /\ AckIssued'
    BY <1>1, <2>4, <2>5 DEF Login, RequestKnown, AckIssued, Issued, logoutVars, ackVars
  <2>7. KeysPast'
    BY <1>1, <2>4 DEF Login, KeysPast, secretVars, TypeOK
  <2>8. ~(acked[t] > clock)
    BY <2>1 DEF TypeOK
  <2>9. RevokedRemembered' /\ KeptUnlessCut'
    BY <1>1, <2>4, <2>8 DEF Login, RevokedRemembered, KeptUnlessCut, Demanded, Outlived,
       secretVars, ackVars
  <2> QED BY <2>2, <2>3, <2>6, <2>7, <2>9
<1>2. CASE Tick
  <2>1. TypeOK'
    BY <1>2, BoundAssumption DEF Tick, TypeOK, secretVars, logoutVars, ackVars, checkVars
  <2>2. SnapshotCurrent' /\ RequestKnown'
    BY <1>2 DEF Tick, SnapshotCurrent, RequestKnown, Issued, secretVars, logoutVars
  <2>3. clock' >= clock /\ UNCHANGED <<exp, key, secretVars, ackVars>>
    BY <1>2 DEF Tick, TypeOK
  <2> QED BY <2>1, <2>2, <2>3, RememberedFrame
<1>3. CASE SecretDeleted
  <2>1. TypeOK'
    BY <1>3 DEF SecretDeleted, Written, TypeOK, List, NoEntries, ackVars, checkVars
  <2>2. Listed(revoked') = {}
    BY <1>3 DEF SecretDeleted, Listed, NoEntries
  <2>3. ListBounded'
    BY <2>2, FS_EmptySet, BoundAssumption DEF ListBounded
  <2> QED
    BY <1>3, <2>1, <2>3 DEF SecretDeleted, Written, SnapshotCurrent, RequestKnown, AckIssued,
       Issued, KeysPast, RevokedRemembered, KeptUnlessCut, Demanded, ackVars
<1>4. CASE SecretRecreated
  <2>1. TypeOK'
    BY <1>4 DEF SecretRecreated, TypeOK, logoutVars, ackVars, checkVars
  <2>2. \A t \in Sessions : key'[t] < jwtKey' /\ key'[t] # jwtKey'
    BY <1>4 DEF SecretRecreated, KeysPast, TypeOK
  <2>3. KeysPast' /\ RevokedRemembered' /\ KeptUnlessCut'
    BY <2>1, <2>2 DEF KeysPast, RevokedRemembered, KeptUnlessCut, Demanded, TypeOK
  <2> QED
    BY <1>4, <2>1, <2>3 DEF SecretRecreated, ListBounded, SnapshotCurrent, RequestKnown,
       AckIssued, Issued, logoutVars, ackVars
<1>5. CASE KeyPatched
  <2>1. TypeOK'
    BY <1>5 DEF KeyPatched, Written, TypeOK, ackVars, checkVars
  <2>2. \A t \in Sessions : key'[t] < jwtKey' /\ key'[t] # jwtKey'
    BY <1>5 DEF KeyPatched, KeysPast, TypeOK
  <2>3. KeysPast' /\ RevokedRemembered' /\ KeptUnlessCut'
    BY <2>1, <2>2 DEF KeysPast, RevokedRemembered, KeptUnlessCut, Demanded, TypeOK
  <2> QED
    BY <1>5, <2>1, <2>3 DEF KeyPatched, Written, ListBounded, SnapshotCurrent, RequestKnown,
       AckIssued, Issued, ackVars
<1>6. ASSUME NEW h \in Handlers, NEW t \in Tokens, NEW e \in Exps, LogoutStart(h, t, e) PROVE IInv'
  <2>1. TypeOK'
    BY <1>6 DEF LogoutStart, TypeOK, secretVars, ackVars, checkVars
  <2>2. SnapshotCurrent' /\ RequestKnown'
    BY <1>6 DEF LogoutStart, SnapshotCurrent, RequestKnown, Issued, secretVars, TypeOK
  <2>3. clock' >= clock /\ UNCHANGED <<exp, key, secretVars, ackVars>>
    BY <1>6 DEF LogoutStart, TypeOK
  <2> QED BY <2>1, <2>2, <2>3, RememberedFrame
<1>7. ASSUME NEW h \in Handlers, Lock(h) \/ Get(h) PROVE IInv'
  <2>1. TypeOK'
    <3>1. CASE Lock(h)
      BY <3>1 DEF Lock, TypeOK, secretVars, ackVars, checkVars
    <3>2. CASE Get(h)
      BY <3>2 DEF Get, TypeOK, secretVars, ackVars, checkVars
    <3> QED BY <1>7, <3>1, <3>2
  <2>2. SnapshotCurrent' /\ RequestKnown'
    BY <1>7 DEF Lock, Get, SnapshotCurrent, RequestKnown, Issued, secretVars, TypeOK
  <2>3. clock' >= clock /\ UNCHANGED <<exp, key, secretVars, ackVars>>
    BY <1>7 DEF Lock, Get, TypeOK
  <2> QED BY <2>1, <2>2, <2>3, RememberedFrame
<1>8. ASSUME NEW h \in Handlers, Put(h) PROVE IInv'
  BY <1>8, PutPreserves
<1>9. ASSUME NEW h \in Handlers, Conflict(h) \/ RevokeFails(h) PROVE IInv'
  <2>1. TypeOK'
    <3>0. NoEntries \in List
      BY DEF List, NoEntries
    <3>1. CASE Conflict(h)
      <4>1. CASE attempt[h] < MaxAttempts
        BY <3>0, <3>1, <4>1, BoundAssumption DEF Conflict, Retry, TypeOK, secretVars, ackVars, checkVars
      <4>2. CASE ~(attempt[h] < MaxAttempts)
        BY <3>0, <3>1, <4>2, BoundAssumption DEF Conflict, Return, TypeOK, secretVars, ackVars, checkVars
      <4> QED BY <4>1, <4>2
    <3>2. CASE RevokeFails(h)
      BY <3>0, <3>2, BoundAssumption DEF RevokeFails, Return, TypeOK, secretVars, ackVars, checkVars
    <3> QED BY <1>9, <3>1, <3>2
  <2>2. SnapshotCurrent' /\ RequestKnown'
    BY <1>9 DEF Conflict, RevokeFails, HoldsMu, Retry, Return, SnapshotCurrent, RequestKnown, Issued,
       secretVars, TypeOK
  <2>3. clock' >= clock /\ UNCHANGED <<exp, key, secretVars, ackVars>>
    BY <1>9 DEF Conflict, RevokeFails, TypeOK
  <2> QED BY <2>1, <2>2, <2>3, RememberedFrame
<1>10. ASSUME NEW c \in Checks, (\E t \in Sessions : CheckStart(c, t)) \/ CheckStep(c) PROVE IInv'
  <2>1. TypeOK'
    <3>1. CASE \E t \in Sessions : CheckStart(c, t)
      <4>1. \A t \in Sessions : acked[t] \in Nat
        BY ExpsAreTimes DEF TypeOK
      <4> QED BY <3>1, <4>1 DEF CheckStart, Reject, TypeOK, secretVars, logoutVars, ackVars
    <3>2. CASE CheckRead(c)
      <4>1. revoked[ctok[c]] \in Exps \union {0}
        BY <3>2, TokensAssumption DEF CheckRead, TypeOK, List
      <4>2. centry' \in [Checks -> Exps \union {0}]
        BY <3>2, <4>1 DEF CheckRead, TypeOK
      <4> QED BY <3>2, <4>2 DEF CheckRead, TypeOK, secretVars, logoutVars, ackVars
    <3>3. CASE CheckDecide(c) \/ CheckFails(c)
      BY <3>3 DEF CheckDecide, CheckFails, Accept, Reject, TypeOK, secretVars, logoutVars, ackVars
    <3> QED BY <1>10, <3>1, <3>2, <3>3 DEF CheckStep
  <2>2. clock' = clock /\ UNCHANGED <<exp, key, secretVars, ackVars, logoutVars>>
    BY <1>10 DEF CheckStart, CheckStep, CheckRead, CheckDecide, CheckFails
  <2>3. SnapshotCurrent' /\ RequestKnown'
    BY <2>2 DEF SnapshotCurrent, RequestKnown, Issued, secretVars, logoutVars
  <2>4. clock' >= clock
    BY <2>2 DEF TypeOK
  <2> QED BY <2>1, <2>2, <2>3, <2>4, RememberedFrame
<1>11. CASE UNCHANGED vars
  <2>1. TypeOK'
    BY <1>11 DEF vars, secretVars, logoutVars, ackVars, checkVars, TypeOK
  <2>2. SnapshotCurrent' /\ RequestKnown'
    BY <1>11 DEF vars, secretVars, logoutVars, SnapshotCurrent, RequestKnown, Issued
  <2>3. clock' >= clock /\ UNCHANGED <<exp, key, secretVars, ackVars>>
    BY <1>11 DEF vars, TypeOK
  <2> QED BY <2>1, <2>2, <2>3, RememberedFrame
<1> QED
  BY <1>1, <1>2, <1>3, <1>4, <1>5, <1>6, <1>7, <1>8, <1>9, <1>10, <1>11 DEF Next, LogoutStep

LEMMA Inductive == Spec => []IInv
<1> QED BY InitEstablishes, NextPreserves, PTL DEF Spec

-----------------------------------------------------------------------------
(* Theorems *)

\* Every variable keeps its type, the attempt counter of update its range.
THEOREM TypeCorrect == Spec => []TypeOK
<1>1. IInv => TypeOK
  BY DEF IInv
<1> QED BY <1>1, Inductive, PTL

\* The list written by SecretRevoker.update never outgrows MaxEntriesPerSlug.
THEOREM CapHolds == Spec => []ListBounded
<1>1. IInv => ListBounded
  BY DEF IInv
<1> QED BY <1>1, Inductive, PTL

\* No revocation acknowledged by SecretRevoker.Revoke is lost to a concurrent
\* write, a retry or a prune; only a full list may drop it, and only in favour
\* of entries that last no shorter, as long as no cookie has named a listed jti
\* with an earlier exp.
THEOREM RevocationsRemembered == Spec => []RevokedRemembered
<1>1. IInv => RevokedRemembered
  BY DEF IInv
<1> QED BY <1>1, Inductive, PTL

-----------------------------------------------------------------------------
(* Session checks *)

\* The session is past its time, or cannot be accepted by a check that starts
\* now, or its revocation was cut short.
Excused(c) ==
    \/ clock >= exp[ctok[c]]
    \/ ~secretUp
    \/ jwtKey # key[ctok[c]]
    \/ ctok[c] \in shortened \union displaced

\* What a running check has established and what it may still be wrong about.
CheckInv ==
    \A c \in Checks :
        /\ cpc[c] # "idle" =>
              /\ ctok[c] \in Sessions /\ Issued(ctok[c])
              /\ cuntil[c] <= acked[ctok[c]]
        /\ cpc[c] = "listed" => Excused(c) \/ clock >= cuntil[c] \/ centry[c] >= cuntil[c]
        /\ cpc[c] = "accept" => Excused(c) \/ clock >= cuntil[c]

\* Time, the signing key and the history only move forward.
LEMMA Forward ==
    ASSUME IInv, [Next]_vars
    PROVE  /\ clock' >= clock
           /\ jwtKey' >= jwtKey
           /\ ~secretUp => ~secretUp' \/ jwtKey' > jwtKey
           /\ shortened \subseteq shortened' /\ displaced \subseteq displaced'
           /\ \A t \in Sessions : acked'[t] >= acked[t]
           /\ \A t \in Sessions : Issued(t) => exp'[t] = exp[t] /\ key'[t] = key[t]
<1>1. TypeOK /\ \A t \in Sessions : acked[t] \in Nat
  BY ExpsAreTimes DEF IInv, TypeOK
<1>2. ASSUME NEW t \in Sessions, Login(t)
      PROVE  \A u \in Sessions : Issued(u) => exp'[u] = exp[u] /\ key'[u] = key[u]
  BY <1>1, <1>2 DEF Login, Issued, TypeOK
<1>3. (\E t \in Sessions : Login(t)) \/ UNCHANGED <<exp, key>>
  BY DEF Next, vars, Tick, SecretDeleted, SecretRecreated, KeyPatched, LogoutStart, LogoutStep,
     Lock, Get, Put, Conflict, RevokeFails, CheckStart, CheckStep, CheckRead, CheckDecide, CheckFails
<1>4. \A t \in Sessions : Issued(t) => exp'[t] = exp[t] /\ key'[t] = key[t]
  BY <1>2, <1>3
<1>5. ASSUME NEW h \in Handlers, Put(h)
      PROVE  /\ shortened \subseteq shortened' /\ displaced \subseteq displaced'
             /\ \A t \in Sessions : acked'[t] >= acked[t]
  <2>1. shortened \subseteq shortened' /\ displaced \subseteq displaced'
    BY <1>5 DEF Put
  <2>2. acked' \in {acked, Acknowledged(h)} /\ tok[h] \in Tokens /\ till[h] \in Nat
    BY <1>5, ExpsAreTimes DEF Put, IInv, RequestKnown, TypeOK
  <2>3. \A t \in Sessions :
            \/ acked'[t] = acked[t]
            \/ t = tok[h] /\ acked'[t] = till[h] /\ till[h] > acked[t]
    BY <1>1, <2>2, AckStep
  <2> QED BY <1>1, <2>1, <2>2, <2>3
<1>6. (\E h \in Handlers : Put(h)) \/ UNCHANGED ackVars
  BY DEF Next, vars, Login, Tick, SecretDeleted, SecretRecreated, KeyPatched, LogoutStart, LogoutStep,
     Lock, Get, Conflict, RevokeFails, CheckStart, CheckStep, CheckRead, CheckDecide, CheckFails
<1>7. /\ shortened \subseteq shortened' /\ displaced \subseteq displaced'
      /\ \A t \in Sessions : acked'[t] >= acked[t]
  <2>1. CASE UNCHANGED ackVars
    BY <1>1, <2>1 DEF ackVars
  <2> QED BY <1>5, <1>6, <2>1
<1>8. clock' = clock + 1 \/ clock' = clock
  BY DEF Next, vars, Login, Tick, SecretDeleted, SecretRecreated, KeyPatched, LogoutStart, LogoutStep,
     Lock, Get, Put, Conflict, RevokeFails, CheckStart, CheckStep, CheckRead, CheckDecide, CheckFails
<1>9. \/ jwtKey' = jwtKey /\ (~secretUp => ~secretUp')
      \/ jwtKey' = jwtKey + 1
  BY DEF Next, vars, secretVars, Login, Tick, SecretDeleted, SecretRecreated, KeyPatched, LogoutStart,
     LogoutStep, Lock, Get, Put, Conflict, RevokeFails, CheckStart, CheckStep, CheckRead, CheckDecide,
     CheckFails
<1> QED BY <1>1, <1>4, <1>7, <1>8, <1>9 DEF TypeOK

LEMMA CheckInvPreserved == IInv /\ IInv' /\ CheckInv /\ [Next]_vars => CheckInv'
<1> SUFFICES ASSUME IInv, IInv', CheckInv, [Next]_vars, NEW c \in Checks
             PROVE  /\ cpc'[c] # "idle" =>
                          /\ ctok'[c] \in Sessions /\ Issued(ctok[c])'
                          /\ cuntil'[c] <= acked'[ctok'[c]]
                    /\ cpc'[c] = "listed" =>
                          Excused(c)' \/ clock' >= cuntil'[c] \/ centry'[c] >= cuntil'[c]
                    /\ cpc'[c] = "accept" => Excused(c)' \/ clock' >= cuntil'[c]
  BY DEF CheckInv
<1> USE Forward DEF CheckInv
<1>1. /\ TypeOK /\ TypeOK'
      /\ clock \in Nat /\ clock' \in Nat
      /\ \A t \in Sessions : acked[t] \in Nat /\ acked'[t] \in Nat /\ exp[t] \in Nat /\ t \in Tokens
  BY ExpsAreTimes, TokensAssumption DEF IInv, TypeOK
<1>2. ASSUME Excused(c), cpc[c] # "idle", ctok'[c] = ctok[c]
      PROVE  Excused(c)'
  <2>1. /\ ctok[c] \in Sessions
        /\ exp'[ctok[c]] = exp[ctok[c]] /\ key'[ctok[c]] = key[ctok[c]]
    BY <1>2, Forward DEF CheckInv
  <2>2. /\ jwtKey' >= jwtKey /\ jwtKey \in Nat /\ jwtKey' \in Nat
        /\ ~secretUp => ~secretUp' \/ jwtKey' > jwtKey
        /\ key[ctok[c]] <= jwtKey /\ key[ctok[c]] \in Nat
    BY <1>1, <2>1, Forward DEF IInv, KeysPast, TypeOK
  <2>3. clock' >= clock /\ exp[ctok[c]] \in Nat
    BY <1>1, <2>1, Forward
  <2>4. shortened \subseteq shortened' /\ displaced \subseteq displaced'
    BY Forward
  <2> QED BY <1>1, <1>2, <2>1, <2>2, <2>3, <2>4 DEF Excused
<1>3. ASSUME NEW t \in Sessions, CheckStart(c, t)
      PROVE  /\ cpc'[c] # "idle" =>
                   /\ ctok'[c] \in Sessions /\ Issued(ctok[c])'
                   /\ cuntil'[c] <= acked'[ctok'[c]]
             /\ cpc'[c] \in {"idle", "authed"}
  BY <1>1, <1>3 DEF CheckStart, Reject, secretVars, ackVars, Issued, TypeOK
<1>4. CASE \E t \in Sessions : CheckStart(c, t)
  BY <1>3, <1>4
<1>5. CASE CheckRead(c)
  <2>1. /\ cpc'[c] = "listed" /\ cpc[c] = "authed"
        /\ ctok' = ctok /\ cuntil' = cuntil
        /\ exp' = exp /\ key' = key /\ clock' = clock /\ acked' = acked
        /\ shortened' = shortened /\ displaced' = displaced
        /\ secretUp' = secretUp /\ jwtKey' = jwtKey
        /\ centry'[c] = IF secretUp THEN revoked[ctok[c]] ELSE 0
    BY <1>1, <1>5 DEF CheckRead, secretVars, ackVars, TypeOK
  <2>2. /\ ctok[c] \in Sessions /\ Issued(ctok[c])
        /\ cuntil[c] <= acked[ctok[c]] /\ cuntil[c] \in Nat
    BY <1>1, <2>1 DEF TypeOK
  <2>3. CASE Excused(c) \/ clock >= cuntil[c]
    BY <2>1, <2>2, <2>3 DEF Excused, Issued
  <2>4. CASE ~(Excused(c) \/ clock >= cuntil[c])
    <3>1. Demanded(ctok[c]) /\ ctok[c] \notin shortened \union displaced
      BY <1>1, <2>2, <2>4 DEF Excused, Demanded
    <3>2. revoked[ctok[c]] >= acked[ctok[c]] /\ revoked[ctok[c]] \in Nat
      BY <1>1, <2>2, <3>1, ExpsAreTimes DEF IInv, KeptUnlessCut, TypeOK, List
    <3>3. centry'[c] >= cuntil[c]
      BY <1>1, <2>1, <2>2, <3>1, <3>2 DEF Demanded
    <3> QED BY <2>1, <2>2, <3>3 DEF Issued
  <2> QED BY <2>3, <2>4
<1>6. CASE CheckDecide(c)
  <2>1. /\ cpc[c] = "listed" /\ cpc'[c] \in {"accept", "idle"}
        /\ cpc'[c] = "accept" =>
              ~(centry[c] > clock) /\ ctok'[c] = ctok[c] /\ cuntil'[c] = cuntil[c]
        /\ exp' = exp /\ key' = key /\ clock' = clock /\ acked' = acked
        /\ shortened' = shortened /\ displaced' = displaced
        /\ secretUp' = secretUp /\ jwtKey' = jwtKey
    BY <1>1, <1>6 DEF CheckDecide, Accept, Reject, secretVars, ackVars, TypeOK
  <2>2. centry[c] \in Nat /\ cuntil[c] \in Nat
    BY <1>1, ExpsAreTimes DEF TypeOK
  <2>3. cpc'[c] = "accept" => Excused(c) \/ clock >= cuntil[c]
    BY <1>1, <2>1, <2>2
  <2> QED BY <2>1, <2>3 DEF Excused, Issued
<1>7. CASE CheckFails(c)
  <2>1. cpc'[c] = "idle"
    BY <1>1, <1>7 DEF CheckFails, Reject, TypeOK
  <2> QED BY <2>1
<1>8. CASE /\ cpc'[c] = cpc[c] /\ ctok'[c] = ctok[c]
           /\ centry'[c] = centry[c] /\ cuntil'[c] = cuntil[c]
  <2>1. ASSUME cpc[c] # "idle"
        PROVE  /\ ctok'[c] \in Sessions /\ Issued(ctok[c])'
               /\ cuntil'[c] <= acked'[ctok'[c]]
    <3>1. ctok[c] \in Sessions /\ acked'[ctok[c]] >= acked[ctok[c]] /\ cuntil[c] \in Nat
      BY <1>1, <2>1 DEF TypeOK
    <3> QED BY <1>1, <1>8, <2>1, <3>1 DEF Issued
  <2>2. cpc[c] # "idle" /\ Excused(c) => Excused(c)'
    BY <1>8, <1>2
  <2>3. clock >= cuntil[c] => clock' >= cuntil'[c]
    BY <1>1, <1>8 DEF TypeOK
  <2> QED BY <1>8, <2>1, <2>2, <2>3
<1>9. ASSUME NEW d \in Checks, d # c, (\E t \in Sessions : CheckStart(d, t)) \/ CheckStep(d)
      PROVE  /\ cpc'[c] = cpc[c] /\ ctok'[c] = ctok[c]
             /\ centry'[c] = centry[c] /\ cuntil'[c] = cuntil[c]
  BY <1>1, <1>9 DEF CheckStart, CheckStep, CheckRead, CheckDecide, CheckFails, Accept, Reject, TypeOK
<1>10. CASE UNCHANGED checkVars
  BY <1>8, <1>10 DEF checkVars
<1>11. \/ UNCHANGED checkVars
       \/ \E d \in Checks : (\E t \in Sessions : CheckStart(d, t)) \/ CheckStep(d)
  BY DEF Next, vars, Login, Tick, SecretDeleted, SecretRecreated, KeyPatched, LogoutStart, LogoutStep,
     Lock, Get, Put, Conflict, RevokeFails
<1> QED BY <1>4, <1>5, <1>6, <1>7, <1>8, <1>9, <1>10, <1>11 DEF CheckStep

\* authedClaims accepts a session revoked before the request began only once the
\* acknowledged exp or the session's own has passed, if the Secret was replaced
\* or rekeyed while the request ran, or if the entry was cut short by the cap or
\* by a logout that named the jti with an earlier exp.
THEOREM RevokedAreRejected == Spec => []RevokedRejected
<1>1. Init => CheckInv
  BY DEF Init, CheckInv
<1>2. IInv /\ CheckInv => RevokedRejected
  <2> SUFFICES ASSUME IInv, CheckInv, NEW c \in Checks, cpc[c] = "accept", clock < cuntil[c]
               PROVE  Excused(c)
    BY DEF RevokedRejected, Excused
  <2>1. clock \in Nat /\ cuntil[c] \in Nat
    BY DEF IInv, TypeOK
  <2> QED BY <2>1 DEF CheckInv
<1> QED BY <1>1, <1>2, CheckInvPreserved, Inductive, PTL DEF Spec

-----------------------------------------------------------------------------
(* The registry *)

LEMMA SameLongestLived ==
    ASSUME NEW L
    PROVE  Registry!LongestLived(L) = Capped(L)
<1>0. \A T : Registry!Cardinality(T) = Cardinality(T)
  BY DEF Registry!Cardinality, Cardinality
<1>1. Registry!Members(L) = Listed(L)
  BY DEF Registry!Members, Listed
<1>2. \A K : Registry!Restricted(L, K) = Only(L, K)
  BY DEF Registry!Restricted, Only
<1>3. {K \in SUBSET Registry!Members(L) :
          /\ Registry!Cardinality(K) = MaxEntries
          /\ \A kept \in K, dropped \in Registry!Members(L) \ K : L[dropped] <= L[kept]}
      = NewestByExp(L)
  BY <1>0, <1>1, Zenon DEF NewestByExp
<1> QED BY <1>0, <1>1, <1>2, <1>3, Zenon DEF Registry!LongestLived, Capped

\* An edit of the current list, seen without its expired entries, changes nothing
\* or is a revocation by a registry that keeps what lasts longest.
LEMMA EditRevokes ==
    ASSUME clock \in Nat, NEW L \in List, Cardinality(Listed(L)) <= MaxEntries,
           NEW t \in Tokens, NEW e \in Exps \union {0}, NEW now \in Nat, now <= clock,
           NEW K \in Edited(L, t, e, now)
    PROVE  \/ Pruned(K, clock) = Pruned(L, clock)
           \/ /\ e \in Exps
              /\ Pruned(K, clock) \in Capped(Pruned([Pruned(L, clock) EXCEPT ![t] = e], clock))
<1> DEFINE edit == EditOf(L, t, e, now)
           M == Pruned([Pruned(L, clock) EXCEPT ![t] = e], clock)
<1>1. CASE e <= now
  BY <1>1 DEF Edited
<1>2. CASE ~(e <= now)
  <2>0. e \in Nat /\ e > now /\ e \in Exps /\ \A u \in Tokens : L[u] \in Nat
    BY <1>2, ExpsAreTimes DEF List
  <2>1. /\ edit \in List
        /\ edit[t] = e
        /\ \A u \in Tokens \ {t} : edit[u] = IF L[u] > now THEN L[u] ELSE 0
    BY <2>0, EditShape
  <2>2. /\ K \in List
        /\ \A u \in Listed(K) : u \in Listed(edit) /\ K[u] = edit[u]
        /\ Cardinality(Listed(K)) <= MaxEntries
        /\ \/ K = edit
           \/ /\ Cardinality(Listed(K)) = MaxEntries
              /\ \A kept \in Listed(K), dropped \in Listed(edit) \ Listed(K) :
                     edit[dropped] <= edit[kept]
    BY <2>0, EditedKeeps
  <2> HIDE DEF edit
  <2>3. \A u \in Tokens : edit[u] \in Nat /\ K[u] \in Nat
    BY <2>1, <2>2, ExpsAreTimes DEF List
  <2>4. M = Pruned(edit, clock)
    <3>1. [Pruned(L, clock) EXCEPT ![t] = e][t] = e
      BY DEF Pruned
    <3>2. \A u \in Tokens \ {t} :
              [Pruned(L, clock) EXCEPT ![t] = e][u] = IF L[u] > clock THEN L[u] ELSE 0
      BY DEF Pruned
    <3>3. \A u \in Tokens :
              (IF [Pruned(L, clock) EXCEPT ![t] = e][u] > clock
               THEN [Pruned(L, clock) EXCEPT ![t] = e][u] ELSE 0)
              = (IF edit[u] > clock THEN edit[u] ELSE 0)
      BY <2>0, <2>1, <2>3, <3>1, <3>2
    <3> QED BY <3>3 DEF Pruned
  <2>5. M \in List /\ Pruned(K, clock) \in List /\ Listed(M) \subseteq Listed(edit)
    BY <2>1, <2>2, <2>4, PruneKeeps
  <2> HIDE DEF M
  <2>6. \A u \in Tokens : /\ M[u] = IF edit[u] > clock THEN edit[u] ELSE 0
                          /\ Pruned(K, clock)[u] = IF K[u] > clock THEN K[u] ELSE 0
    BY <2>1, <2>2, <2>4, PruneKeeps
  <2>7. CASE \A u \in Tokens : edit[u] > clock => u \in Listed(K)
    <3>1. \A u \in Tokens : Pruned(K, clock)[u] = M[u]
      <4> SUFFICES ASSUME NEW u \in Tokens PROVE Pruned(K, clock)[u] = M[u]
        OBVIOUS
      <4>1. CASE u \in Listed(K)
        BY <2>2, <2>6, <4>1
      <4>2. CASE u \notin Listed(K)
        BY <2>3, <2>6, <2>7, <4>2 DEF Listed
      <4> QED BY <4>1, <4>2
    <3>2. Pruned(K, clock) = M
      BY <2>5, <3>1 DEF List
    <3>3. Listed(M) \in SUBSET Listed(K) /\ Listed(K) \in SUBSET Tokens
      BY <2>6, <2>7, <2>3 DEF Listed
    <3>4. Cardinality(Listed(M)) <= MaxEntries
      <4>1. /\ Cardinality(Listed(M)) <= Cardinality(Listed(K))
            /\ Cardinality(Listed(K)) \in Nat /\ Cardinality(Listed(M)) \in Nat
        BY <3>3, ListedFinite
      <4> QED BY <2>2, <4>1, BoundAssumption
    <3>5. Capped(M) = {M}
      BY <3>4 DEF Capped
    <3> QED BY <2>0, <3>2, <3>5 DEF M
  <2>8. ASSUME NEW d \in Tokens, edit[d] > clock, d \notin Listed(K)
        PROVE  Pruned(K, clock) \in Capped(M)
    <3>1. d \in Listed(edit) \ Listed(K) /\ K # edit
      BY <2>3, <2>8 DEF Listed
    <3>2. /\ Cardinality(Listed(K)) = MaxEntries
          /\ \A kept \in Listed(K), dropped \in Listed(edit) \ Listed(K) :
                 edit[dropped] <= edit[kept]
      BY <2>2, <3>1
    <3>3. \A u \in Listed(K) : u \in Tokens /\ edit[u] > clock /\ K[u] = edit[u]
      <4> SUFFICES ASSUME NEW u \in Listed(K) PROVE u \in Tokens /\ edit[u] > clock /\ K[u] = edit[u]
        OBVIOUS
      <4>1. u \in Tokens /\ edit[d] <= edit[u] /\ K[u] = edit[u]
        BY <2>2, <3>1, <3>2 DEF Listed
      <4> QED BY <2>3, <2>8, <4>1
    <3>4. Listed(K) \subseteq Listed(M) /\ d \in Listed(M) /\ Listed(M) \in SUBSET Tokens
      BY <2>3, <2>6, <2>8, <3>3 DEF Listed
    <3>5. ~(Cardinality(Listed(M)) <= MaxEntries)
      <4>1. Listed(K) \in SUBSET Tokens /\ IsFiniteSet(Listed(K))
        BY ListedFinite DEF Listed
      <4>2. Cardinality(Listed(K) \union {d}) = MaxEntries + 1
        BY <2>8, <3>2, <4>1, FS_AddElement
      <4>3. Listed(K) \union {d} \in SUBSET Listed(M)
        BY <3>4
      <4>4. MaxEntries + 1 <= Cardinality(Listed(M)) /\ Cardinality(Listed(M)) \in Nat
        BY <3>4, <4>2, <4>3, ListedFinite
      <4> QED BY <4>4, BoundAssumption
    <3>6. Listed(K) \in NewestByExp(M)
      <4> SUFFICES ASSUME NEW kept \in Listed(K), NEW dropped \in Listed(M) \ Listed(K)
                   PROVE  M[dropped] <= M[kept]
        BY <3>2, <3>4 DEF NewestByExp
      <4>1. dropped \in Listed(edit) \ Listed(K) /\ kept \in Tokens /\ dropped \in Tokens
        BY <2>5, <3>3 DEF Listed
      <4>2. edit[dropped] <= edit[kept] /\ edit[kept] > clock
        BY <3>2, <3>3, <4>1
      <4>3. M[kept] = edit[kept] /\ M[dropped] = edit[dropped]
        BY <2>3, <2>6, <4>1, <4>2 DEF Listed
      <4> QED BY <4>2, <4>3
    <3>7. Pruned(K, clock) = Only(M, Listed(K))
      <4>1. \A u \in Tokens : Pruned(K, clock)[u] = IF u \in Listed(K) THEN M[u] ELSE 0
        <5> SUFFICES ASSUME NEW u \in Tokens
                     PROVE  Pruned(K, clock)[u] = IF u \in Listed(K) THEN M[u] ELSE 0
          OBVIOUS
        <5>1. CASE u \in Listed(K)
          BY <2>6, <3>3, <5>1
        <5>2. CASE u \notin Listed(K)
          BY <2>3, <2>6, <5>2 DEF Listed
        <5> QED BY <5>1, <5>2
      <4> QED BY <2>5, <4>1 DEF Only, List
    <3> QED BY <3>5, <3>6, <3>7 DEF Capped
  <2> QED BY <2>0, <2>7, <2>8 DEF M
<1> QED BY <1>1, <1>2

LEMMA RegistryStep == IInv /\ [Next]_vars => [Registry!RegistryNext]_(Registry!registryVars)
<1> DEFINE until == Pruned(revoked, clock)
<1> SUFFICES ASSUME IInv, [Next]_vars
             PROVE  Registry!RegistryNext \/ UNCHANGED <<clock, until>>
  BY DEF Registry!registryVars
<1>t. clock \in Nat /\ revoked \in List /\ \A s \in Tokens : revoked[s] \in Nat
  BY ExpsAreTimes DEF IInv, TypeOK, List
<1>1. ASSUME NEW t \in Sessions, Login(t) PROVE UNCHANGED <<clock, until>>
  BY <1>1 DEF Login, secretVars, Pruned
<1>2. CASE Tick
  <2>1. clock' = clock + 1 /\ revoked' = revoked
    BY <1>2 DEF Tick, secretVars
  <2>2. until' = Registry!Unexpired(until, clock')
    <3>1. \A s \in Tokens :
              (IF revoked[s] > clock + 1 THEN revoked[s] ELSE 0)
              = (IF until[s] > clock + 1 THEN until[s] ELSE 0)
      BY <1>t DEF Pruned
    <3> QED BY <2>1, <3>1 DEF Pruned, Registry!Unexpired
  <2> QED BY <2>1, <2>2 DEF Registry!RegistryNext, Registry!Elapse
<1>3. CASE SecretDeleted
  <2>1. clock' = clock /\ revoked' = NoEntries
    BY <1>3 DEF SecretDeleted
  <2>2. until' = [s \in Tokens |-> 0]
    BY <2>1 DEF NoEntries, Pruned
  <2> QED BY <2>1, <2>2 DEF Registry!RegistryNext, Registry!Reset
<1>4. ASSUME NEW h \in Handlers, Put(h)
      PROVE  Registry!RegistryNext \/ UNCHANGED <<clock, until>>
  <2> DEFINE t == tok[h]
             e == till[h]
  <2>1. /\ snap[h] = revoked /\ t \in Tokens /\ e \in Exps \union {0}
        /\ clock' = clock
    BY <1>4 DEF Put, IInv, SnapshotCurrent, RequestKnown, TypeOK
  <2>2. PICK now \in readAt[h] .. clock : revoked' \in Edited(revoked, t, e, now)
    BY <1>4, <2>1 DEF Put
  <2>3. now \in Nat /\ now <= clock
    BY <1>t, <2>2 DEF IInv, TypeOK
  <2>4. Cardinality(Listed(revoked)) <= MaxEntries
    BY DEF IInv, ListBounded
  <2> HIDE DEF t, e
  <2>5. \/ Pruned(revoked', clock) = Pruned(revoked, clock)
        \/ /\ e \in Exps
           /\ Pruned(revoked', clock) \in Capped(Pruned([Pruned(revoked, clock) EXCEPT ![t] = e], clock))
    BY <1>t, <2>1, <2>2, <2>3, <2>4, EditRevokes
  <2>6. until' = Pruned(revoked', clock)
    BY <2>1 DEF Pruned
  <2>7. CASE /\ e \in Exps
             /\ Pruned(revoked', clock) \in Capped(Pruned([Pruned(revoked, clock) EXCEPT ![t] = e], clock))
    <3>1. Registry!Unexpired([until EXCEPT ![t] = e], clock) = Pruned([until EXCEPT ![t] = e], clock)
      BY DEF Registry!Unexpired, Pruned
    <3>2. Registry!Revoke(t, e)
      BY <2>1, <2>6, <2>7, <3>1, SameLongestLived DEF Registry!Revoke
    <3> QED BY <2>1, <2>7, <3>2 DEF Registry!RegistryNext
  <2> QED BY <2>1, <2>5, <2>6, <2>7
<1>5. ASSUME UNCHANGED <<clock, revoked>> PROVE UNCHANGED <<clock, until>>
  BY <1>5 DEF Pruned
<1>6. \/ (\E t \in Sessions : Login(t)) \/ Tick \/ SecretDeleted
      \/ (\E h \in Handlers : Put(h))
      \/ UNCHANGED <<clock, revoked>>
  BY DEF Next, SecretRecreated, KeyPatched, LogoutStart, LogoutStep, Lock, Get, Conflict,
     RevokeFails, CheckStart, CheckStep, CheckRead, CheckDecide, CheckFails, secretVars, vars
<1> QED BY <1>1, <1>2, <1>3, <1>4, <1>5, <1>6

\* The Secret-backed revoker behaves like the atomic registry: the retries,
\* conflicts and lost answers of concurrent logouts add up to revocations that
\* take effect at one instant, the last one of a jti deciding how long it lasts,
\* and the list forgets only what the cap drops.
THEOREM RevokerIsARegistry == Spec => ImplementsRegistry
<1>1. Init => Registry!RegistryInit
  <2> SUFFICES ASSUME Init PROVE clock = 0 /\ Pruned(revoked, clock) = [t \in Tokens |-> 0]
    BY DEF Registry!RegistryInit
  <2> QED BY DEF Init, NoEntries, Pruned
<1>2. IInv /\ [Next]_vars => [Registry!RegistryNext]_(Registry!registryVars)
  BY RegistryStep
<1> QED BY <1>1, <1>2, Inductive, PTL DEF Spec, ImplementsRegistry, Registry!RegistrySpec
=============================================================================
