-------------------------- MODULE ConfigStoreProofs --------------------------
(* Theorems about ConfigStore, for files of any length, any ids, repeated  *)
(* or not, and any groups: the list and the selection follow the file, and *)
(* no call touches entries it is not about.                                *)
(*                                                                         *)
(* Others is a recursive function.  That it is what its definition says,   *)
(* and what it does to a sequence that grows at its end, is proved by      *)
(* induction on sets of numbers; all else follows by induction on sets of  *)
(* sequences.                                                              *)
EXTENDS ConfigStore, SequenceTheorems, WellFoundedInduction, TLAPS

-----------------------------------------------------------------------------
(* Induction.                                                              *)

LEMMA NumberInduction ==
    ASSUME NEW T \in SUBSET Nat, 0 \in T, \A n \in T : n + 1 \in T
    PROVE  T = Nat
<1> SUFFICES ASSUME Nat \ T # {}
             PROVE  FALSE
  OBVIOUS
<1> DEFINE Less == OpToRel(<, Nat)
<1>1. IsWellFoundedOn(Less, Nat)
  BY NatLessThanWellFounded
<1>2. \A m, n \in Nat : m < n => <<m, n>> \in Less
  BY DEF OpToRel
<1> HIDE DEF Less
<1>3. PICK n \in Nat \ T : \A m \in Nat \ T : <<m, n>> \notin Less
  BY <1>1, WFMin
<1>4. n # 0 /\ n - 1 \in Nat /\ n - 1 < n /\ n - 1 + 1 = n
  OBVIOUS
<1>5. n - 1 \in T
  BY <1>2, <1>3, <1>4
<1> QED BY <1>4, <1>5

LEMMA SequenceInduction ==
    ASSUME NEW S, NEW P \in SUBSET Seq(S), <<>> \in P,
           \A s \in P, e \in S : Append(s, e) \in P
    PROVE  P = Seq(S)
<1> DEFINE T == {n \in Nat : \A s \in Seq(S) : Len(s) = n => s \in P}
<1>1. 0 \in T
  BY EmptySeq
<1>2. ASSUME NEW n \in T
      PROVE  n + 1 \in T
  <2> SUFFICES ASSUME NEW s \in Seq(S), Len(s) = n + 1
               PROVE  s \in P
    OBVIOUS
  <2>1. s # <<>>
    BY EmptySeq
  <2>2. PICK f \in Seq(S), e \in S : s = Append(f, e)
    BY <2>1, SequenceEmptyOrAppend
  <2>3. Len(f) = n
    BY <2>2, AppendProperties, LenProperties
  <2> QED BY <2>2, <2>3
<1>3. T = Nat
  <2> HIDE DEF T
  <2>1. T \in SUBSET Nat
    BY DEF T
  <2> QED BY <1>1, <1>2, <2>1, NumberInduction
<1> QED BY <1>3, LenProperties

-----------------------------------------------------------------------------
(* Others.                                                                 *)

(* The function f is what the definition of Others makes of s.             *)
Keeps(f, s, id, m) ==
    \A n \in 0..m :
        f[n] = IF n = 0 THEN <<>>
               ELSE IF s[n].id = id THEN f[n - 1] ELSE Append(f[n - 1], s[n])

LEMMA KeptExists ==
    ASSUME NEW s \in Seq(Entry), NEW id, NEW m \in Nat
    PROVE  m <= Len(s) => \E f \in [0..m -> Seq(Entry)] : Keeps(f, s, id, m)
<1> DEFINE T == {n \in Nat : n <= Len(s) =>
                               \E f \in [0..n -> Seq(Entry)] : Keeps(f, s, id, n)}
<1>1. 0 \in T
  <2> DEFINE f == [n \in 0..0 |-> <<>>]
  <2>1. f \in [0..0 -> Seq(Entry)] /\ Keeps(f, s, id, 0)
    BY EmptySeq DEF Keeps
  <2> QED BY <2>1
<1>2. ASSUME NEW n \in T
      PROVE  n + 1 \in T
  <2> SUFFICES ASSUME n + 1 <= Len(s)
               PROVE  \E f \in [0..(n + 1) -> Seq(Entry)] : Keeps(f, s, id, n + 1)
    OBVIOUS
  <2>1. n \in Nat /\ Len(s) \in Nat /\ n <= Len(s)
    BY LenProperties
  <2>2. PICK f \in [0..n -> Seq(Entry)] : Keeps(f, s, id, n)
    BY <2>1
  <2> DEFINE last == IF s[n + 1].id = id THEN f[n] ELSE Append(f[n], s[n + 1])
             g == [k \in 0..(n + 1) |-> IF k = n + 1 THEN last ELSE f[k]]
  <2>3. s[n + 1] \in Entry /\ f[n] \in Seq(Entry)
    BY <2>1, ElementOfSeq
  <2>4. last \in Seq(Entry)
    BY <2>3, AppendProperties
  <2> HIDE DEF last
  <2>5. g \in [0..(n + 1) -> Seq(Entry)]
    BY <2>1, <2>4
  <2>6. ASSUME NEW k \in 0..(n + 1)
        PROVE  g[k] = IF k = 0 THEN <<>>
                      ELSE IF s[k].id = id THEN g[k - 1] ELSE Append(g[k - 1], s[k])
    <3>1. CASE k = n + 1
      <4>1. g[k] = last /\ k # 0 /\ k - 1 = n /\ g[k - 1] = f[n]
        BY <2>1, <3>1
      <4> QED BY <3>1, <4>1 DEF last
    <3>2. CASE k # n + 1
      <4>1. k \in 0..n /\ g[k] = f[k] /\ (k # 0 => k - 1 \in 0..n /\ g[k - 1] = f[k - 1])
        BY <2>1, <3>2
      <4>2. f[k] = IF k = 0 THEN <<>>
                   ELSE IF s[k].id = id THEN f[k - 1] ELSE Append(f[k - 1], s[k])
        BY <2>2, <4>1 DEF Keeps
      <4> QED BY <4>1, <4>2
    <3> QED BY <3>1, <3>2
  <2> HIDE DEF g
  <2> QED BY <2>5, <2>6 DEF Keeps
<1>3. T = Nat
  <2> HIDE DEF T
  <2>1. T \in SUBSET Nat
    BY DEF T
  <2> QED BY <1>1, <1>2, <2>1, NumberInduction
<1> QED BY <1>3

LEMMA KeptStep ==
    ASSUME NEW f, NEW s, NEW id, NEW m \in Nat, Keeps(f, s, id, m),
           NEW n \in Nat, n + 1 <= m
    PROVE  f[n + 1] = IF s[n + 1].id = id THEN f[n] ELSE Append(f[n], s[n + 1])
<1>1. n + 1 \in 0..m /\ n + 1 # 0 /\ n + 1 - 1 = n
  OBVIOUS
<1> QED BY <1>1 DEF Keeps

(* There is only one such function, however far it is looked at.           *)
LEMMA KeptIsUnique ==
    ASSUME NEW s, NEW t, NEW id, NEW m \in Nat,
           NEW f, NEW g, Keeps(f, s, id, m), Keeps(g, t, id, m),
           \A i \in 1..m : s[i] = t[i]
    PROVE  \A n \in 0..m : f[n] = g[n]
<1> DEFINE T == {n \in Nat : n <= m => f[n] = g[n]}
<1>1. 0 \in T
  BY DEF Keeps
<1>2. ASSUME NEW n \in T
      PROVE  n + 1 \in T
  <2> SUFFICES ASSUME n + 1 <= m
               PROVE  f[n + 1] = g[n + 1]
    OBVIOUS
  <2>1. n + 1 \in 0..m /\ n + 1 # 0 /\ n + 1 - 1 = n /\ n + 1 \in 1..m /\ f[n] = g[n]
    OBVIOUS
  <2>2. f[n + 1] = IF s[n + 1].id = id THEN f[n] ELSE Append(f[n], s[n + 1])
    BY KeptStep
  <2>3. g[n + 1] = IF t[n + 1].id = id THEN g[n] ELSE Append(g[n], t[n + 1])
    BY KeptStep
  <2> QED BY <2>1, <2>2, <2>3
<1>3. T = Nat
  <2> HIDE DEF T
  <2>1. T \in SUBSET Nat
    BY DEF T
  <2> QED BY <1>1, <1>2, <2>1, NumberInduction
<1> QED BY <1>3

LEMMA KeptWhenAppended ==
    ASSUME NEW s, NEW t, NEW id, NEW n \in Nat, \A i \in 1..n : s[i] = t[i],
           NEW f, NEW g, Keeps(f, s, id, n), Keeps(g, t, id, n + 1)
    PROVE  g[n + 1] = IF t[n + 1].id = id THEN f[n] ELSE Append(f[n], t[n + 1])
<1>1. Keeps(g, t, id, n)
  <2>1. \A k \in 0..n : k \in 0..(n + 1)
    OBVIOUS
  <2> QED BY <2>1 DEF Keeps
<1>2. n \in 0..n /\ n + 1 \in Nat /\ n + 1 <= n + 1
  OBVIOUS
<1>3. f[n] = g[n]
  BY <1>1, <1>2, KeptIsUnique
<1>4. g[n + 1] = IF t[n + 1].id = id THEN g[n] ELSE Append(g[n], t[n + 1])
  BY <1>2, KeptStep
<1> QED BY <1>3, <1>4

LEMMA OthersIs ==
    ASSUME NEW s \in Seq(Entry), NEW id
    PROVE  \E f \in [0..Len(s) -> Seq(Entry)] :
              Keeps(f, s, id, Len(s)) /\ Others(s, id) = f[Len(s)]
<1> DEFINE IsKept(f) ==
              f = [n \in 0..Len(s) |->
                      IF n = 0 THEN <<>>
                      ELSE IF s[n].id = id THEN f[n - 1] ELSE Append(f[n - 1], s[n])]
           kept == CHOOSE f : IsKept(f)
<1>1. Len(s) \in Nat
  BY LenProperties
<1>2. PICK f \in [0..Len(s) -> Seq(Entry)] : Keeps(f, s, id, Len(s))
  BY <1>1, KeptExists
<1>3. IsKept(f)
  BY <1>2 DEF Keeps
<1>4. Others(s, id) = kept[Len(s)]
  BY DEF Others
<1>5. IsKept(kept)
  <2> HIDE DEF IsKept
  <2> QED BY <1>3
<1> HIDE DEF kept
<1>6. Keeps(kept, s, id, Len(s))
  BY <1>5 DEF Keeps
<1> HIDE DEF IsKept
<1>7. \A n \in 0..Len(s) : kept[n] = f[n]
  BY <1>1, <1>2, <1>6, KeptIsUnique
<1>8. Len(s) \in 0..Len(s)
  BY <1>1
<1> QED BY <1>2, <1>4, <1>7, <1>8

LEMMA OthersOfNone ==
    ASSUME NEW id
    PROVE  Others(<<>>, id) = <<>>
<1>1. <<>> \in Seq(Entry) /\ Len(<<>>) = 0 /\ 0 \in 0..0
  BY EmptySeq
<1>2. PICK f \in [0..0 -> Seq(Entry)] : Keeps(f, <<>>, id, 0) /\ Others(<<>>, id) = f[0]
  BY <1>1, OthersIs
<1> QED BY <1>1, <1>2 DEF Keeps

LEMMA OthersOfAppended ==
    ASSUME NEW s \in Seq(Entry), NEW e \in Entry, NEW id
    PROVE  /\ Others(s, id) \in Seq(Entry)
           /\ Others(Append(s, e), id)
                = IF e.id = id THEN Others(s, id) ELSE Append(Others(s, id), e)
<1>1. PICK n \in Nat : n = Len(s)
  BY LenProperties
<1>2. PICK t :
         /\ t \in Seq(Entry) /\ t = Append(s, e) /\ Len(t) = n + 1
         /\ t[n + 1] = e /\ \A i \in 1..n : s[i] = t[i]
  <2>1. /\ Append(s, e) \in Seq(Entry) /\ Len(Append(s, e)) = n + 1
        /\ Append(s, e)[n + 1] = e /\ \A i \in 1..n : Append(s, e)[i] = s[i]
    BY <1>1, AppendProperties
  <2> QED BY <2>1
<1>3. PICK f : /\ f \in [0..n -> Seq(Entry)]
               /\ Keeps(f, s, id, n) /\ Others(s, id) = f[n]
  BY <1>1, OthersIs
<1>4. PICK g : Keeps(g, t, id, n + 1) /\ Others(t, id) = g[n + 1]
  BY <1>2, OthersIs
<1>5. g[n + 1] = IF e.id = id THEN f[n] ELSE Append(f[n], e)
  <2>1. g[n + 1] = IF t[n + 1].id = id THEN f[n] ELSE Append(f[n], t[n + 1])
    <3>1. Keeps(f, s, id, n) /\ Keeps(g, t, id, n + 1) /\ \A i \in 1..n : s[i] = t[i]
      BY <1>2, <1>3, <1>4
    <3> QED BY <3>1, KeptWhenAppended
  <2> QED BY <1>2, <2>1
<1>6. n \in 0..n
  OBVIOUS
<1>7. f[n] \in Seq(Entry)
  BY <1>3, <1>6, Zenon
<1> QED BY <1>2, <1>3, <1>4, <1>5, <1>7

(* What is left has the other ids, and taking an id out once more changes  *)
(* nothing.                                                                *)
LEMMA IdsOfAppended ==
    ASSUME NEW s \in Seq(Entry), NEW e \in Entry
    PROVE  IdsOf(<<>>) = {} /\ IdsOf(Append(s, e)) = IdsOf(s) \cup {e.id}
<1>1. IdsOf(<<>>) = {}
  BY DEF IdsOf
<1>2. /\ Len(s) \in Nat /\ DOMAIN s = 1..Len(s)
      /\ DOMAIN Append(s, e) = 1..(Len(s) + 1)
      /\ Append(s, e)[Len(s) + 1] = e /\ \A i \in 1..Len(s) : Append(s, e)[i] = s[i]
  BY LenProperties, AppendProperties
<1>3. 1..(Len(s) + 1) = 1..Len(s) \cup {Len(s) + 1}
  BY <1>2
<1> DEFINE t == Append(s, e)
<1> HIDE DEF t
<1>4. {t[i].id : i \in 1..(Len(s) + 1)} = {t[i].id : i \in 1..Len(s)} \cup {t[Len(s) + 1].id}
  BY <1>3
<1>5. {t[i].id : i \in 1..Len(s)} = {s[i].id : i \in 1..Len(s)}
  BY <1>2 DEF t
<1> QED BY <1>1, <1>2, <1>4, <1>5 DEF IdsOf, t

LEMMA OthersProperties ==
    ASSUME NEW s \in Seq(Entry), NEW id
    PROVE  /\ Others(s, id) \in Seq(Entry)
           /\ IdsOf(Others(s, id)) = IdsOf(s) \ {id}
           /\ Others(Others(s, id), id) = Others(s, id)
<1> DEFINE P == {r \in Seq(Entry) :
                    /\ Others(r, id) \in Seq(Entry)
                    /\ IdsOf(Others(r, id)) = IdsOf(r) \ {id}
                    /\ Others(Others(r, id), id) = Others(r, id)}
<1>1. <<>> \in P
  <2>1. <<>> \in Seq(Entry)
    BY EmptySeq
  <2>2. Others(<<>>, id) = <<>>
    BY OthersOfNone
  <2>3. IdsOf(<<>>) = IdsOf(<<>>) \ {id}
    BY DEF IdsOf
  <2> QED BY <2>1, <2>2, <2>3
<1>2. ASSUME NEW r \in P, NEW e \in Entry
      PROVE  Append(r, e) \in P
  <2>1. Append(r, e) \in Seq(Entry)
    BY AppendProperties
  <2>2. CASE e.id = id
    <3>1. Others(Append(r, e), id) = Others(r, id)
      BY <2>2, OthersOfAppended
    <3>2. IdsOf(Append(r, e)) = IdsOf(r) \cup {id}
      BY <2>2, IdsOfAppended
    <3> QED BY <2>1, <3>1, <3>2
  <2>3. CASE e.id # id
    <3> DEFINE k == Others(r, id)
    <3>1. k \in Seq(Entry) /\ IdsOf(k) = IdsOf(r) \ {id} /\ Others(k, id) = k
      OBVIOUS
    <3>2. Others(Append(r, e), id) = Append(k, e)
      BY <2>3, OthersOfAppended
    <3> HIDE DEF k
    <3>3. Others(Append(k, e), id) = Append(k, e) /\ Append(k, e) \in Seq(Entry)
      BY <2>3, <3>1, OthersOfAppended, AppendProperties
    <3>4. IdsOf(Append(k, e)) = IdsOf(k) \cup {e.id} /\ IdsOf(Append(r, e)) = IdsOf(r) \cup {e.id}
      BY <3>1, IdsOfAppended
    <3>5. IdsOf(Append(k, e)) = IdsOf(Append(r, e)) \ {id}
      BY <2>3, <3>1, <3>4
    <3> QED BY <2>1, <3>2, <3>3, <3>5
  <2> QED BY <2>2, <2>3
<1>3. P = Seq(Entry)
  <2> HIDE DEF P
  <2>1. P \in SUBSET Seq(Entry)
    BY DEF P
  <2> QED BY <1>1, <1>2, <2>1, SequenceInduction
<1> QED BY <1>3

(* Only what the entries of other ids are matters, and where they are.     *)
Similar(s, t, id) ==
    /\ Len(s) = Len(t)
    /\ \A i \in 1..Len(s) : s[i] = t[i] \/ (s[i].id = id /\ t[i].id = id)

LEMMA SimilarHaveTheSameOthers ==
    ASSUME NEW s \in Seq(Entry), NEW t \in Seq(Entry), NEW id, Similar(s, t, id)
    PROVE  Others(s, id) = Others(t, id)
<1> DEFINE P == {r \in Seq(Entry) : \A u \in Seq(Entry) :
                    Similar(r, u, id) => Others(r, id) = Others(u, id)}
<1>1. <<>> \in P
  BY EmptySeq DEF Similar
<1>2. ASSUME NEW r \in P, NEW e \in Entry
      PROVE  Append(r, e) \in P
  <2>1. /\ Append(r, e) \in Seq(Entry) /\ Len(Append(r, e)) = Len(r) + 1
        /\ Append(r, e)[Len(r) + 1] = e /\ \A i \in 1..Len(r) : Append(r, e)[i] = r[i]
        /\ Len(r) \in Nat
    BY AppendProperties, LenProperties
  <2>2. ASSUME NEW u \in Seq(Entry), Similar(Append(r, e), u, id)
        PROVE  Others(Append(r, e), id) = Others(u, id)
    <3>1. Len(u) = Len(r) + 1
      BY <2>1, <2>2 DEF Similar
    <3>2. u # <<>>
      BY <2>1, <3>1, EmptySeq
    <3>3. PICK w \in Seq(Entry), c \in Entry : u = Append(w, c)
      BY <3>2, SequenceEmptyOrAppend
    <3>4. /\ Len(u) = Len(w) + 1 /\ u[Len(w) + 1] = c
          /\ \A i \in 1..Len(w) : u[i] = w[i]
          /\ Len(w) \in Nat
      BY <3>3, AppendProperties, LenProperties
    <3>5. Len(w) = Len(r)
      BY <2>1, <3>1, <3>4
    <3> DEFINE v == Append(r, e)
    <3> HIDE DEF v
    <3>6. \A i \in 1..(Len(r) + 1) : v[i] = u[i] \/ (v[i].id = id /\ u[i].id = id)
      BY <2>1, <2>2 DEF Similar, v
    <3>7. Similar(r, w, id)
      <4>1. ASSUME NEW i \in 1..Len(r)
            PROVE  r[i] = w[i] \/ (r[i].id = id /\ w[i].id = id)
        <5>1. i \in 1..(Len(r) + 1) /\ v[i] = r[i] /\ u[i] = w[i]
          BY <2>1, <3>4, <3>5 DEF v
        <5> QED BY <3>6, <5>1
      <4> QED BY <3>5, <4>1 DEF Similar
    <3>8. e = c \/ (e.id = id /\ c.id = id)
      <4>1. Len(r) + 1 \in 1..(Len(r) + 1) /\ v[Len(r) + 1] = e /\ u[Len(r) + 1] = c
        BY <2>1, <3>4, <3>5 DEF v
      <4> QED BY <3>6, <4>1
    <3>9. Others(r, id) = Others(w, id)
      BY <3>7
    <3>10. /\ Others(Append(r, e), id)
                = IF e.id = id THEN Others(r, id) ELSE Append(Others(r, id), e)
           /\ Others(u, id) = IF c.id = id THEN Others(w, id) ELSE Append(Others(w, id), c)
      BY <3>3, OthersOfAppended
    <3> QED BY <3>8, <3>9, <3>10
  <2> QED BY <2>1, <2>2
<1>3. P = Seq(Entry)
  <2> HIDE DEF P
  <2>1. P \in SUBSET Seq(Entry)
    BY DEF P
  <2> QED BY <1>1, <1>2, <2>1, SequenceInduction
<1> QED BY <1>3

-----------------------------------------------------------------------------
(* What the calls make of the file.                                        *)

LEMMA AddedProperties ==
    ASSUME TypeOK, NEW e \in Entry
    PROVE  /\ Loaded \in Seq(Entry) /\ Added(e) \in Seq(Entry)
           /\ IdsOf(Added(e)) = IdsOf(Loaded) \cup {e.id}
           /\ Others(Added(e), e.id) = Others(Loaded, e.id)
<1>1. Loaded \in Seq(Entry)
  BY EmptySeq DEF TypeOK, Loaded
<1> QED BY <1>1, AppendProperties, IdsOfAppended, OthersOfAppended DEF Added

LEMMA UpdatedProperties ==
    ASSUME file \in Seq(Entry), NEW e \in Entry
    PROVE  /\ Updated(e) \in Seq(Entry)
           /\ IdsOf(Updated(e)) = IdsOf(file)
           /\ Others(Updated(e), e.id) = Others(file, e.id)
<1> DEFINE t == Updated(e)
<1>1. Len(file) \in Nat /\ DOMAIN file = 1..Len(file)
  BY LenProperties
<1>2. \A i \in 1..Len(file) : file[i] \in Entry
  BY ElementOfSeq
<1>3. \A i \in 1..Len(file) :
         t[i] \in Entry /\ t[i].id = file[i].id /\ (t[i] = file[i] \/ t[i] = e)
  BY <1>1, <1>2 DEF Updated
<1>4. t \in [1..Len(file) -> Entry]
  BY <1>1, <1>2 DEF Updated
<1>5. t \in Seq(Entry) /\ Len(t) = Len(file) /\ DOMAIN t = DOMAIN file
  <2> HIDE DEF t
  <2> QED BY <1>1, <1>4, LenProperties, SeqDef
<1>6. IdsOf(t) = IdsOf(file)
  <2> HIDE DEF t
  <2> QED BY <1>1, <1>3, <1>5 DEF IdsOf
<1>7. Similar(t, file, e.id)
  <2> HIDE DEF t
  <2>1. ASSUME NEW i \in 1..Len(file)
        PROVE  t[i] = file[i] \/ (t[i].id = e.id /\ file[i].id = e.id)
    BY <1>3, <2>1
  <2> QED BY <1>5, <2>1 DEF Similar
<1> HIDE DEF t
<1>8. Others(t, e.id) = Others(file, e.id)
  BY <1>5, <1>7, SimilarHaveTheSameOthers
<1> QED BY <1>5, <1>6, <1>8 DEF t

LEMMA RenamedProperties ==
    ASSUME file \in Seq(Entry), NEW old \in Groups, NEW new \in Groups
    PROVE  /\ Renamed(old, new) \in Seq(Entry)
           /\ IdsOf(Renamed(old, new)) = IdsOf(file)
<1> DEFINE t == Renamed(old, new)
<1>1. Len(file) \in Nat /\ DOMAIN file = 1..Len(file)
  BY LenProperties
<1>2. \A i \in 1..Len(file) : file[i] \in Entry
  BY ElementOfSeq
<1>3. \A i \in 1..Len(file) : t[i] \in Entry /\ t[i].id = file[i].id
  BY <1>1, <1>2 DEF Renamed, Entry
<1>4. t \in [1..Len(file) -> Entry]
  <2>1. t = [i \in 1..Len(file) |-> t[i]]
    BY <1>1 DEF Renamed
  <2> HIDE DEF t
  <2> QED BY <1>3, <2>1
<1> HIDE DEF t
<1>5. t \in Seq(Entry) /\ DOMAIN t = DOMAIN file
  BY <1>1, <1>4, SeqDef
<1>6. IdsOf(t) = IdsOf(file)
  BY <1>1, <1>3, <1>5 DEF IdsOf
<1> QED BY <1>5, <1>6 DEF t

(* Moving the entries without a group to no group changes nothing.         *)
LEMMA UnchangedIsRenamed ==
    ASSUME file \in Seq(Entry), file' = file
    PROVE  file' = Renamed(Ungrouped, Ungrouped)
<1>1. Len(file) \in Nat /\ DOMAIN file = 1..Len(file) /\ file = [i \in DOMAIN file |-> file[i]]
  BY LenProperties, SeqDef
<1>2. ASSUME NEW i \in DOMAIN file
      PROVE  file[i] = IF file[i].group = Ungrouped
                       THEN [file[i] EXCEPT !.group = Ungrouped] ELSE file[i]
  <2>1. file[i] \in Entry
    BY <1>1, ElementOfSeq
  <2> QED BY <2>1 DEF Entry
<1> QED BY <1>1, <1>2 DEF Renamed

LEMMA RemovedProperties ==
    ASSUME file \in Seq(Entry), NEW id
    PROVE  /\ Removed(id) \in Seq(Entry)
           /\ IdsOf(Removed(id)) = IdsOf(file) \ {id}
           /\ Others(Removed(id), id) = Others(file, id)
BY OthersProperties DEF Removed

-----------------------------------------------------------------------------
(* One lemma per kind of step: what it leaves in the file, the list and    *)
(* the two selections.                                                     *)

(* The state after a call, as far as the theorems are about it.            *)
Agree ==
    /\ TypeOK
    /\ ListShowsFile
    /\ SelectionIsRemembered

(* A change of the file that only touches the entries of one id, or moves  *)
(* a group.                                                                *)
KeepsOthers ==
    file # None =>
       \/ \E id \in Ids : Others(file', id) = Others(file, id)
       \/ \E old, new \in Groups : file' = Renamed(old, new)

(* A change after which the selection names an entry if it did before.     *)
KeepsSelection ==
    up /\ up' /\ selected \in IdsOf(Loaded) =>
       selected' \in IdsOf(Loaded') \cup {None}

LEMMA FileIsNotNone ==
    ASSUME NEW s \in Seq(Entry)
    PROVE  s # None
BY StoreAssumption DEF Entry

LEMMA KnownFile ==
    ASSUME TypeOK, file # None
    PROVE  file \in Seq(Entry) /\ Loaded = file
BY DEF TypeOK, Loaded

(* The file stays as it is.                                                *)
LEMMA FileStays ==
    ASSUME TypeOK, file' = file
    PROVE  KeepsOthers /\ Loaded' = Loaded
<1>1. Loaded' = Loaded
  BY DEF Loaded
<1>2. KeepsOthers
  <2> SUFFICES ASSUME file # None PROVE file' = Renamed(Ungrouped, Ungrouped)
    BY StoreAssumption DEF KeepsOthers
  <2> QED BY KnownFile, UnchangedIsRenamed
<1> QED BY <1>1, <1>2

LEMMA SelectStep ==
    ASSUME Agree, NEW id \in Ids, SetSelectedConfigId(id)
    PROVE  Agree' /\ KeepsOthers /\ KeepsSelection
<1>1. /\ up /\ id \in IdsOf(list) /\ selected' = id /\ remembered' = id
      /\ file' = file /\ up' = up /\ list' = list
  BY DEF SetSelectedConfigId, Select
<1>2. KeepsOthers /\ Loaded' = Loaded
  BY <1>1, FileStays DEF Agree
<1>3. list = Loaded
  BY <1>1 DEF Agree, ListShowsFile
<1>4. KeepsSelection
  BY <1>1, <1>2, <1>3 DEF KeepsSelection
<1>5. TypeOK'
  BY <1>1 DEF Agree, TypeOK
<1> QED BY <1>1, <1>2, <1>3, <1>4, <1>5 DEF Agree, ListShowsFile, SelectionIsRemembered

(* add(), of an entry that is new or not.                                  *)
LEMMA AddStep ==
    ASSUME Agree, NEW e \in Entry, NEW saves \in BOOLEAN, Add(e, saves)
    PROVE  Agree' /\ KeepsOthers /\ KeepsSelection
<1>1. up /\ up' = up /\ list = Loaded /\ selected = remembered /\ TypeOK
  BY DEF Add, Agree, ListShowsFile, SelectionIsRemembered
<1>2. CASE saves
  <2>1. file' = Added(e) /\ list' = Added(e) /\ selected' = e.id /\ remembered' = e.id
    BY <1>2 DEF Add, Save, Select
  <2>2. /\ Added(e) \in Seq(Entry) /\ IdsOf(Added(e)) = IdsOf(Loaded) \cup {e.id}
        /\ Others(Added(e), e.id) = Others(Loaded, e.id) /\ e.id \in Ids
    BY <1>1, AddedProperties DEF Entry
  <2>3. Loaded' = file'
    BY <2>1, <2>2, FileIsNotNone DEF Loaded
  <2>4. KeepsOthers
    BY <1>1, <2>1, <2>2, KnownFile DEF KeepsOthers
  <2>5. KeepsSelection
    BY <2>1, <2>2, <2>3 DEF KeepsSelection
  <2>6. TypeOK'
    BY <1>1, <2>1, <2>2 DEF TypeOK
  <2> QED BY <2>1, <2>3, <2>4, <2>5, <2>6 DEF Agree, ListShowsFile, SelectionIsRemembered
<1>3. CASE ~saves
  <2>1. UNCHANGED vars
    BY <1>1, <1>3 DEF Add, Save, vars
  <2>2. KeepsOthers /\ Loaded' = Loaded
    BY <1>1, <2>1, FileStays DEF vars
  <2> QED BY <1>1, <2>1, <2>2
          DEF vars, Agree, TypeOK, ListShowsFile, SelectionIsRemembered, KeepsSelection
<1> QED BY <1>2, <1>3

(* saveConfig() of an edited entry.                                        *)
LEMMA SaveStep ==
    ASSUME Agree, NEW e \in Entry, NEW saves \in BOOLEAN, SaveConfig(e, saves)
    PROVE  Agree' /\ KeepsOthers /\ KeepsSelection
<1>1. /\ up /\ up' = up /\ list = Loaded /\ selected = remembered /\ TypeOK
      /\ selected' = selected /\ remembered' = remembered
      /\ file \in Seq(Entry) /\ Loaded = file
  BY KnownFile DEF SaveConfig, Agree, ListShowsFile, SelectionIsRemembered
<1>2. CASE saves
  <2>1. file' = Updated(e) /\ list' = Updated(e)
    BY <1>2 DEF SaveConfig, Save
  <2>2. /\ Updated(e) \in Seq(Entry) /\ IdsOf(Updated(e)) = IdsOf(file)
        /\ Others(Updated(e), e.id) = Others(file, e.id) /\ e.id \in Ids
    BY <1>1, UpdatedProperties DEF Entry
  <2>3. Loaded' = file'
    BY <2>1, <2>2, FileIsNotNone DEF Loaded
  <2>4. KeepsOthers
    BY <2>1, <2>2 DEF KeepsOthers
  <2>5. KeepsSelection
    BY <1>1, <2>1, <2>2, <2>3 DEF KeepsSelection
  <2>6. TypeOK'
    BY <1>1, <2>1, <2>2 DEF TypeOK
  <2> QED BY <1>1, <2>1, <2>3, <2>4, <2>5, <2>6 DEF Agree, ListShowsFile, SelectionIsRemembered
<1>3. CASE ~saves
  <2>1. UNCHANGED vars
    BY <1>1, <1>3 DEF SaveConfig, Save, vars
  <2>2. KeepsOthers /\ Loaded' = Loaded
    BY <1>1, <2>1, FileStays DEF vars
  <2> QED BY <1>1, <2>1, <2>2
          DEF vars, Agree, TypeOK, ListShowsFile, SelectionIsRemembered, KeepsSelection
<1> QED BY <1>2, <1>3

(* deleteConfig(): the selections agree although each of the repository    *)
(* and the controller clears one, and one of them may not have saved.      *)
LEMMA DeleteStep ==
    ASSUME Agree, NEW id \in Ids, NEW saves \in BOOLEAN, DeleteConfig(id, saves)
    PROVE  Agree' /\ KeepsOthers /\ KeepsSelection
<1>1. /\ up /\ up' = up /\ list = Loaded /\ selected = remembered /\ TypeOK
      /\ file \in Seq(Entry) /\ Loaded = file
  BY KnownFile DEF DeleteConfig, Agree, ListShowsFile, SelectionIsRemembered
<1>2. selected' = remembered' /\ selected' = IF selected = id THEN None ELSE selected
  BY <1>1 DEF DeleteConfig, Select
<1>3. CASE saves
  <2>1. file' = Removed(id) /\ list' = Removed(id)
    BY <1>3 DEF DeleteConfig, Save
  <2>2. /\ Removed(id) \in Seq(Entry) /\ IdsOf(Removed(id)) = IdsOf(file) \ {id}
        /\ Others(Removed(id), id) = Others(file, id)
    BY <1>1, RemovedProperties
  <2>3. Loaded' = file'
    BY <2>1, <2>2, FileIsNotNone DEF Loaded
  <2>4. KeepsOthers
    BY <2>1, <2>2 DEF KeepsOthers
  <2>5. KeepsSelection
    BY <1>1, <1>2, <2>1, <2>2, <2>3 DEF KeepsSelection
  <2>6. TypeOK'
    BY <1>1, <1>2, <2>1, <2>2 DEF TypeOK
  <2> QED BY <1>1, <1>2, <2>1, <2>3, <2>4, <2>5, <2>6
          DEF Agree, ListShowsFile, SelectionIsRemembered
<1>4. CASE ~saves
  <2>1. file' = file /\ list' = list
    BY <1>4 DEF DeleteConfig, Save
  <2>2. KeepsOthers /\ Loaded' = Loaded
    BY <1>1, <2>1, FileStays
  <2>3. KeepsSelection
    BY <1>2, <2>2 DEF KeepsSelection
  <2>4. TypeOK'
    BY <1>1, <1>2, <2>1 DEF TypeOK
  <2> QED BY <1>1, <1>2, <2>1, <2>2, <2>3, <2>4 DEF Agree, ListShowsFile, SelectionIsRemembered
<1> QED BY <1>3, <1>4

LEMMA RenameStep ==
    ASSUME Agree, NEW old \in Groups, NEW new \in Groups, NEW saves \in BOOLEAN,
           RenameGroup(old, new, saves)
    PROVE  Agree' /\ KeepsOthers /\ KeepsSelection
<1>1. /\ up /\ up' = up /\ list = Loaded /\ selected = remembered /\ TypeOK
      /\ selected' = selected /\ remembered' = remembered
      /\ file \in Seq(Entry) /\ Loaded = file
  BY KnownFile DEF RenameGroup, Agree, ListShowsFile, SelectionIsRemembered
<1>2. CASE saves
  <2>1. file' = Renamed(old, new) /\ list' = Renamed(old, new)
    BY <1>2 DEF RenameGroup, Save
  <2>2. Renamed(old, new) \in Seq(Entry) /\ IdsOf(Renamed(old, new)) = IdsOf(file)
    BY <1>1, RenamedProperties
  <2>3. Loaded' = file'
    BY <2>1, <2>2, FileIsNotNone DEF Loaded
  <2>4. KeepsOthers
    BY <2>1 DEF KeepsOthers
  <2>5. KeepsSelection
    BY <1>1, <2>1, <2>2, <2>3 DEF KeepsSelection
  <2>6. TypeOK'
    BY <1>1, <2>1, <2>2 DEF TypeOK
  <2> QED BY <1>1, <2>1, <2>3, <2>4, <2>5, <2>6 DEF Agree, ListShowsFile, SelectionIsRemembered
<1>3. CASE ~saves
  <2>1. UNCHANGED vars
    BY <1>1, <1>3 DEF RenameGroup, Save, vars
  <2>2. KeepsOthers /\ Loaded' = Loaded
    BY <1>1, <2>1, FileStays DEF vars
  <2> QED BY <1>1, <2>1, <2>2
          DEF vars, Agree, TypeOK, ListShowsFile, SelectionIsRemembered, KeepsSelection
<1> QED BY <1>2, <1>3

LEMMA StartStep ==
    ASSUME Agree, StartProgram
    PROVE  Agree' /\ KeepsOthers /\ KeepsSelection
<1>1. /\ ~up /\ up' = TRUE /\ list' = Loaded /\ selected' = remembered
      /\ file' = file /\ remembered' = remembered /\ TypeOK
  BY DEF StartProgram, Agree
<1>2. KeepsOthers /\ Loaded' = Loaded
  BY <1>1, FileStays
<1>3. Loaded \in Seq(Entry)
  BY <1>1, EmptySeq DEF TypeOK, Loaded
<1>4. TypeOK'
  BY <1>1, <1>3 DEF TypeOK
<1> QED BY <1>1, <1>2, <1>4 DEF Agree, ListShowsFile, SelectionIsRemembered, KeepsSelection

(* The end of the program, whatever it had committed to the file.          *)
LEMMA EndStep ==
    ASSUME Agree, EndProgram \/ KilledAfterSave
    PROVE  Agree' /\ KeepsOthers /\ KeepsSelection
<1>1. /\ up /\ up' = FALSE /\ list' = <<>> /\ selected' = None /\ remembered' = remembered
      /\ TypeOK /\ list = Loaded
  BY DEF EndProgram, KilledAfterSave, Ends, Agree, ListShowsFile
<1>2. <<>> \in Seq(Entry)
  BY EmptySeq
<1>3. KeepsSelection
  BY <1>1 DEF KeepsSelection
<1>4. KeepsOthers /\ file' \in Seq(Entry) \cup {None}
  <2>1. CASE file' = file
    BY <1>1, <2>1, FileStays DEF TypeOK
  <2>2. ASSUME NEW e \in Entry, file' = Added(e)
        PROVE  KeepsOthers /\ file' \in Seq(Entry)
    <3>1. e.id \in Ids
      BY DEF Entry
    <3> QED BY <1>1, <2>2, <3>1, AddedProperties, KnownFile DEF KeepsOthers
  <2>3. ASSUME NEW id \in IdsOf(list), file # None, file' = Removed(id)
        PROVE  KeepsOthers /\ file' \in Seq(Entry)
    <3>1. file \in Seq(Entry) /\ list = file
      BY <1>1, <2>3, KnownFile
    <3>2. id \in Ids
      <4>1. PICK i \in DOMAIN file : file[i].id = id
        BY <3>1 DEF IdsOf
      <4>2. file[i] \in Entry
        BY <3>1, <4>1, ElementOfSeq, LenProperties
      <4> QED BY <4>1, <4>2 DEF Entry
    <3> QED BY <2>3, <3>1, <3>2, RemovedProperties DEF KeepsOthers
  <2> QED BY <2>1, <2>2, <2>3 DEF EndProgram, KilledAfterSave
<1>5. TypeOK'
  BY <1>1, <1>2, <1>4 DEF TypeOK
<1> QED BY <1>1, <1>3, <1>4, <1>5 DEF Agree, ListShowsFile, SelectionIsRemembered

LEMMA EveryStep ==
    ASSUME Agree, [Next]_vars
    PROVE  Agree' /\ KeepsOthers /\ KeepsSelection
<1>1. ASSUME UserCall
      PROVE  Agree' /\ KeepsOthers /\ KeepsSelection
  <2>1. ASSUME NEW e \in Entry, NEW saves \in BOOLEAN,
               SaveNewConfig(e, saves) \/ AddConfigFromImport(e, saves)
        PROVE  Add(e, saves)
    BY <2>1 DEF SaveNewConfig, AddConfigFromImport
  <2> QED BY <1>1, <2>1, SelectStep, AddStep, SaveStep, DeleteStep, RenameStep DEF UserCall
<1>2. ASSUME UNCHANGED vars
      PROVE  Agree' /\ KeepsOthers /\ KeepsSelection
  <2>1. file' = file /\ TypeOK
    BY <1>2 DEF vars, Agree
  <2>2. KeepsOthers /\ Loaded' = Loaded
    BY <2>1, FileStays
  <2> QED BY <1>2, <2>1, <2>2
          DEF vars, Agree, TypeOK, ListShowsFile, SelectionIsRemembered, KeepsSelection
<1> QED BY <1>1, <1>2, StartStep, EndStep DEF Next

LEMMA AgreeAtFirst ==
    ASSUME Init
    PROVE  Agree
<1>1. file \in Seq(Entry) \cup {None}
  <2>1. ASSUME NEW n \in 0..2
        PROVE  [1..n -> Entry] \subseteq Seq(Entry)
    BY SeqDef
  <2> QED BY <2>1 DEF Init
<1> QED BY <1>1, EmptySeq DEF Init, Agree, TypeOK, ListShowsFile, SelectionIsRemembered

LEMMA AlwaysAgree == Spec => []Agree
<1>1. Agree /\ [Next]_vars => Agree'
  BY EveryStep
<1> QED BY <1>1, AgreeAtFirst, PTL DEF Spec

-----------------------------------------------------------------------------
(* The theorems.                                                           *)

(* TypeOK: the file is a list of entries or none at all, and the list, the *)
(* selections and the program's state are what their declarations say.     *)
THEOREM TypeCorrect == Spec => []TypeOK
BY AlwaysAgree, PTL DEF Agree

(* ListShowsFile: while the program runs, the list shows what the file     *)
(* holds, whichever call failed to save.                                   *)
THEOREM ListIsFile == Spec => []ListShowsFile
BY AlwaysAgree, PTL DEF Agree

(* SelectionIsRemembered: the controller's selection and the one in the    *)
(* settings are the same, although two places clear them.                  *)
THEOREM SelectionsAgree == Spec => []SelectionIsRemembered
BY AlwaysAgree, PTL DEF Agree

(* SelectionStays: no call leaves the controller with the id of an entry   *)
(* that is gone, if it had the id of one that is there.                    *)
THEOREM SelectionNeverDangles == Spec => SelectionStays
<1>1. Agree /\ [Next]_vars => KeepsSelection
  BY EveryStep
<1>2. Agree /\ [Next]_vars =>
         [up /\ up' /\ selected \in IdsOf(Loaded) =>
            selected' \in IdsOf(Loaded') \cup {None}]_vars
  BY <1>1 DEF KeepsSelection
<1> QED BY <1>2, AlwaysAgree, PTL DEF Spec, SelectionStays

(* OthersKept: a call, and a crash within one, only touches the entries of *)
(* one id or moves a group, in files of any length with any repeated ids.  *)
THEOREM OthersAreKept == Spec => OthersKept
<1>1. Agree /\ [Next]_vars => KeepsOthers
  BY EveryStep
<1>2. Agree /\ [Next]_vars =>
         [file # None =>
            \/ \E id \in Ids : Others(file', id) = Others(file, id)
            \/ \E old, new \in Groups : file' = Renamed(old, new)]_vars
  BY <1>1 DEF KeepsOthers
<1> QED BY <1>2, AlwaysAgree, PTL DEF Spec, OthersKept
=============================================================================
