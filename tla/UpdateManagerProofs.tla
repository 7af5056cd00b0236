------------------------- MODULE UpdateManagerProofs -------------------------
(***************************************************************************)
(* What UpdateManager and the flags of the controller guarantee for every  *)
(* number of versions and of version workers; and that compareVersions()   *)
(* orders versions without cycles, and as Semantic Versioning does, for    *)
(* every set of identifiers of which the words do not begin with a digit.  *)
(***************************************************************************)
EXTENDS UpdateManager, VersionOrder, SequenceTheorems, TLAPS

-----------------------------------------------------------------------------
(* compareVersions().                                                      *)

(* Identifiers are ordered, by one order, although numbers are compared in *)
(* two ways.                                                               *)
LEMMA IdentifierOrder ==
    ASSUME NEW x \in Identifiers, NEW y \in Identifiers, NEW z \in Identifiers
    PROVE  /\ ~(Before(x, y) /\ Before(y, x))
           /\ Before(x, y) /\ Before(y, z) => Before(x, z)
           /\ Alike(x, y) /\ Alike(y, z) => Alike(x, z)
           /\ Alike(x, y) /\ Before(y, z) => Before(x, z)
           /\ Before(x, y) /\ Alike(y, z) => Before(x, z)
<1>1. /\ x.text \in Int /\ y.text \in Int /\ z.text \in Int
      /\ x.value \in Int \cup {NaN} /\ y.value \in Int \cup {NaN} /\ z.value \in Int \cup {NaN}
  BY IdentifierAssumption DEF Identifier
<1>2. \A v, w \in {x, y, z} : v.value # NaN /\ w.value = NaN => v.text < w.text
  BY IdentifierAssumption
<1> QED
  BY <1>1, <1>2, IdentifierAssumption DEF Before, Alike

(* The first two that differ are at i.                                     *)
FirstAt(s, t, i) == Before(s[i], t[i]) /\ \A j \in 1..(i - 1) : Alike(s[j], t[j])

Named(s, n) == \A i \in 1..n : s[i] \in Identifiers

(* Two first differences, and a difference behind a common beginning.      *)
LEMMA FirstDifferences ==
    ASSUME NEW s, NEW t, NEW u, NEW i \in Nat \ {0}, NEW j \in Nat \ {0},
           NEW k \in Nat \ {0}, k = IF i <= j THEN i ELSE j,
           Named(s, k), Named(t, k), Named(u, k)
    PROVE  /\ FirstAt(s, t, i) /\ FirstAt(t, u, j) => FirstAt(s, u, k)
           /\ ~(FirstAt(s, t, i) /\ FirstAt(t, s, j))
<1>1. \A m \in 1..k : s[m] \in Identifiers /\ t[m] \in Identifiers /\ u[m] \in Identifiers
  BY DEF Named
<1>2. k \in 1..k /\ 1..(k - 1) \subseteq 1..k
  OBVIOUS
<1>3. ASSUME FirstAt(s, t, i), FirstAt(t, u, j)
      PROVE  FirstAt(s, u, k)
  <2>1. \A m \in 1..(k - 1) : Alike(s[m], t[m]) /\ Alike(t[m], u[m])
    BY <1>3 DEF FirstAt
  <2>2. \A m \in 1..(k - 1) : Alike(s[m], u[m])
    BY <2>1, <1>1, <1>2, IdentifierOrder
  <2>3. \/ Before(s[k], t[k]) /\ Before(t[k], u[k])
        \/ Before(s[k], t[k]) /\ Alike(t[k], u[k])
        \/ Alike(s[k], t[k]) /\ Before(t[k], u[k])
    <3>1. CASE i = j BY <3>1, <1>3 DEF FirstAt
    <3>2. CASE i < j
      <4>1. k = i /\ i \in 1..(j - 1)
        BY <3>2
      <4> QED BY <4>1, <1>3 DEF FirstAt
    <3>3. CASE j < i
      <4>1. k = j /\ j \in 1..(i - 1)
        BY <3>3
      <4> QED BY <4>1, <1>3 DEF FirstAt
    <3> QED BY <3>1, <3>2, <3>3
  <2>4. Before(s[k], u[k])
    BY <2>3, <1>1, <1>2, IdentifierOrder
  <2> QED BY <2>2, <2>4 DEF FirstAt
<1>4. ~(FirstAt(s, t, i) /\ FirstAt(t, s, j))
  <2> SUFFICES ASSUME FirstAt(s, t, i), FirstAt(t, s, j) PROVE FALSE
    OBVIOUS
  <2>1. CASE i = j
    BY <2>1, <1>1, <1>2, IdentifierOrder DEF FirstAt
  <2>2. CASE i < j
    <3>1. i \in 1..(j - 1)
      BY <2>2
    <3> QED BY <3>1 DEF FirstAt, Alike
  <2>3. CASE j < i
    <3>1. j \in 1..(i - 1)
      BY <2>3
    <3> QED BY <3>1 DEF FirstAt, Alike
  <2> QED BY <2>1, <2>2, <2>3
<1> QED BY <1>3, <1>4

(* A first difference on either side of a common beginning stays where it  *)
(* is, and excludes that the lists are alike.                              *)
LEMMA DifferenceAndAlike ==
    ASSUME NEW s, NEW t, NEW u, NEW i \in Nat \ {0},
           Named(s, i), Named(t, i), Named(u, i)
    PROVE  /\ FirstAt(s, t, i) /\ AlikeIn(t, u, i) => FirstAt(s, u, i)
           /\ AlikeIn(s, t, i) /\ FirstAt(t, u, i) => FirstAt(s, u, i)
           /\ ~(AlikeIn(s, t, i) /\ FirstAt(s, t, i))
           /\ ~(AlikeIn(s, t, i) /\ FirstAt(t, s, i))
<1>1. \A m \in 1..i : s[m] \in Identifiers /\ t[m] \in Identifiers /\ u[m] \in Identifiers
  BY DEF Named
<1>2. i \in 1..i /\ 1..(i - 1) \subseteq 1..i
  OBVIOUS
<1>3. ASSUME FirstAt(s, t, i), AlikeIn(t, u, i) PROVE FirstAt(s, u, i)
  <2>1. Before(s[i], u[i])
    BY <1>3, <1>1, <1>2, IdentifierOrder DEF FirstAt, AlikeIn
  <2>2. \A m \in 1..(i - 1) : Alike(s[m], t[m]) /\ Alike(t[m], u[m])
    BY <1>3, <1>2 DEF FirstAt, AlikeIn
  <2>3. \A m \in 1..(i - 1) : Alike(s[m], u[m])
    BY <2>2, <1>1, <1>2, IdentifierOrder
  <2> QED BY <2>1, <2>3 DEF FirstAt
<1>4. ASSUME AlikeIn(s, t, i), FirstAt(t, u, i) PROVE FirstAt(s, u, i)
  <2>1. Before(s[i], u[i])
    BY <1>4, <1>1, <1>2, IdentifierOrder DEF FirstAt, AlikeIn
  <2>2. \A m \in 1..(i - 1) : Alike(s[m], t[m]) /\ Alike(t[m], u[m])
    BY <1>4, <1>2 DEF FirstAt, AlikeIn
  <2>3. \A m \in 1..(i - 1) : Alike(s[m], u[m])
    BY <2>2, <1>1, <1>2, IdentifierOrder
  <2> QED BY <2>1, <2>3 DEF FirstAt
<1>5. AlikeIn(s, t, i) => ~FirstAt(s, t, i) /\ ~FirstAt(t, s, i)
  BY <1>2 DEF FirstAt, AlikeIn, Alike
<1> QED BY <1>3, <1>4, <1>5

(* Lists of n identifiers are ordered.                                     *)
LEMMA ListOrder ==
    ASSUME NEW s, NEW t, NEW u, NEW n \in Nat, Named(s, n), Named(t, n), Named(u, n)
    PROVE  /\ BeforeIn(s, t, n) /\ BeforeIn(t, u, n) => BeforeIn(s, u, n)
           /\ BeforeIn(s, t, n) /\ AlikeIn(t, u, n) => BeforeIn(s, u, n)
           /\ AlikeIn(s, t, n) /\ BeforeIn(t, u, n) => BeforeIn(s, u, n)
           /\ AlikeIn(s, t, n) /\ AlikeIn(t, u, n) => AlikeIn(s, u, n)
           /\ ~(BeforeIn(s, t, n) /\ BeforeIn(t, s, n))
           /\ ~(AlikeIn(s, t, n) /\ (BeforeIn(s, t, n) \/ BeforeIn(t, s, n)))
<1> DEFINE B(v, w) == \E i \in 1..n : FirstAt(v, w, i)
<1>1. \A v, w : BeforeIn(v, w, n) <=> B(v, w)
  BY DEF BeforeIn, FirstAt
<1>2. \A i \in 1..n : /\ i \in Nat \ {0}
                     /\ Named(s, i) /\ Named(t, i) /\ Named(u, i)
                     /\ \A v, w : AlikeIn(v, w, n) => AlikeIn(v, w, i)
  BY DEF Named, AlikeIn
<1>3. ASSUME B(s, t), B(t, u) PROVE B(s, u)
  <2>1. PICK i \in 1..n : FirstAt(s, t, i)
    BY <1>3
  <2>2. PICK j \in 1..n : FirstAt(t, u, j)
    BY <1>3
  <2> DEFINE k == IF i <= j THEN i ELSE j
  <2>3. k \in 1..n
    OBVIOUS
  <2>4. FirstAt(s, u, k)
    <3> HIDE DEF k
    <3> QED BY <2>1, <2>2, <2>3, <1>2, FirstDifferences DEF k
  <2> QED BY <2>3, <2>4
<1>4. B(s, t) /\ AlikeIn(t, u, n) => B(s, u)
  BY <1>2, DifferenceAndAlike
<1>5. AlikeIn(s, t, n) /\ B(t, u) => B(s, u)
  BY <1>2, DifferenceAndAlike
<1>6. AlikeIn(s, t, n) /\ AlikeIn(t, u, n) => AlikeIn(s, u, n)
  BY IdentifierOrder DEF AlikeIn, Named
<1>7. ~(B(s, t) /\ B(t, s))
  <2> SUFFICES ASSUME B(s, t), B(t, s) PROVE FALSE
    OBVIOUS
  <2>1. PICK i \in 1..n : FirstAt(s, t, i)
    OBVIOUS
  <2>2. PICK j \in 1..n : FirstAt(t, s, j)
    OBVIOUS
  <2> DEFINE k == IF i <= j THEN i ELSE j
  <2>3. k \in 1..n
    OBVIOUS
  <2> HIDE DEF k
  <2> QED BY <2>1, <2>2, <2>3, <1>2, FirstDifferences DEF k
<1>8. ~(AlikeIn(s, t, n) /\ (B(s, t) \/ B(t, s)))
  BY <1>2, DifferenceAndAlike
<1> HIDE DEF B
<1> QED BY <1>1, <1>3, <1>4, <1>5, <1>6, <1>7, <1>8

(* Pre-releases are ordered, although only as many identifiers are         *)
(* compared as both have.                                                  *)
LEMMA PreReleaseOrder ==
    ASSUME NEW s \in Seq(Identifiers), NEW t \in Seq(Identifiers), NEW u \in Seq(Identifiers)
    PROVE  /\ PreReleaseOlder(s, t) /\ PreReleaseOlder(t, u) => PreReleaseOlder(s, u)
           /\ ~(PreReleaseOlder(s, t) /\ PreReleaseOlder(t, s))
<1> DEFINE Prefix(v, w) == AlikeIn(v, w, Len(v)) /\ Len(v) < Len(w)
           Both(v, w) == 1..Len(v) \cap 1..Len(w)
           Differ(v, w) == \E i \in Both(v, w) : FirstAt(v, w, i)
           Less(v, w) == Differ(v, w) \/ Prefix(v, w)
<1>1. \A v \in {s, t, u} : /\ Len(v) \in Nat
                           /\ v = <<>> <=> Len(v) = 0
                           /\ \A i \in 0..Len(v) : Named(v, i)
  BY DEF Named
<1>2. \A v, w \in {s, t, u} :
         PreReleaseOlder(v, w) <=> IF v = <<>> \/ w = <<>> THEN v # <<>> /\ w = <<>>
                                                         ELSE Less(v, w)
  <2> SUFFICES ASSUME NEW v \in {s, t, u}, NEW w \in {s, t, u}
               PROVE  PreReleaseOlder(v, w)
                        <=> IF v = <<>> \/ w = <<>> THEN v # <<>> /\ w = <<>>
                                                   ELSE Less(v, w)
    OBVIOUS
  <2>1. Both(v, w) = 1..Shorter(v, w) /\ Len(v) \in Nat /\ Len(w) \in Nat
    BY <1>1 DEF Shorter
  <2>2. BeforeIn(v, w, Shorter(v, w)) <=> Differ(v, w)
    BY <2>1 DEF BeforeIn, FirstAt
  <2>3. AlikeIn(v, w, Shorter(v, w)) /\ Len(v) < Len(w) <=> Prefix(v, w)
    BY <2>1 DEF Shorter
  <2> QED BY <2>2, <2>3 DEF PreReleaseOlder
<1>3. ASSUME Less(s, t), Less(t, u) PROVE Less(s, u)
  <2>1. CASE Differ(s, t) /\ Differ(t, u)
    <3>1. PICK i \in Both(s, t) : FirstAt(s, t, i)
      BY <2>1
    <3>2. PICK j \in Both(t, u) : FirstAt(t, u, j)
      BY <2>1
    <3> DEFINE k == IF i <= j THEN i ELSE j
    <3>3. k \in Both(s, u) /\ k \in Both(t, t)
      BY <1>1
    <3>4. Named(s, k) /\ Named(t, k) /\ Named(u, k)
      BY <3>3, <1>1
    <3>5. FirstAt(s, u, k)
      <4> HIDE DEF k
      <4>1. i \in Nat \ {0} /\ j \in Nat \ {0} /\ k \in Nat \ {0}
        BY <1>1 DEF k
      <4> QED BY <3>1, <3>2, <3>4, <4>1, FirstDifferences DEF k
    <3> QED BY <3>3, <3>5
  <2>2. CASE Differ(s, t) /\ Prefix(t, u)
    <3>1. PICK i \in Both(s, t) : FirstAt(s, t, i)
      BY <2>2
    <3>2. /\ i \in Nat \ {0} /\ i \in Both(s, u) /\ AlikeIn(t, u, i)
          /\ Named(s, i) /\ Named(t, i) /\ Named(u, i)
      BY <2>2, <1>1 DEF AlikeIn
    <3> QED BY <3>1, <3>2, DifferenceAndAlike
  <2>3. CASE Prefix(s, t) /\ Differ(t, u)
    <3>1. PICK j \in Both(t, u) : FirstAt(t, u, j)
      BY <2>3
    <3>2. CASE j <= Len(s)
      <4>1. /\ j \in Nat \ {0} /\ j \in Both(s, u) /\ AlikeIn(s, t, j)
            /\ Named(s, j) /\ Named(t, j) /\ Named(u, j)
        BY <2>3, <3>2, <1>1 DEF AlikeIn
      <4> QED BY <3>1, <4>1, DifferenceAndAlike
    <3>3. CASE Len(s) < j
      <4>1. \A m \in 1..Len(s) : Alike(s[m], t[m]) /\ Alike(t[m], u[m])
        BY <2>3, <3>1, <3>3, <1>1 DEF AlikeIn, FirstAt
      <4>2. \A m \in 1..Len(s) : /\ s[m] \in Identifiers
                                 /\ t[m] \in Identifiers
                                 /\ u[m] \in Identifiers
        BY <2>3, <3>1, <3>3, <1>1
      <4>3. AlikeIn(s, u, Len(s))
        BY <4>1, <4>2, IdentifierOrder DEF AlikeIn
      <4> QED BY <4>3, <3>1, <3>3, <1>1
    <3> QED BY <3>2, <3>3, <1>1
  <2>4. CASE Prefix(s, t) /\ Prefix(t, u)
    <3>1. \A m \in 1..Len(s) : /\ Alike(s[m], t[m]) /\ Alike(t[m], u[m])
                               /\ s[m] \in Identifiers
                               /\ t[m] \in Identifiers
                               /\ u[m] \in Identifiers
      BY <2>4, <1>1 DEF AlikeIn
    <3>2. AlikeIn(s, u, Len(s))
      BY <3>1, IdentifierOrder DEF AlikeIn
    <3> QED BY <3>2, <2>4, <1>1
  <2> QED BY <1>3, <2>1, <2>2, <2>3, <2>4
<1>4. ~(Less(s, t) /\ Less(t, s))
  <2>1. ~(Differ(s, t) /\ Differ(t, s))
    <3> SUFFICES ASSUME Differ(s, t), Differ(t, s) PROVE FALSE
      OBVIOUS
    <3>1. PICK i \in Both(s, t) : FirstAt(s, t, i)
      OBVIOUS
    <3>2. PICK j \in Both(t, s) : FirstAt(t, s, j)
      OBVIOUS
    <3> DEFINE k == IF i <= j THEN i ELSE j
    <3>3. /\ i \in Nat \ {0} /\ j \in Nat \ {0} /\ k \in Nat \ {0}
          /\ Named(s, k) /\ Named(t, k)
      BY <1>1
    <3> HIDE DEF k
    <3> QED BY <3>1, <3>2, <3>3, FirstDifferences DEF k
  <2>2. \A v, w \in {s, t} : ~(Prefix(v, w) /\ (Differ(v, w) \/ Differ(w, v)))
    <3> SUFFICES ASSUME NEW v \in {s, t}, NEW w \in {s, t}, Prefix(v, w),
                        NEW i \in Both(v, w), FirstAt(v, w, i) \/ FirstAt(w, v, i)
                 PROVE  FALSE
      OBVIOUS
    <3>1. i \in Nat \ {0} /\ AlikeIn(v, w, i) /\ Named(v, i) /\ Named(w, i)
      BY <1>1 DEF AlikeIn
    <3> QED BY <3>1, DifferenceAndAlike
  <2>3. ~(Prefix(s, t) /\ Prefix(t, s))
    BY <1>1
  <2> QED BY <2>1, <2>2, <2>3
<1> HIDE DEF Less
<1> QED BY <1>2, <1>3, <1>4

LEMMA VersionsAreOrdered ==
    ASSUME NEW v \in Releases, NEW w \in Releases, NEW x \in Releases
    PROVE  /\ Older(v, w) /\ Older(w, x) => Older(v, x)
           /\ ~(Older(v, w) /\ Older(w, v))
<1>1. \A y \in {v, w, x} : y.pre \in Seq(Identifiers) /\ Named(Padded(y.main), 3)
  BY IdentifierAssumption DEF Version, Named, Padded
<1>2. \A y, z \in {v, w, x} :
         Older(y, z) <=> \/ BeforeIn(Padded(y.main), Padded(z.main), 3)
                         \/ /\ AlikeIn(Padded(y.main), Padded(z.main), 3)
                            /\ PreReleaseOlder(y.pre, z.pre)
  BY DEF Older
<1>3. \A y, z \in {v, w, x} :
         AlikeIn(Padded(y.main), Padded(z.main), 3) <=> AlikeIn(Padded(z.main), Padded(y.main), 3)
  BY DEF AlikeIn, Alike
<1> QED BY <1>1, <1>2, <1>3, ListOrder, PreReleaseOrder

-----------------------------------------------------------------------------
(* What is installed is the first version or newer.                        *)
ForwardOnly ==
    /\ current \in Releases /\ first \in Releases
    /\ current = first \/ Older(first, current)

LEMMA VersionsGoForward == OrderSpec => []ForwardOnly
<1>1. OrderInit => ForwardOnly
  BY DEF OrderInit, ForwardOnly
<1>2. ForwardOnly /\ [OrderNext]_orderVars => ForwardOnly'
  <2> SUFFICES ASSUME ForwardOnly, [OrderNext]_orderVars PROVE ForwardOnly'
    OBVIOUS
  <2>1. CASE UNCHANGED orderVars
    BY <2>1 DEF ForwardOnly, orderVars
  <2>2. ASSUME NEW latest \in Releases, Update(latest) PROVE ForwardOnly'
    BY <2>2, VersionsAreOrdered DEF ForwardOnly, Update
  <2>3. ASSUME NEW latest \in Releases, UpToDate(latest) PROVE ForwardOnly'
    BY <2>3 DEF ForwardOnly, UpToDate, orderVars
  <2> QED BY <2>1, <2>2, <2>3 DEF OrderNext
<1> QED BY <1>1, <1>2, PTL DEF OrderSpec

(* The program never offers to go back to a version it has left, however   *)
(* many updates were installed.                                            *)
THEOREM NeverBack == OrderSpec => []NoWayBack
<1>1. ForwardOnly => NoWayBack
  BY VersionsAreOrdered DEF ForwardOnly, NoWayBack
<1> QED BY <1>1, VersionsGoForward, PTL

-----------------------------------------------------------------------------
(* The order is that of Semantic Versioning, for versions written as it    *)
(* wants them: alike is equal then.                                        *)

Plain(used) ==
    /\ used \subseteq Identifiers
    /\ \A x, y \in used : x.value = y.value /\ x.value # NaN => x = y

LEMMA IdentifiersAgree ==
    ASSUME NEW used, Plain(used), NEW x \in used, NEW y \in used
    PROVE  /\ Before(x, y) <=> SemverBefore(x, y)
           /\ Alike(x, y) <=> x = y
<1>1. /\ x.text \in Int /\ y.text \in Int
      /\ x.value \in Int \cup {NaN} /\ y.value \in Int \cup {NaN}
  BY IdentifierAssumption DEF Identifier, Plain
<1>2. /\ x.value # NaN /\ y.value = NaN => x.text < y.text
      /\ y.value # NaN /\ x.value = NaN => y.text < x.text
      /\ x.text = y.text => x = y
  BY IdentifierAssumption DEF Plain
<1>3. x.value = y.value /\ x.value # NaN => x = y
  BY DEF Plain
<1>4. CASE x.value # NaN /\ y.value # NaN
  BY <1>1, <1>3, <1>4, IdentifierAssumption DEF Before, Alike, SemverBefore
<1>5. CASE x.value = NaN /\ y.value = NaN
  BY <1>1, <1>2, <1>5 DEF Before, Alike, SemverBefore
<1>6. CASE x.value # NaN /\ y.value = NaN
  BY <1>1, <1>2, <1>6 DEF Before, Alike, SemverBefore
<1>7. CASE x.value = NaN /\ y.value # NaN
  BY <1>1, <1>2, <1>7 DEF Before, Alike, SemverBefore
<1> QED BY <1>4, <1>5, <1>6, <1>7

(* Beginnings of the same length.                                          *)
LEMMA SameBeginning ==
    ASSUME NEW S, NEW s \in Seq(S), NEW t \in Seq(S), NEW k \in Nat, k <= Len(s), k <= Len(t)
    PROVE  SubSeq(s, 1, k) = SubSeq(t, 1, k) <=> \A i \in 1..k : s[i] = t[i]
<1>1. \A i \in 1..k : s[i] \in S /\ t[i] \in S
  BY LenProperties, ElementOfSeq
<1>2. /\ SubSeq(s, 1, k) \in Seq(S) /\ Len(SubSeq(s, 1, k)) = k
      /\ \A i \in 1..k : SubSeq(s, 1, k)[i] = s[i]
  BY <1>1, SubSeqProperties
<1>3. /\ SubSeq(t, 1, k) \in Seq(S) /\ Len(SubSeq(t, 1, k)) = k
      /\ \A i \in 1..k : SubSeq(t, 1, k)[i] = t[i]
  BY <1>1, SubSeqProperties
<1>4. ASSUME \A i \in 1..k : s[i] = t[i]
      PROVE  SubSeq(s, 1, k) = SubSeq(t, 1, k)
  BY <1>2, <1>3, <1>4, SeqEqual
<1> QED BY <1>2, <1>3, <1>4

LEMMA ListsAgree ==
    ASSUME NEW used, Plain(used), NEW s \in Seq(used), NEW t \in Seq(used)
    PROVE  /\ SemverListBefore(s, t)
                <=> \/ BeforeIn(s, t, Shorter(s, t))
                    \/ AlikeIn(s, t, Shorter(s, t)) /\ Len(s) < Len(t)
           /\ Len(s) = Len(t) => (AlikeIn(s, t, Len(s)) <=> s = t)
<1> DEFINE n == Shorter(s, t)
<1>1. Len(s) \in Nat /\ Len(t) \in Nat
  BY LenProperties
<1>2. n \in Nat /\ n <= Len(s) /\ n <= Len(t) /\ 1..Len(s) \cap 1..Len(t) = 1..n
  BY <1>1 DEF Shorter
<1> HIDE DEF n
<1>3. \A i \in 1..n : s[i] \in used /\ t[i] \in used
  BY <1>1, <1>2, ElementOfSeq
<1>4. ASSUME NEW i \in 1..n
      PROVE  /\ Before(s[i], t[i]) <=> SemverBefore(s[i], t[i])
             /\ Alike(s[i], t[i]) <=> s[i] = t[i]
  BY <1>3, IdentifiersAgree
<1>5. \A k \in 0..n : SubSeq(s, 1, k) = SubSeq(t, 1, k) <=> \A i \in 1..k : s[i] = t[i]
  <2> SUFFICES ASSUME NEW k \in 0..n
               PROVE  SubSeq(s, 1, k) = SubSeq(t, 1, k) <=> \A i \in 1..k : s[i] = t[i]
    OBVIOUS
  <2>1. k \in Nat /\ k <= Len(s) /\ k <= Len(t)
    BY <1>1, <1>2
  <2> QED BY <2>1, SameBeginning
<1>6. BeforeIn(s, t, n)
        <=> \E i \in 1..n : SemverBefore(s[i], t[i]) /\ SubSeq(s, 1, i - 1) = SubSeq(t, 1, i - 1)
  <2>1. ASSUME NEW i \in 1..n
        PROVE  SubSeq(s, 1, i - 1) = SubSeq(t, 1, i - 1)
                 <=> \A j \in 1..(i - 1) : Alike(s[j], t[j])
    <3>1. i - 1 \in 0..n /\ 1..(i - 1) \subseteq 1..n
      BY <1>2
    <3>2. ASSUME NEW j \in 1..(i - 1)
          PROVE  Alike(s[j], t[j]) <=> s[j] = t[j]
      <4>1. j \in 1..n
        BY <3>1
      <4> QED BY <1>4, <4>1, Zenon
    <3>3. SubSeq(s, 1, i - 1) = SubSeq(t, 1, i - 1) <=> \A j \in 1..(i - 1) : s[j] = t[j]
      BY <1>5, <3>1
    <3> QED BY <3>2, <3>3
  <2>2. ASSUME NEW i \in 1..n
        PROVE  Before(s[i], t[i]) /\ (\A j \in 1..(i - 1) : Alike(s[j], t[j]))
                 <=> /\ SemverBefore(s[i], t[i])
                     /\ SubSeq(s, 1, i - 1) = SubSeq(t, 1, i - 1)
    BY <1>4, <2>1, Zenon
  <2> QED BY <2>2, Zenon DEF BeforeIn
<1>7. ASSUME Len(s) <= Len(t)
      PROVE  SubSeq(t, 1, Len(s)) = s <=> AlikeIn(s, t, n)
  <2>1. n = Len(s) /\ SubSeq(s, 1, Len(s)) = s
    BY <1>1, <1>7, SubSeqFull DEF n, Shorter
  <2>2. SubSeq(s, 1, n) = SubSeq(t, 1, n) <=> \A i \in 1..n : s[i] = t[i]
    BY <1>2, <1>5
  <2>3. (\A i \in 1..n : s[i] = t[i]) <=> \A i \in 1..n : Alike(s[i], t[i])
    BY <1>4, Zenon
  <2> QED BY <2>1, <2>2, <2>3 DEF AlikeIn
<1>8. ASSUME Len(s) = Len(t)
      PROVE  AlikeIn(s, t, Len(s)) <=> s = t
  <2>1. n = Len(s) /\ SubSeq(t, 1, Len(s)) = t
    BY <1>1, <1>8, SubSeqFull DEF n, Shorter
  <2> QED BY <1>1, <1>7, <1>8, <2>1
<1>9. SemverListBefore(s, t) <=> BeforeIn(s, t, n) \/ (AlikeIn(s, t, n) /\ Len(s) < Len(t))
  BY <1>1, <1>2, <1>6, <1>7 DEF SemverListBefore
<1> QED BY <1>8, <1>9 DEF n

LEMMA VersionsAgree ==
    ASSUME NEW v \in Releases, NEW w \in Releases,
           Len(v.main) = 3, Len(w.main) = 3, WrittenAlike(v, w)
    PROVE  Older(v, w) <=> SemverOlder(v, w)
<1> DEFINE used == UNION {Range(v.main), Range(v.pre), Range(w.main), Range(w.pre)}
<1>1. \A s \in {v.main, v.pre, w.main, w.pre} : s \in Seq(Identifiers)
  BY IdentifierAssumption DEF Version
<1>2. \A s \in {v.main, v.pre, w.main, w.pre} :
         s \in Seq(used) /\ Range(s) \subseteq Identifiers
  <2> SUFFICES ASSUME NEW s \in {v.main, v.pre, w.main, w.pre}
               PROVE  s \in Seq(used) /\ Range(s) \subseteq Identifiers
    OBVIOUS
  <2>1. /\ Len(s) \in Nat /\ DOMAIN s = 1..Len(s) /\ s = [i \in 1..Len(s) |-> s[i]]
        /\ \A i \in 1..Len(s) : s[i] \in Identifiers
    BY <1>1, LenProperties, ElementOfSeq
  <2>2. \A i \in 1..Len(s) : s[i] \in Range(s)
    BY <2>1 DEF Range
  <2>3. Range(s) \subseteq used
    OBVIOUS
  <2>4. s \in [1..Len(s) -> used]
    BY <2>1, <2>2, <2>3
  <2>5. s \in Seq(used)
    BY <2>1, <2>4, SeqDef
  <2> QED BY <2>1, <2>5 DEF Range
<1>3. Plain(used)
  <2>1. used \subseteq Identifiers
    BY <1>2
  <2> QED BY <2>1 DEF Plain, WrittenAlike
<1> HIDE DEF used
<1>4. \A s \in {v.main, w.main} : Padded(s) = s
  <2> SUFFICES ASSUME NEW s \in {v.main, w.main}
               PROVE  Padded(s) = s
    OBVIOUS
  <2>1. s \in Seq(Identifiers) /\ Len(s) = 3
    BY <1>1
  <2>2. s = [i \in 1..3 |-> s[i]]
    BY <2>1, LenProperties
  <2> QED BY <2>1, <2>2 DEF Padded
<1>5. Shorter(v.main, w.main) = 3
  BY DEF Shorter
<1>6. /\ SemverListBefore(v.main, w.main) <=> BeforeIn(v.main, w.main, 3)
      /\ AlikeIn(v.main, w.main, 3) <=> v.main = w.main
  <2>1. v.main \in Seq(used) /\ w.main \in Seq(used)
    BY <1>2
  <2>2. Len(v.main) = Len(w.main) /\ ~(Len(v.main) < Len(w.main))
    OBVIOUS
  <2>3. /\ SemverListBefore(v.main, w.main)
             <=> \/ BeforeIn(v.main, w.main, 3)
                 \/ AlikeIn(v.main, w.main, 3) /\ Len(v.main) < Len(w.main)
        /\ AlikeIn(v.main, w.main, Len(v.main)) <=> v.main = w.main
    BY <1>3, <1>5, <2>1, <2>2, ListsAgree
  <2> QED BY <2>2, <2>3
<1>7. SemverListBefore(v.pre, w.pre)
        <=> \/ BeforeIn(v.pre, w.pre, Shorter(v.pre, w.pre))
            \/ AlikeIn(v.pre, w.pre, Shorter(v.pre, w.pre)) /\ Len(v.pre) < Len(w.pre)
  BY <1>2, <1>3, ListsAgree
<1> QED BY <1>4, <1>6, <1>7 DEF Older, SemverOlder, PreReleaseOlder

(* A release is taken for newer exactly if Semantic Versioning says so,    *)
(* whatever the versions, as long as they have three numbers and these are *)
(* written in one way.                                                     *)
THEOREM OrderIsSemver == OrderSpec => []AgreesWithSemver
<1>1. ForwardOnly => AgreesWithSemver
  BY VersionsAgree DEF ForwardOnly, AgreesWithSemver
<1> QED BY <1>1, VersionsGoForward, PTL

-----------------------------------------------------------------------------
(* The checks and the download.                                            *)

USE BoundsAssumption, NoneAssumption

(* A check for paqet is part of a check, and a check for PaqetN only       *)
(* begins when no other is shown.  Without this a failed check for PaqetN, *)
(* which leaves checkingPaqet alone, could leave it set for ever.          *)
ChecksApart ==
    /\ checkingPaqet => checking
    /\ reply = "checkN" => ~checkingPaqet

IInv == TypeOK /\ NoEndlessProgress /\ AnswersAreForTheChecked /\ ChecksApart

-----------------------------------------------------------------------------
(* The parts of the state an action may change, one lemma each.            *)

LEMMA FlagsType ==
    ASSUME TypeOK, Next
    PROVE  /\ checking' \in BOOLEAN /\ checkingPaqet' \in BOOLEAN
           /\ downloading' \in BOOLEAN /\ failed' \in BOOLEAN
           /\ paqetN' \in BOOLEAN /\ crashed' \in BOOLEAN
           /\ autoMode' \in BOOLEAN /\ setting' \in BOOLEAN /\ prompted' \in BOOLEAN
<1> DEFINE Goal == /\ checking' \in BOOLEAN /\ checkingPaqet' \in BOOLEAN
                   /\ downloading' \in BOOLEAN /\ failed' \in BOOLEAN
                   /\ paqetN' \in BOOLEAN /\ crashed' \in BOOLEAN
                   /\ autoMode' \in BOOLEAN /\ setting' \in BOOLEAN
                   /\ prompted' \in BOOLEAN
<1> USE DEF TypeOK, Goal
<1>1. ASSUME CheckPaqetUpdate PROVE Goal
  BY <1>1, Zenon DEF CheckPaqetUpdate, StartCheck, CheckFailed, Answers
<1>2. ASSUME CheckPaqetNUpdate PROVE Goal
  BY <1>2, Zenon DEF CheckPaqetNUpdate, CheckNFailed
<1>3. ASSUME AutoDownloadPaqetIfMissing PROVE Goal
  BY <1>3, Zenon DEF AutoDownloadPaqetIfMissing, StartCheck, CheckFailed
<1>4. ASSUME DownloadPaqet PROVE Goal
  BY <1>4, Zenon DEF DownloadPaqet, StartDownload, Answers
<1>5. ASSUME SetAutoDownloadPaqet \/ ClearDownloadFailed PROVE Goal
  BY <1>5, Zenon DEF SetAutoDownloadPaqet, ClearDownloadFailed, managerVars, flagVars
<1>6. ASSUME CancelUpdate PROVE Goal
  BY <1>6, Zenon DEF CancelUpdate, DownloadFailed, CheckNFailed, CheckFailed, Answers, flagVars
<1>7. ASSUME ReleaseCheckFails PROVE Goal
  BY <1>7, Zenon DEF ReleaseCheckFails, CheckNFailed, CheckFailed, Answers
<1>8. ASSUME NEW v \in Versions, ReleaseFound(v) PROVE Goal
  BY <1>8, Zenon DEF ReleaseFound, flagVars
<1>9. ASSUME DownloadFails PROVE Goal
  BY <1>9, Zenon DEF DownloadFails, DownloadFailed, Answers
<1>10. ASSUME NEW kept \in BOOLEAN, DownloadDone(kept) PROVE Goal
  BY <1>10, Zenon DEF DownloadDone, Answers
<1>11. ASSUME NEW i \in Slots, NEW answers \in BOOLEAN, FetchReads(i, answers) PROVE Goal
  BY <1>11, Zenon DEF FetchReads, flagVars
<1>12. ASSUME NEW i \in Slots, FetchDone(i) PROVE Goal
  BY <1>12, Zenon DEF FetchDone, StartDownload, Answers
<1>13. ASSUME UNCHANGED vars PROVE Goal
  BY <1>13, Zenon DEF vars, managerVars, flagVars
<1> HIDE DEF Goal
<1>14. Goal
  BY <1>1, <1>2, <1>3, <1>4, <1>5, <1>6, <1>7, <1>8, <1>9, <1>10, <1>11, <1>12, <1>13
     DEF Next, Replies, Workers
<1> QED BY <1>14 DEF Goal

LEMMA DataType ==
    ASSUME TypeOK, Next
    PROVE  /\ reply' \in {None, "check", "checkN", "download"}
           /\ version' \in 0..MaxVersion
           /\ fetches' \in [Slots -> Fetch \cup {None}]
           /\ known' \in 0..MaxVersion /\ installed' \in 0..MaxVersion
           /\ offered' \in 0..MaxVersion
<1> DEFINE Goal == /\ reply' \in {None, "check", "checkN", "download"}
                   /\ version' \in 0..MaxVersion
                   /\ fetches' \in [Slots -> Fetch \cup {None}]
                   /\ known' \in 0..MaxVersion /\ installed' \in 0..MaxVersion
                   /\ offered' \in 0..MaxVersion
<1> USE DEF TypeOK, Goal, Versions
<1>1. ASSUME CheckPaqetUpdate PROVE Goal
  BY <1>1 DEF CheckPaqetUpdate, StartCheck
<1>2. ASSUME CheckPaqetNUpdate PROVE Goal
  BY <1>2 DEF CheckPaqetNUpdate
<1>3. ASSUME AutoDownloadPaqetIfMissing PROVE Goal
  BY <1>3 DEF AutoDownloadPaqetIfMissing, StartCheck
<1>4. ASSUME DownloadPaqet PROVE Goal
  BY <1>4 DEF DownloadPaqet, StartDownload
<1>5. ASSUME SetAutoDownloadPaqet \/ ClearDownloadFailed PROVE Goal
  BY <1>5 DEF SetAutoDownloadPaqet, ClearDownloadFailed, managerVars
<1>6. ASSUME CancelUpdate PROVE Goal
  BY <1>6 DEF CancelUpdate
<1>7. ASSUME ReleaseCheckFails PROVE Goal
  BY <1>7 DEF ReleaseCheckFails
<1>8. ASSUME NEW v \in Versions, ReleaseFound(v) PROVE Goal
  BY <1>8 DEF ReleaseFound, Fetch
<1>9. ASSUME DownloadFails PROVE Goal
  BY <1>9 DEF DownloadFails
<1>10. ASSUME NEW kept \in BOOLEAN, DownloadDone(kept) PROVE Goal
  BY <1>10 DEF DownloadDone
<1>11. ASSUME NEW i \in Slots, NEW answers \in BOOLEAN, FetchReads(i, answers) PROVE Goal
  <2>1. fetches[i].latest \in Versions
    BY <1>11 DEF FetchReads, Fetch
  <2> QED BY <1>11, <2>1 DEF FetchReads, Fetch
<1>12. ASSUME NEW i \in Slots, FetchDone(i) PROVE Goal
  <2>1. fetches[i].latest \in Versions /\ fetches[i].seen \in 0..MaxVersion
    BY <1>12 DEF FetchDone, Fetch
  <2> QED BY <1>12, <2>1 DEF FetchDone, StartDownload
<1>13. ASSUME UNCHANGED vars PROVE Goal
  BY <1>13 DEF vars, managerVars
<1> HIDE DEF Goal
<1>14. Goal
  BY <1>1, <1>2, <1>3, <1>4, <1>5, <1>6, <1>7, <1>8, <1>9, <1>10, <1>11, <1>12, <1>13
     DEF Next, Replies, Workers
<1> QED BY <1>14 DEF Goal

LEMMA TypeStep == TypeOK /\ [Next]_vars => TypeOK'
<1> SUFFICES ASSUME TypeOK, [Next]_vars PROVE TypeOK'
  OBVIOUS
<1>1. CASE Next
  BY <1>1, FlagsType, DataType DEF TypeOK
<1>2. CASE UNCHANGED vars
  BY <1>2 DEF TypeOK, vars, managerVars, flagVars
<1> QED BY <1>1, <1>2

-----------------------------------------------------------------------------
(* Progress and kinds.                                                     *)

LEMMA FetchGoesOn ==
    ASSUME TypeOK, NEW i \in Slots, NEW answers \in BOOLEAN, FetchReads(i, answers)
    PROVE  Fetching' <=> Fetching
<1>1. fetches[i] \in Fetch
  BY DEF TypeOK, FetchReads
<1>2. fetches'[i] \in Fetch
  BY <1>1 DEF TypeOK, FetchReads, Fetch
<1>3. fetches[i] # None /\ fetches'[i] # None
  BY <1>1, <1>2 DEF Fetch, Versions
<1> QED BY <1>3 DEF Fetching

LEMMA FetchBegins ==
    ASSUME TypeOK, NEW v \in Versions, ReleaseFound(v)
    PROVE  Fetching'
<1>1. PICK i \in Slots :
          fetches' = [fetches EXCEPT ![i] = [latest |-> v, read |-> FALSE, seen |-> 0]]
  BY DEF ReleaseFound
<1>2. fetches'[i] = [latest |-> v, read |-> FALSE, seen |-> 0]
  BY <1>1 DEF TypeOK
<1>3. fetches'[i] \in Fetch
  BY <1>2 DEF Fetch, Versions
<1>4. fetches'[i] # None
  BY <1>3 DEF Fetch, Versions
<1> QED BY <1>4 DEF Fetching

LEMMA ProgressStep ==
    ASSUME IInv, Next
    PROVE  NoEndlessProgress' /\ AnswersAreForTheChecked' /\ ChecksApart'
<1> DEFINE Goal == NoEndlessProgress' /\ AnswersAreForTheChecked' /\ ChecksApart'
<1> USE DEF IInv, NoEndlessProgress, AnswersAreForTheChecked, ChecksApart, Goal
<1>1. ASSUME fetches' = fetches PROVE Fetching' <=> Fetching
  BY <1>1 DEF Fetching
<1>2. ASSUME CheckPaqetUpdate PROVE Goal
  BY <1>1, <1>2, Zenon DEF CheckPaqetUpdate, StartCheck, CheckFailed
<1>3. ASSUME CheckPaqetNUpdate PROVE Goal
  BY <1>1, <1>3 DEF CheckPaqetNUpdate, CheckNFailed
<1>4. ASSUME AutoDownloadPaqetIfMissing PROVE Goal
  BY <1>1, <1>4, Zenon DEF AutoDownloadPaqetIfMissing, StartCheck, CheckFailed
<1>5. ASSUME DownloadPaqet PROVE Goal
  BY <1>1, <1>5 DEF DownloadPaqet, StartDownload
<1>6. ASSUME SetAutoDownloadPaqet \/ ClearDownloadFailed PROVE Goal
  BY <1>1, <1>6 DEF SetAutoDownloadPaqet, ClearDownloadFailed, managerVars, flagVars
<1>7. ASSUME CancelUpdate PROVE Goal
  BY <1>1, <1>7 DEF CancelUpdate, DownloadFailed, CheckNFailed, CheckFailed, flagVars
<1>8. ASSUME ReleaseCheckFails PROVE Goal
  BY <1>1, <1>8 DEF ReleaseCheckFails, CheckNFailed, CheckFailed
<1>9. ASSUME NEW v \in Versions, ReleaseFound(v) PROVE Goal
  BY <1>9, FetchBegins, NoneAssumption DEF ReleaseFound, flagVars
<1>10. ASSUME DownloadFails PROVE Goal
  BY <1>1, <1>10 DEF DownloadFails, DownloadFailed
<1>11. ASSUME NEW kept \in BOOLEAN, DownloadDone(kept) PROVE Goal
  BY <1>1, <1>11 DEF DownloadDone
<1>12. ASSUME NEW i \in Slots, NEW answers \in BOOLEAN, FetchReads(i, answers) PROVE Goal
  BY <1>12, FetchGoesOn, Zenon DEF FetchReads, flagVars
<1>13. ASSUME NEW i \in Slots, FetchDone(i) PROVE Goal
  BY <1>13 DEF FetchDone, StartDownload
<1>14. ASSUME UNCHANGED vars PROVE Goal
  BY <1>1, <1>14, Zenon DEF vars, managerVars, flagVars
<1> HIDE DEF Goal
<1>15. Goal
  BY <1>2, <1>3, <1>4, <1>5, <1>6, <1>7, <1>8, <1>9, <1>10, <1>11, <1>12, <1>13, <1>14
     DEF Next, Replies, Workers
<1> QED BY <1>15 DEF Goal

LEMMA Inductive == Spec => []IInv
<1>1. Init => IInv
  <2> SUFFICES ASSUME Init PROVE IInv
    OBVIOUS
  <2>1. TypeOK
    <3>1. 0 \in 0..MaxVersion
      OBVIOUS
    <3> QED BY <3>1, Zenon DEF Init, TypeOK
  <2>2. NoEndlessProgress /\ AnswersAreForTheChecked /\ ChecksApart
    BY DEF Init, NoEndlessProgress, AnswersAreForTheChecked, ChecksApart
  <2> QED BY <2>1, <2>2 DEF IInv
<1>2. IInv /\ [Next]_vars => IInv'
  <2> SUFFICES ASSUME IInv, [Next]_vars PROVE IInv'
    OBVIOUS
  <2>1. TypeOK'
    BY TypeStep DEF IInv
  <2>2. CASE Next
    BY <2>1, <2>2, ProgressStep DEF IInv
  <2>3. CASE UNCHANGED vars
    BY <2>1, <2>3, Zenon DEF IInv, NoEndlessProgress, AnswersAreForTheChecked, ChecksApart,
       Fetching, vars, managerVars, flagVars
  <2> QED BY <2>2, <2>3
<1> QED BY <1>1, <1>2, PTL DEF Spec

-----------------------------------------------------------------------------
(* The variables keep their types: replies, workers, versions and flags of *)
(* UpdateManager and PaqetController.                                      *)
THEOREM TypeCorrect == Spec => []TypeOK
<1>1. IInv => TypeOK
  BY DEF IInv
<1> QED BY <1>1, Inductive, PTL

(* No progress is shown, of a check or a download, without an operation    *)
(* that will end it, however many operations the pages begin meanwhile.    *)
THEOREM ProgressEnds == Spec => []NoEndlessProgress
<1>1. IInv => NoEndlessProgress
  BY DEF IInv
<1> QED BY <1>1, Inductive, PTL

(* onReleaseCheckFinished() takes every answer for the program it is of.   *)
THEOREM AnswersMatch == Spec => []AnswersAreForTheChecked
<1>1. IInv => AnswersAreForTheChecked
  BY DEF IInv
<1> QED BY <1>1, Inductive, PTL
=============================================================================
