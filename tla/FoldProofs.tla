----------------------------- MODULE FoldProofs -----------------------------
(* What the folds and the splitting of certificates compute, for every text *)
(* and every ingress.                                                       *)
EXTENDS PortalInput, TLAPS, WellFoundedInduction, FiniteSetTheorems

Less == {p \in Nat \X Nat : p[1] < p[2]}

\* The natural numbers are well-founded.
LEMMA LessIsWellFounded == IsWellFoundedOn(Less, Nat)
<1>1. OpToRel(<, Nat) = Less
  BY Zenon DEF OpToRel, Less
<1> QED BY <1>1, NatLessThanWellFounded, Zenon

\* A set of natural numbers has a least one.
LEMMA LeastNatural ==
  ASSUME NEW S \in SUBSET Nat, S # {}
  PROVE  \E m \in S : \A n \in S : m <= n
<1>1. PICK m \in S : \A n \in S : ~(<<n, m>> \in Less)
  BY WFMin, LessIsWellFounded
<1>2. ASSUME NEW n \in S PROVE m <= n
  <2>1. m \in Nat /\ n \in Nat /\ <<n, m>> \notin Less
    BY <1>1
  <2>2. <<n, m>> \in Nat \X Nat /\ <<n, m>>[1] = n /\ <<n, m>>[2] = m
    BY <2>1
  <2>3. ~(n < m)
    BY <2>1, <2>2, Zenon DEF Less
  <2> QED BY <2>1, <2>3
<1> QED BY <1>2

\* What holds of 0, and of n + 1 when it holds of n, holds of all.
LEMMA SetInduction ==
  ASSUME NEW S, 0 \in S, \A n \in Nat : n \in S => n + 1 \in S
  PROVE  Nat \subseteq S
<1> SUFFICES ASSUME Nat \ S # {} PROVE FALSE
  OBVIOUS
<1>1. PICK m \in Nat \ S : \A n \in Nat \ S : m <= n
  BY LeastNatural
<1>2. m # 0 /\ m - 1 \in Nat
  BY <1>1
<1>3. m - 1 \notin S
  BY <1>1, <1>2
<1> QED BY <1>1, <1>2, <1>3

\* The least and the greatest of indices.
LEMMA MinIsLeast ==
  ASSUME NEW S \in SUBSET Nat, S # {}
  PROVE  Min(S) \in S /\ \A n \in S : Min(S) <= n
BY LeastNatural DEF Min

\* The greatest of the first m indices is one of them.
LEMMA MaxIsGreatest ==
  ASSUME NEW m \in Nat, NEW S \in SUBSET (1..m), S # {}
  PROVE  Max(S) \in S /\ \A n \in S : n <= Max(S)
<1> DEFINE T == {m - n : n \in S}
<1>1. T \in SUBSET Nat /\ T # {}
  <2>1. \A n \in S : n \in 1..m /\ m - n \in Nat
    OBVIOUS
  <2> QED BY <2>1
<1>2. PICK t \in T : \A u \in T : t <= u
  BY <1>1, LeastNatural
<1>3. PICK x \in S : t = m - x
  OBVIOUS
<1>4. \A n \in S : x >= n
  BY <1>2, <1>3
<1> QED BY <1>3, <1>4 DEF Max

\* The last index is the greatest.
LEMMA MaxOfAll ==
  ASSUME NEW m \in Nat, NEW S \in SUBSET (1..m), m \in S
  PROVE  Max(S) = m
<1>1. Max(S) \in S /\ m <= Max(S)
  BY MaxIsGreatest
<1>2. Max(S) \in 1..m
  BY <1>1
<1> QED BY <1>1, <1>2

\* The results of a fold over each set of indices.
IsTable(f, n, D, base, step) ==
  /\ f \in [SUBSET (1..n) -> D]
  /\ \A s \in SUBSET (1..n) :
       f[s] = IF s = {} THEN base ELSE step[f[s \ {Max(s)}], Max(s)]

\* A fold over indices has its results.
LEMMA FoldTable ==
  ASSUME NEW n \in Nat, NEW D, NEW base \in D, NEW step \in [D \X (1..n) -> D]
  PROVE  \E f : IsTable(f, n, D, base, step)
<1> DEFINE Table(f, m) ==
      \A s \in SUBSET (1..m) :
        f[s] = IF s = {} THEN base ELSE step[f[s \ {Max(s)}], Max(s)]
           Exists(m) == \E f \in [SUBSET (1..m) -> D] : Table(f, m)
           S == {m \in Nat : m <= n => Exists(m)}
<1>1. 0 \in S
  <2>1. 1..0 = {}
    OBVIOUS
  <2>2. [s \in SUBSET (1..0) |-> base] \in [SUBSET (1..0) -> D]
    OBVIOUS
  <2>3. Table([s \in SUBSET (1..0) |-> base], 0)
    BY <2>1
  <2>4. Exists(0)
    BY <2>2, <2>3
  <2> HIDE DEF Exists
  <2> QED BY <2>4
<1>2. ASSUME NEW m \in Nat, m + 1 \in 1..n, Exists(m) PROVE Exists(m + 1)
  <2>1. PICK f \in [SUBSET (1..m) -> D] : Table(f, m)
    BY <1>2
  <2> DEFINE g == [s \in SUBSET (1..(m + 1)) |->
                     IF m + 1 \in s THEN step[f[s \ {m + 1}], m + 1] ELSE f[s]]
  <2>2. ASSUME NEW s \in SUBSET (1..(m + 1)), m + 1 \notin s
        PROVE  s \in SUBSET (1..m) /\ g[s] = f[s]
    BY <2>2
  <2>3. ASSUME NEW s \in SUBSET (1..(m + 1)), m + 1 \in s
        PROVE  /\ s \ {m + 1} \in SUBSET (1..m)
               /\ Max(s) = m + 1
               /\ g[s] = step[g[s \ {m + 1}], m + 1]
               /\ g[s] \in D
    <3>1. s \ {m + 1} \in SUBSET (1..m) /\ s \ {m + 1} \in SUBSET (1..(m + 1))
      OBVIOUS
    <3>2. Max(s) = m + 1
      BY <2>3, MaxOfAll
    <3>3. g[s \ {m + 1}] = f[s \ {m + 1}] /\ f[s \ {m + 1}] \in D
      BY <3>1
    <3>4. g[s] = step[f[s \ {m + 1}], m + 1]
      BY <2>3
    <3>5. <<f[s \ {m + 1}], m + 1>> \in D \X (1..n)
      BY <1>2, <3>3
    <3> HIDE DEF g
    <3> QED BY <3>1, <3>2, <3>3, <3>4, <3>5
  <2>4. g \in [SUBSET (1..(m + 1)) -> D]
    BY <2>2, <2>3
  <2>5. ASSUME NEW s \in SUBSET (1..(m + 1))
        PROVE  g[s] = IF s = {} THEN base ELSE step[g[s \ {Max(s)}], Max(s)]
    <3>1. CASE m + 1 \in s
      BY <2>3, <3>1
    <3>2. CASE s = {}
      BY <2>1, <2>2, <3>2
    <3>3. CASE m + 1 \notin s /\ s # {}
      <4>1. s \in SUBSET (1..m) /\ g[s] = f[s]
        BY <2>2, <3>3
      <4>2. s \ {Max(s)} \in SUBSET (1..m) /\ g[s \ {Max(s)}] = f[s \ {Max(s)}]
        BY <2>2, <3>3
      <4> HIDE DEF g
      <4> QED BY <2>1, <3>3, <4>1, <4>2
    <3> QED BY <3>1, <3>2, <3>3
  <2> HIDE DEF g
  <2> QED BY <2>4, <2>5
<1> HIDE DEF Exists
<1>3. \A m \in Nat : m \in S => m + 1 \in S
  BY <1>2
<1> HIDE DEF S
<1>4. n \in S
  BY <1>1, <1>3, SetInduction
<1>5. Exists(n)
  BY <1>4 DEF S
<1> QED BY <1>5 DEF Exists, IsTable

\* The first i indices, without the last of them.
LEMMA FirstIndices ==
  ASSUME NEW n \in Nat, NEW i \in 1..n
  PROVE  /\ 1..i \in SUBSET (1..n) /\ 1..i # {}
         /\ Max(1..i) = i
         /\ (1..i) \ {Max(1..i)} = 1..(i - 1)
<1>1. 1..i \in SUBSET (1..n) /\ i \in 1..i /\ (1..i) \ {i} = 1..(i - 1)
  OBVIOUS
<1> QED BY <1>1, MaxOfAll

\* The values a loop goes through.
IsLoop(val, n, D, base, step) ==
  /\ val \in [0..n -> D]
  /\ val[0] = base
  /\ \A i \in 1..n : val[i] = step[val[i - 1], i]

\* A function on sets of indices that makes a step with each index.
Iterates(iter, n, D, base, step) ==
  /\ n \in Nat /\ base \in D /\ step \in [D \X (1..n) -> D]
  /\ iter[{}] = base
  /\ \A i \in 1..n : \A d \in D :
       d = iter[1..(i - 1)] => iter[1..i] = step[d, i]

\* It is a loop over the indices.
LEMMA IterIsLoop ==
  ASSUME NEW n, NEW D, NEW base, NEW step, NEW iter, Iterates(iter, n, D, base, step)
  PROVE  \E val : IsLoop(val, n, D, base, step) /\ iter[1..n] = val[n]
<1> DEFINE S == {m \in Nat : m <= n => iter[1..m] \in D}
           val == [i \in 0..n |-> iter[1..i]]
<1>0. n \in Nat /\ base \in D /\ step \in [D \X (1..n) -> D]
  BY DEF Iterates
<1>1. 1..0 = {} /\ iter[1..0] = base
  <2>1. 1..0 = {}
    OBVIOUS
  <2> QED BY <2>1 DEF Iterates
<1>2. 0 \in S
  BY <1>0, <1>1
<1>3. ASSUME NEW m \in Nat, m + 1 \in 1..n, iter[1..m] \in D
      PROVE  iter[1..(m + 1)] \in D
  <2>1. (m + 1) - 1 = m
    OBVIOUS
  <2>2. iter[1..(m + 1)] = step[iter[1..m], m + 1]
    BY <1>3, <2>1 DEF Iterates
  <2>3. <<iter[1..m], m + 1>> \in D \X (1..n)
    BY <1>3
  <2> QED BY <1>0, <2>2, <2>3
<1>4. \A m \in Nat : m \in S => m + 1 \in S
  BY <1>0, <1>3
<1> HIDE DEF S
<1>5. Nat \subseteq S
  BY <1>2, <1>4, SetInduction
<1>6. \A i \in 0..n : iter[1..i] \in D
  BY <1>0, <1>5 DEF S
<1>7. ASSUME NEW i \in 1..n PROVE val[i] = step[val[i - 1], i]
  <2>1. i - 1 \in 0..n /\ val[i] = iter[1..i] /\ val[i - 1] = iter[1..(i - 1)]
    BY <1>0
  <2> HIDE DEF val
  <2> QED BY <1>6, <2>1 DEF Iterates
<1>8. val \in [0..n -> D] /\ val[0] = base /\ val[n] = iter[1..n]
  BY <1>0, <1>1, <1>6
<1> HIDE DEF val
<1> QED BY <1>7, <1>8 DEF IsLoop

-----------------------------------------------------------------------------
(* Which certificate for which host.                                        *)

\* The hosts of rules are hosts.
LEMMA HostsTyped ==
  ASSUME NEW ing, IngressOK(ing)
  PROVE  Hosts(ing) \subseteq Host
<1>1. PICK rules \in Seq(Rule) : rules = ing.rules
  BY DEF IngressOK
<1>2. \A i \in DOMAIN rules : rules[i] \in Rule
  OBVIOUS
<1> QED BY <1>1, <1>2 DEF Hosts, Rule

Named == Secret \cup Prefixed \cup {Nil}

\* The loop of mergeTLSWithAnnotations over the tls section.
LEMMA NamesLoop ==
  ASSUME NEW tls \in Seq(Entry), NEW h \in Host
  PROVE  \E name :
           /\ name[0] = Nil
           /\ \A i \in 1..Len(tls) :
                name[i] = IF h \in tls[i].hosts THEN tls[i].secret ELSE name[i - 1]
           /\ FoldLeft(LAMBDA s, e : IF h \in e.hosts THEN e.secret ELSE s, Nil, tls) =
                name[Len(tls)]
<1> DEFINE n == Len(tls)
           Eq(f) == f = [s \in SUBSET DOMAIN tls |->
                           IF s = {} THEN Nil
                           ELSE LET x == Max(s) IN
                                IF h \in tls[x].hosts THEN tls[x].secret ELSE f[s \ {x}]]
           iter == CHOOSE f : Eq(f)
           step == [p \in Named \X (1..n) |->
                      IF h \in tls[p[2]].hosts THEN tls[p[2]].secret ELSE p[1]]
           name == [i \in 0..n |-> iter[1..i]]
<1>1. FoldLeft(LAMBDA s, e : IF h \in e.hosts THEN e.secret ELSE s, Nil, tls) =
        iter[DOMAIN tls]
  BY DEF FoldLeft, MapThenFoldSet
<1>2. n \in Nat /\ DOMAIN tls = 1..n /\ \A i \in 1..n : tls[i] \in Entry
  OBVIOUS
<1>3. step \in [Named \X (1..n) -> Named]
  BY <1>2 DEF Named, Entry
<1>4. \A d \in Named, i \in 1..n :
        step[d, i] = IF h \in tls[i].hosts THEN tls[i].secret ELSE d
  OBVIOUS
<1>5. Nil \in Named
  BY DEF Named
<1> HIDE DEF n, step
<1>6. PICK f : IsTable(f, n, Named, Nil, step)
  BY <1>2, <1>3, <1>5, FoldTable
<1>7. ASSUME NEW s \in SUBSET (1..n)
      PROVE  f[s] = IF s = {} THEN Nil
                    ELSE LET x == Max(s) IN
                         IF h \in tls[x].hosts THEN tls[x].secret ELSE f[s \ {x}]
  <2>1. CASE s = {}
    BY <1>6, <2>1 DEF IsTable
  <2>2. CASE s # {}
    <3>1. Max(s) \in 1..n
      BY <1>2, <2>2, MaxIsGreatest
    <3>2. f[s \ {Max(s)}] \in Named
      BY <1>6 DEF IsTable
    <3> QED BY <1>4, <1>6, <2>2, <3>1, <3>2 DEF IsTable
  <2> QED BY <2>1, <2>2
<1>8. Eq(f)
  BY <1>2, <1>6, <1>7 DEF IsTable
<1>9. Eq(iter)
  BY <1>8
<1> HIDE DEF iter
<1>10. \A s \in SUBSET (1..n) :
         iter[s] = IF s = {} THEN Nil
                   ELSE LET x == Max(s) IN
                        IF h \in tls[x].hosts THEN tls[x].secret ELSE iter[s \ {x}]
  BY <1>2, <1>9
<1>11. name[0] = Nil
  <2>1. 0 \in 0..n /\ 1..0 = {} /\ {} \in SUBSET (1..n)
    BY <1>2
  <2> QED BY <1>10, <2>1
<1>12. ASSUME NEW i \in 1..n
       PROVE  name[i] = IF h \in tls[i].hosts THEN tls[i].secret ELSE name[i - 1]
  <2>1. 1..i \in SUBSET (1..n) /\ i \in 1..i /\ (1..i) \ {i} = 1..(i - 1)
    BY <1>2
  <2>2. Max(1..i) = i
    BY <1>2, <2>1, MaxOfAll
  <2>3. name[i] = iter[1..i] /\ name[i - 1] = iter[1..(i - 1)]
    BY <1>2
  <2> HIDE DEF name
  <2> QED BY <1>10, <2>1, <2>2, <2>3
<1>13. name[n] = iter[DOMAIN tls]
  BY <1>2
<1> HIDE DEF name
<1> QED BY <1>1, <1>11, <1>12, <1>13 DEF n

\* The entries of the tls section up to the m-th that list a host.
Listing(tls, h, m) == {i \in 1..m : h \in tls[i].hosts}

\* The last one that does gives the name.
LEMMA NamesResult ==
  ASSUME NEW tls \in Seq(Entry), NEW h \in Host
  PROVE  FoldLeft(LAMBDA s, e : IF h \in e.hosts THEN e.secret ELSE s, Nil, tls) =
           LET listing == Listing(tls, h, Len(tls)) IN
           IF listing = {} THEN Nil ELSE tls[Max(listing)].secret
<1>1. PICK name :
        /\ name[0] = Nil
        /\ \A i \in 1..Len(tls) :
             name[i] = IF h \in tls[i].hosts THEN tls[i].secret ELSE name[i - 1]
        /\ FoldLeft(LAMBDA s, e : IF h \in e.hosts THEN e.secret ELSE s, Nil, tls) =
             name[Len(tls)]
  BY NamesLoop
<1> DEFINE Right(m) == name[m] = IF Listing(tls, h, m) = {} THEN Nil
                                 ELSE tls[Max(Listing(tls, h, m))].secret
           S == {m \in Nat : m <= Len(tls) => Right(m)}
<1>2. Right(0)
  <2>1. Listing(tls, h, 0) = {}
    BY DEF Listing
  <2> QED BY <1>1, <2>1
<1>3. ASSUME NEW m \in Nat, m + 1 \in 1..Len(tls), Right(m)
      PROVE  Right(m + 1)
  <2>1. name[m + 1] = IF h \in tls[m + 1].hosts THEN tls[m + 1].secret ELSE name[m]
    <3>1. (m + 1) - 1 = m
      OBVIOUS
    <3>2. \A i \in 1..Len(tls) :
            name[i] = IF h \in tls[i].hosts THEN tls[i].secret ELSE name[i - 1]
      BY <1>1
    <3> HIDE DEF Right
    <3> QED BY <1>3, <3>1, <3>2
  <2>2. CASE h \in tls[m + 1].hosts
    <3>1. Listing(tls, h, m + 1) \in SUBSET (1..(m + 1)) /\ m + 1 \in Listing(tls, h, m + 1)
      BY <2>2 DEF Listing
    <3>2. Max(Listing(tls, h, m + 1)) = m + 1
      BY <3>1, MaxOfAll
    <3> QED BY <2>1, <2>2, <3>1, <3>2
  <2>3. CASE h \notin tls[m + 1].hosts
    <3>1. Listing(tls, h, m + 1) = Listing(tls, h, m)
      BY <2>3 DEF Listing
    <3> QED BY <1>3, <2>1, <2>3, <3>1
  <2> QED BY <2>2, <2>3
<1> HIDE DEF Right
<1>4. 0 \in S
  BY <1>2
<1>5. \A m \in Nat : m \in S => m + 1 \in S
  BY <1>3
<1> HIDE DEF S
<1>6. Len(tls) \in S
  BY <1>4, <1>5, SetInduction
<1>7. Right(Len(tls))
  BY <1>6 DEF S
<1> QED BY <1>1, <1>7 DEF Right

\* mergeTLSWithAnnotations gives a host the name the ingress has for it.
LEMMA NamesAreRight ==
  ASSUME NEW ing, IngressOK(ing), NEW h \in Host
  PROVE  /\ HostSecret(ing)[h] = NamedFor(ing, h)
         /\ HostSecret(ing)[h] \in Named
<1>1. ing.tls \in Seq(Entry) /\ ing.annotated[h] \in Named
  BY DEF IngressOK, Entry, Named
<1>2. CASE ing.annotated[h] # Nil
  BY <1>1, <1>2 DEF HostSecret, NamedFor
<1>3. CASE ing.annotated[h] = Nil
  <2> DEFINE listing == Listing(ing.tls, h, Len(ing.tls))
  <2>1. HostSecret(ing)[h] = IF listing = {} THEN Nil ELSE ing.tls[Max(listing)].secret
    BY <1>1, <1>3, NamesResult DEF HostSecret
  <2>2. listing = {i \in DOMAIN ing.tls : h \in ing.tls[i].hosts}
    BY <1>1 DEF Listing
  <2>3. listing # {} => Max(listing) \in DOMAIN ing.tls
    <3>1. Len(ing.tls) \in Nat /\ listing \in SUBSET (1..Len(ing.tls))
      BY <1>1 DEF Listing
    <3> HIDE DEF listing
    <3>2. listing # {} => Max(listing) \in listing
      BY <3>1, MaxIsGreatest
    <3> QED BY <2>2, <3>2
  <2>4. HostSecret(ing)[h] \in Named
    <3>1. \A i \in DOMAIN ing.tls : ing.tls[i].secret \in Named
      <4>1. PICK tls \in Seq(Entry) : tls = ing.tls
        BY <1>1
      <4>2. \A i \in DOMAIN tls : tls[i] \in Entry
        OBVIOUS
      <4> QED BY <4>1, <4>2 DEF Entry, Named
    <3>2. Nil \in Named
      BY DEF Named
    <3> HIDE DEF listing
    <3> QED BY <2>1, <2>3, <3>1, <3>2
  <2> QED BY <1>3, <2>1, <2>2, <2>4 DEF NamedFor
<1> QED BY <1>2, <1>3

-----------------------------------------------------------------------------
(* The splitting of certificates.                                           *)

SplitState ==
  [primary : Seq(Line), chain : Seq(Line), started : BOOLEAN, iter : Nat]

Unsplit == [primary |-> <<>>, chain |-> <<>>, started |-> FALSE, iter |-> 0]

\* A line leaves a state of the loop.
LEMMA AddLineType ==
  ASSUME NEW st \in SplitState, NEW line \in Line
  PROVE  AddLine(st, line) \in SplitState
BY DEF AddLine, SplitState

\* The loop of SplitCerts.
LEMMA SplitLoop ==
  ASSUME NEW crt \in Seq(Line)
  PROVE  \E st :
           /\ st[0] = Unsplit
           /\ \A i \in 1..Len(crt) : st[i] = AddLine(st[i - 1], crt[i])
           /\ SplitCerts(crt) = st[Len(crt)]
<1> DEFINE n == Len(crt)
           Eq(f) == f = [s \in SUBSET DOMAIN crt |->
                           IF s = {} THEN Unsplit
                           ELSE LET x == Max(s) IN AddLine(f[s \ {x}], crt[x])]
           iter == CHOOSE f : Eq(f)
           step == [p \in SplitState \X (1..n) |-> AddLine(p[1], crt[p[2]])]
           st == [i \in 0..n |-> iter[1..i]]
<1>1. SplitCerts(crt) = iter[DOMAIN crt]
  BY DEF SplitCerts, FoldLeft, MapThenFoldSet, Unsplit
<1>2. n \in Nat /\ DOMAIN crt = 1..n /\ \A i \in 1..n : crt[i] \in Line
  OBVIOUS
<1>3. step \in [SplitState \X (1..n) -> SplitState]
  BY <1>2, AddLineType
<1>4. \A d \in SplitState, i \in 1..n : step[d, i] = AddLine(d, crt[i])
  OBVIOUS
<1>5. Unsplit \in SplitState
  BY DEF Unsplit, SplitState
<1> HIDE DEF n, step
<1>6. PICK f : IsTable(f, n, SplitState, Unsplit, step)
  BY <1>2, <1>3, <1>5, FoldTable
<1>7. ASSUME NEW s \in SUBSET (1..n)
      PROVE  f[s] = IF s = {} THEN Unsplit
                    ELSE LET x == Max(s) IN AddLine(f[s \ {x}], crt[x])
  <2>1. CASE s = {}
    BY <1>6, <2>1 DEF IsTable
  <2>2. CASE s # {}
    <3>1. Max(s) \in 1..n
      BY <1>2, <2>2, MaxIsGreatest
    <3>2. f[s \ {Max(s)}] \in SplitState
      BY <1>6 DEF IsTable
    <3> QED BY <1>4, <1>6, <2>2, <3>1, <3>2 DEF IsTable
  <2> QED BY <2>1, <2>2
<1>8. Eq(f)
  BY <1>2, <1>6, <1>7 DEF IsTable
<1>9. Eq(iter)
  BY <1>8
<1> HIDE DEF iter
<1>10. \A s \in SUBSET (1..n) :
         iter[s] = IF s = {} THEN Unsplit
                   ELSE LET x == Max(s) IN AddLine(iter[s \ {x}], crt[x])
  BY <1>2, <1>9
<1>11. st[0] = Unsplit
  <2>1. 0 \in 0..n /\ 1..0 = {} /\ {} \in SUBSET (1..n)
    BY <1>2
  <2> QED BY <1>10, <2>1
<1>12. ASSUME NEW i \in 1..n
       PROVE  st[i] = AddLine(st[i - 1], crt[i])
  <2>1. 1..i \in SUBSET (1..n) /\ i \in 1..i /\ (1..i) \ {i} = 1..(i - 1)
    BY <1>2
  <2>2. Max(1..i) = i
    BY <1>2, <2>1, MaxOfAll
  <2>3. st[i] = iter[1..i] /\ st[i - 1] = iter[1..(i - 1)]
    BY <1>2
  <2> HIDE DEF st
  <2> QED BY <1>10, <2>1, <2>2, <2>3
<1>13. st[n] = iter[DOMAIN crt]
  BY <1>2
<1> HIDE DEF st
<1> QED BY <1>1, <1>11, <1>12, <1>13 DEF n

\* The indices up to m of the lines of blocks, and those of them that follow the
\* end of the first block.
InBlocks(crt, m) == {i \in 1..m : InBlock(crt, i)}

Later(crt, m) ==
  {i \in InBlocks(crt, m) : \E e \in InBlocks(crt, m) : e < i /\ crt[e][1] = "END"}

\* A line is in a block that it begins, or that the line before does not end.
LEMMA NextInBlock ==
  ASSUME NEW crt \in Seq(Line), NEW m \in Nat, m + 1 \in 1..Len(crt)
  PROVE  /\ InBlocks(crt, m + 1) =
              IF crt[m + 1][1] = "BEGIN"
                 \/ (m \in InBlocks(crt, m) /\ crt[m][1] # "END")
              THEN InBlocks(crt, m) \cup {m + 1} ELSE InBlocks(crt, m)
         /\ Later(crt, m + 1) =
              IF m + 1 \in InBlocks(crt, m + 1)
                 /\ \E e \in InBlocks(crt, m) : crt[e][1] = "END"
              THEN Later(crt, m) \cup {m + 1} ELSE Later(crt, m)
<1>1. InBlock(crt, m + 1) <=> \/ crt[m + 1][1] = "BEGIN"
                              \/ m \in 1..m /\ InBlock(crt, m) /\ crt[m][1] # "END"
  <2>1. ASSUME InBlock(crt, m + 1), crt[m + 1][1] # "BEGIN"
        PROVE  m \in 1..m /\ InBlock(crt, m) /\ crt[m][1] # "END"
    <3>1. PICK b \in 1..(m + 1) : /\ crt[b][1] = "BEGIN"
                                  /\ \A e \in b..((m + 1) - 1) : crt[e][1] # "END"
      BY <2>1 DEF InBlock
    <3>2. b \in 1..m /\ m \in b..((m + 1) - 1) /\ m \in 1..m
      BY <2>1, <3>1
    <3>3. \A e \in b..(m - 1) : e \in b..((m + 1) - 1)
      BY <3>2
    <3> QED BY <3>1, <3>2, <3>3 DEF InBlock
  <2>2. ASSUME crt[m + 1][1] = "BEGIN"
        PROVE  InBlock(crt, m + 1)
    <3>1. m + 1 \in 1..(m + 1) /\ \A e \in (m + 1)..((m + 1) - 1) : FALSE
      OBVIOUS
    <3> QED BY <2>2, <3>1 DEF InBlock
  <2>3. ASSUME m \in 1..m, InBlock(crt, m), crt[m][1] # "END"
        PROVE  InBlock(crt, m + 1)
    <3>1. PICK b \in 1..m : /\ crt[b][1] = "BEGIN"
                            /\ \A e \in b..(m - 1) : crt[e][1] # "END"
      BY <2>3 DEF InBlock
    <3>2. b \in 1..(m + 1) /\ \A e \in b..((m + 1) - 1) : e = m \/ e \in b..(m - 1)
      BY <3>1
    <3> QED BY <2>3, <3>1, <3>2 DEF InBlock
  <2> QED BY <2>1, <2>2, <2>3
<1>2. InBlocks(crt, m + 1) = IF InBlock(crt, m + 1) THEN InBlocks(crt, m) \cup {m + 1}
                             ELSE InBlocks(crt, m)
  BY DEF InBlocks
<1>3. m \in InBlocks(crt, m) <=> m \in 1..m /\ InBlock(crt, m)
  BY DEF InBlocks
<1>4. Later(crt, m + 1) =
        IF m + 1 \in InBlocks(crt, m + 1) /\ \E e \in InBlocks(crt, m) : crt[e][1] = "END"
        THEN Later(crt, m) \cup {m + 1} ELSE Later(crt, m)
  <2>1. /\ InBlocks(crt, m) \in SUBSET (1..m)
        /\ \/ InBlocks(crt, m + 1) = InBlocks(crt, m)
           \/ InBlocks(crt, m + 1) = InBlocks(crt, m) \cup {m + 1}
    BY <1>2 DEF InBlocks
  <2>2. ASSUME NEW i \in InBlocks(crt, m)
        PROVE  i \in Later(crt, m + 1) <=> i \in Later(crt, m)
    BY <2>1, <2>2 DEF Later
  <2>3. m + 1 \in Later(crt, m + 1) <=>
          /\ m + 1 \in InBlocks(crt, m + 1)
          /\ \E e \in InBlocks(crt, m) : crt[e][1] = "END"
    BY <2>1 DEF Later
  <2>4. /\ Later(crt, m) \subseteq InBlocks(crt, m)
        /\ Later(crt, m + 1) \subseteq InBlocks(crt, m + 1)
    BY DEF Later
  <2>5. \A i : i \in Later(crt, m + 1) => i \in InBlocks(crt, m) \/ i = m + 1
    BY <2>1, <2>4
  <2>6. CASE m + 1 \in Later(crt, m + 1)
    <3>1. Later(crt, m + 1) = Later(crt, m) \cup {m + 1}
      BY <2>2, <2>4, <2>5, <2>6
    <3> QED BY <2>3, <2>6, <3>1
  <2>7. CASE m + 1 \notin Later(crt, m + 1)
    <3>1. Later(crt, m + 1) = Later(crt, m)
      BY <2>2, <2>4, <2>5, <2>7
    <3> QED BY <2>3, <2>7, <3>1
  <2> QED BY <2>6, <2>7
<1> QED BY <1>1, <1>2, <1>3, <1>4

\* A part of a text grows by a line.
LEMMA AppendPart ==
  ASSUME NEW crt, NEW part \in Seq(Line), NEW m \in Nat, NEW at \in SUBSET (1..m),
         IsPart(part, crt, at), crt[m + 1] \in Line
  PROVE  IsPart(Append(part, crt[m + 1]), crt, at \cup {m + 1})
<1> DEFINE more == at \cup {m + 1}
           long == Append(part, crt[m + 1])
<1>1. IsFiniteSet(at) /\ Cardinality(at) \in Nat
  <2>1. IsFiniteSet(1..m)
    BY FS_Interval
  <2>2. IsFiniteSet(at)
    BY <2>1, FS_Subset
  <2> QED BY <2>2, FS_CardinalityType
<1>2. m + 1 \notin at
  OBVIOUS
<1>3. Cardinality(more) = Cardinality(at) + 1
  BY <1>1, <1>2, FS_AddElement
<1>4. Len(part) = Cardinality(at)
  BY DEF IsPart
<1>5. /\ Len(long) = Cardinality(more)
      /\ long[Cardinality(more)] = crt[m + 1]
      /\ \A k \in 1..Len(part) : long[k] = part[k]
  BY <1>1, <1>3, <1>4
<1>6. {j \in more : j <= m + 1} = more
  <2>1. \A j \in more : j <= m + 1
    OBVIOUS
  <2> HIDE DEF more
  <2> QED BY <2>1
<1>7. ASSUME NEW i \in at
      PROVE  long[Cardinality({j \in more : j <= i})] = crt[i]
  <2> DEFINE upto == {j \in at : j <= i}
  <2>1. {j \in more : j <= i} = upto
    BY <1>7
  <2>2. part[Cardinality(upto)] = crt[i]
    BY <1>7 DEF IsPart
  <2>3. Cardinality(upto) \in Nat /\ Cardinality(upto) <= Cardinality(at)
    <3>1. upto \in SUBSET at
      OBVIOUS
    <3> HIDE DEF upto
    <3>2. IsFiniteSet(upto) /\ Cardinality(upto) <= Cardinality(at)
      BY <1>1, <3>1, FS_Subset
    <3> QED BY <3>2, FS_CardinalityType
  <2>4. Cardinality(upto) # 0
    <3>1. i \in upto /\ upto \in SUBSET at
      BY <1>7
    <3> HIDE DEF upto
    <3>2. IsFiniteSet(upto)
      BY <1>1, <3>1, FS_Subset
    <3> QED BY <3>1, <3>2, FS_EmptySet
  <2> HIDE DEF upto
  <2>5. Cardinality(upto) \in 1..Len(part)
    BY <1>1, <1>4, <2>3, <2>4
  <2> HIDE DEF long, more
  <2> QED BY <1>5, <2>1, <2>2, <2>5
<1> HIDE DEF long, more
<1>8. more = at \cup {m + 1} /\ long = Append(part, crt[m + 1])
  BY DEF long, more
<1> QED BY <1>5, <1>6, <1>7, <1>8 DEF IsPart

\* The loop after m lines: it is in a block or not, in the first one or a later
\* one, and has put the lines of the blocks into the two parts.
SplitRight(st, crt, m) ==
  /\ st \in SplitState
  /\ st.started <=> m \in InBlocks(crt, m) /\ crt[m][1] # "END"
  /\ st.iter = 0 <=> \A e \in InBlocks(crt, m) : crt[e][1] # "END"
  /\ IsPart(st.primary, crt, InBlocks(crt, m) \ Later(crt, m))
  /\ IsPart(st.chain, crt, Later(crt, m))
  /\ \A k \in 1..Len(st.primary) :
       \E i \in InBlocks(crt, m) \ Later(crt, m) : st.primary[k] = crt[i]

\* It starts so.
LEMMA SplitStarts ==
  ASSUME NEW crt
  PROVE  SplitRight(Unsplit, crt, 0)
<1>1. Unsplit \in SplitState
  BY DEF Unsplit, SplitState
<1>2. InBlocks(crt, 0) = {} /\ Later(crt, 0) = {}
  BY DEF InBlocks, Later
<1>3. IsPart(<<>>, crt, {})
  BY FS_EmptySet DEF IsPart
<1>4. /\ Unsplit.primary = <<>> /\ Unsplit.chain = <<>>
      /\ ~Unsplit.started /\ Unsplit.iter = 0
      /\ 1..Len(Unsplit.primary) = {} /\ {} \ {} = {}
  BY DEF Unsplit
<1> QED BY <1>1, <1>2, <1>3, <1>4 DEF SplitRight

\* A line of a block goes to the part it belongs to, another to none.
LEMMA SplitStep ==
  ASSUME NEW crt \in Seq(Line), NEW m \in Nat, m + 1 \in 1..Len(crt),
         NEW st, SplitRight(st, crt, m)
  PROVE  SplitRight(AddLine(st, crt[m + 1]), crt, m + 1)
<1>0. PICK line, new, old : /\ line = crt[m + 1] /\ new = AddLine(st, line)
                            /\ old = InBlocks(crt, m)
  OBVIOUS
<1>1. line \in Line /\ st \in SplitState /\ new \in SplitState
  BY <1>0, AddLineType DEF SplitRight
<1>2. /\ old \in SUBSET (1..m) /\ Later(crt, m) \in SUBSET (1..m)
      /\ Later(crt, m) \subseteq old
      /\ m + 1 \notin old /\ m + 1 \notin Later(crt, m)
  BY <1>0 DEF InBlocks, Later
<1>3. CASE ~st.started /\ line[1] # "BEGIN"
  <2>1. new = st
    BY <1>0, <1>3 DEF AddLine
  <2>2. InBlocks(crt, m + 1) = old
    BY <1>0, <1>3, NextInBlock DEF SplitRight
  <2>3. Later(crt, m + 1) = Later(crt, m)
    BY <1>2, <2>2, NextInBlock
  <2>4. ~st.started /\ m + 1 \notin InBlocks(crt, m + 1)
    BY <1>2, <1>3, <2>2
  <2>5. /\ st.iter = 0 <=> \A e \in old : crt[e][1] # "END"
        /\ IsPart(st.primary, crt, old \ Later(crt, m))
        /\ IsPart(st.chain, crt, Later(crt, m))
        /\ \A k \in 1..Len(st.primary) :
             \E i \in old \ Later(crt, m) : st.primary[k] = crt[i]
    BY <1>0 DEF SplitRight
  <2>6. SplitRight(new, crt, m + 1)
    BY <1>1, <2>1, <2>2, <2>3, <2>4, <2>5 DEF SplitRight
  <2> QED BY <1>0, <2>6
<1>4. CASE st.started \/ line[1] = "BEGIN"
  <2>1. /\ new.primary = IF st.iter = 0 THEN Append(st.primary, line) ELSE st.primary
        /\ new.chain = IF st.iter = 0 THEN st.chain ELSE Append(st.chain, line)
        /\ new.started <=> line[1] # "END"
        /\ new.iter = IF line[1] = "END" THEN st.iter + 1 ELSE st.iter
    BY <1>0, <1>1, <1>4 DEF AddLine, SplitState
  <2>2. InBlocks(crt, m + 1) = old \cup {m + 1}
    <3>1. st.started <=> m \in InBlocks(crt, m) /\ crt[m][1] # "END"
      BY DEF SplitRight
    <3>2. InBlocks(crt, m + 1) =
            IF line[1] = "BEGIN" \/ (m \in InBlocks(crt, m) /\ crt[m][1] # "END")
            THEN old \cup {m + 1} ELSE old
      BY <1>0, NextInBlock
    <3> QED BY <1>4, <3>1, <3>2
  <2>3. Later(crt, m + 1) = IF st.iter = 0 THEN Later(crt, m) ELSE Later(crt, m) \cup {m + 1}
    <3>1. st.iter = 0 <=> \A e \in InBlocks(crt, m) : crt[e][1] # "END"
      BY DEF SplitRight
    <3>2. m + 1 \in InBlocks(crt, m + 1)
      BY <2>2
    <3> QED BY <3>1, <3>2, NextInBlock
  <2>4. new.iter = 0 <=> \A e \in old \cup {m + 1} : crt[e][1] # "END"
    BY <1>0, <1>1, <2>1 DEF SplitRight, SplitState
  <2>5. /\ IsPart(st.primary, crt, old \ Later(crt, m))
        /\ IsPart(st.chain, crt, Later(crt, m))
        /\ \A k \in 1..Len(st.primary) :
             \E i \in old \ Later(crt, m) : st.primary[k] = crt[i]
        /\ st.primary \in Seq(Line) /\ st.chain \in Seq(Line)
    BY <1>0, <1>1 DEF SplitRight, SplitState
  <2>6. /\ new.started <=> m + 1 \in InBlocks(crt, m + 1) /\ crt[m + 1][1] # "END"
        /\ new.iter = 0 <=> \A e \in InBlocks(crt, m + 1) : crt[e][1] # "END"
    BY <1>0, <2>1, <2>2, <2>4
  <2>7. CASE st.iter = 0
    <3> DEFINE at == old \ Later(crt, m)
    <3>1. InBlocks(crt, m + 1) \ Later(crt, m + 1) = at \cup {m + 1}
      BY <1>2, <2>2, <2>3, <2>7
    <3>2. at \in SUBSET (1..m)
      BY <1>2
    <3>3. IsPart(st.primary, crt, at) /\ st.primary \in Seq(Line)
      BY <2>5
    <3>4. crt[m + 1] \in Line
      BY <1>0, <1>1
    <3> HIDE DEF at
    <3>5. IsPart(Append(st.primary, crt[m + 1]), crt, at \cup {m + 1})
      BY <3>2, <3>3, <3>4, AppendPart
    <3>6. ASSUME NEW k \in 1..Len(new.primary)
          PROVE  \E i \in at \cup {m + 1} : new.primary[k] = crt[i]
      <4>1. /\ Len(new.primary) = Len(st.primary) + 1
            /\ new.primary[Len(st.primary) + 1] = line
            /\ \A l \in 1..Len(st.primary) : new.primary[l] = st.primary[l]
        BY <2>1, <2>5, <2>7
      <4>2. CASE k = Len(st.primary) + 1
        BY <1>0, <4>1, <4>2
      <4>3. CASE k # Len(st.primary) + 1
        <5>1. k \in 1..Len(st.primary)
          BY <2>5, <4>1, <4>3
        <5> QED BY <2>5, <4>1, <5>1 DEF at
      <4> QED BY <4>2, <4>3
    <3>7. IsPart(new.chain, crt, Later(crt, m + 1))
      BY <2>1, <2>3, <2>5, <2>7
    <3>8. IsPart(new.primary, crt, InBlocks(crt, m + 1) \ Later(crt, m + 1))
      BY <1>0, <2>1, <2>7, <3>1, <3>5
    <3>9. SplitRight(new, crt, m + 1)
      BY <1>1, <2>6, <3>1, <3>6, <3>7, <3>8 DEF SplitRight
    <3> QED BY <1>0, <3>9
  <2>8. CASE st.iter # 0
    <3>1. InBlocks(crt, m + 1) \ Later(crt, m + 1) = old \ Later(crt, m)
      BY <1>2, <2>2, <2>3, <2>8
    <3>2. IsPart(st.chain, crt, Later(crt, m)) /\ st.chain \in Seq(Line)
      BY <2>5
    <3>3. crt[m + 1] \in Line
      BY <1>0, <1>1
    <3>4. IsPart(Append(st.chain, crt[m + 1]), crt, Later(crt, m) \cup {m + 1})
      BY <1>2, <3>2, <3>3, AppendPart
    <3>5. IsPart(new.chain, crt, Later(crt, m + 1))
      BY <1>0, <2>1, <2>3, <2>8, <3>4
    <3>6. /\ IsPart(new.primary, crt, InBlocks(crt, m + 1) \ Later(crt, m + 1))
          /\ \A k \in 1..Len(new.primary) :
               \E i \in InBlocks(crt, m + 1) \ Later(crt, m + 1) : new.primary[k] = crt[i]
      BY <2>1, <2>5, <2>8, <3>1
    <3>7. SplitRight(new, crt, m + 1)
      BY <1>1, <2>6, <3>5, <3>6 DEF SplitRight
    <3> QED BY <1>0, <3>7
  <2> QED BY <2>7, <2>8
<1> QED BY <1>3, <1>4

\* So does SplitCerts end.
LEMMA SplitResult ==
  ASSUME NEW crt \in Seq(Line)
  PROVE  SplitRight(SplitCerts(crt), crt, Len(crt))
<1>1. PICK st : /\ st[0] = Unsplit
                /\ \A i \in 1..Len(crt) : st[i] = AddLine(st[i - 1], crt[i])
                /\ SplitCerts(crt) = st[Len(crt)]
  BY SplitLoop
<1> DEFINE S == {m \in Nat : m <= Len(crt) => SplitRight(st[m], crt, m)}
<1>2. 0 \in S
  BY <1>1, SplitStarts
<1>3. ASSUME NEW m \in Nat, m \in S, m + 1 <= Len(crt)
      PROVE  SplitRight(st[m + 1], crt, m + 1)
  <2>1. m + 1 \in 1..Len(crt) /\ (m + 1) - 1 = m /\ m <= Len(crt)
    BY <1>3
  <2>2. st[m + 1] = AddLine(st[m], crt[m + 1])
    BY <1>1, <2>1
  <2>3. SplitRight(st[m], crt, m)
    BY <1>3, <2>1
  <2> QED BY <2>1, <2>2, <2>3, SplitStep
<1>4. \A m \in Nat : m \in S => m + 1 \in S
  BY <1>3
<1> HIDE DEF S
<1>5. Len(crt) \in S
  BY <1>2, <1>4, SetInduction
<1> QED BY <1>1, <1>5 DEF S

\* The parts of a text are those of a bundle.
LEMMA SplitIsRight ==
  ASSUME NEW crt \in Seq(Line)
  PROVE  LET inBlock == {i \in DOMAIN crt : InBlock(crt, i)}
             later   == {i \in inBlock : \E e \in inBlock : e < i /\ crt[e][1] = "END"}
         IN /\ IsPart(SplitCerts(crt).primary, crt, inBlock \ later)
            /\ IsPart(SplitCerts(crt).chain, crt, later)
<1>1. InBlocks(crt, Len(crt)) = {i \in DOMAIN crt : InBlock(crt, i)}
  BY DEF InBlocks
<1>2. Later(crt, Len(crt)) =
        {i \in {i \in DOMAIN crt : InBlock(crt, i)} :
           \E e \in {j \in DOMAIN crt : InBlock(crt, j)} : e < i /\ crt[e][1] = "END"}
  BY <1>1 DEF Later
<1>3. /\ IsPart(SplitCerts(crt).primary, crt, InBlocks(crt, Len(crt)) \ Later(crt, Len(crt)))
      /\ IsPart(SplitCerts(crt).chain, crt, Later(crt, Len(crt)))
  BY SplitResult DEF SplitRight
<1> QED BY <1>1, <1>2, <1>3

\* Line f is a line of crt before the first block ends.
IsFirst(crt, f) ==
  \E i \in DOMAIN crt :
    /\ crt[i] = <<"data", f>>
    /\ \A j \in 1..(i - 1) : crt[j][1] = "END" => ~InBlock(crt, j)

\* A fingerprint is a line of the first block.
LEMMA FingerprintIsFirst ==
  ASSUME NEW crt \in Seq(Line), NEW f,
         f = GetPemFingerprint(SplitCerts(crt).primary), f # Nil
  PROVE  IsFirst(crt, f)
<1> DEFINE part == SplitCerts(crt).primary
           whole == {i \in DOMAIN part :
                       /\ i + 2 \in DOMAIN part
                       /\ part[i][1] = "BEGIN" /\ part[i + 1][1] = "data"
                       /\ part[i + 2] = <<"END", part[i][2]>>}
<1>1. whole # {} /\ f = part[Min(whole) + 1][2]
  BY DEF GetPemFingerprint, Decode
<1>2. part \in Seq(Line)
  BY SplitResult DEF SplitRight, SplitState
<1>3. /\ Min(whole) + 1 \in 1..Len(part)
      /\ part[Min(whole) + 1][1] = "data"
  <2>1. DOMAIN part = 1..Len(part) /\ Len(part) \in Nat
    BY <1>2
  <2>2. whole \in SUBSET Nat
    BY <2>1
  <2>3. \A i \in whole : i + 1 \in 1..Len(part) /\ part[i + 1][1] = "data"
    BY <2>1
  <2> HIDE DEF whole
  <2>4. Min(whole) \in whole
    BY <1>1, <2>2, MinIsLeast
  <2> QED BY <2>3, <2>4
<1> HIDE DEF whole
<1>4. PICK i \in InBlocks(crt, Len(crt)) \ Later(crt, Len(crt)) :
        part[Min(whole) + 1] = crt[i]
  BY <1>3, SplitResult DEF SplitRight
<1>5. i \in 1..Len(crt) /\ DOMAIN crt = 1..Len(crt) /\ crt[i] \in Line
  BY <1>4 DEF InBlocks
<1>6. crt[i] = <<"data", f>>
  BY <1>1, <1>3, <1>4, <1>5 DEF Line
<1>7. ASSUME NEW j \in 1..(i - 1), crt[j][1] = "END", InBlock(crt, j)
      PROVE  FALSE
  <2>1. j \in 1..Len(crt) /\ j < i
    BY <1>5
  <2> QED BY <1>4, <1>7, <2>1 DEF Later, InBlocks
<1> QED BY <1>5, <1>6, <1>7 DEF IsFirst
-----------------------------------------------------------------------------
(* The paths of an ingress.                                                 *)

\* The paths of a host that the loop has collected after each rule.
GathersOf(ing, h, at) ==
  /\ at \in [0..Len(ing.rules) -> Seq(RulePath)]
  /\ at[0] = <<>>
  /\ \A i \in 1..Len(ing.rules) :
       at[i] = IF ing.rules[i].http /\ ing.rules[i].host = h
               THEN at[i - 1] \o ing.rules[i].paths ELSE at[i - 1]
  /\ PathsOf(ing, h) = at[Len(ing.rules)]

\* The loop that collects the paths of a host.
LEMMA PathsLoop ==
  ASSUME NEW ing, IngressOK(ing), NEW h
  PROVE  \E at : GathersOf(ing, h, at)
<1>0. PICK rules \in Seq(Rule) : rules = ing.rules
  BY DEF IngressOK
<1> DEFINE n == Len(rules)
           D == Seq(RulePath)
           Eq(f) == f = [s \in SUBSET DOMAIN rules |->
                           IF s = {} THEN <<>>
                           ELSE LET x == Max(s) IN
                                IF rules[x].http /\ rules[x].host = h
                                THEN f[s \ {x}] \o rules[x].paths ELSE f[s \ {x}]]
           iter == CHOOSE f : Eq(f)
           step == [p \in D \X (1..n) |->
                      IF rules[p[2]].http /\ rules[p[2]].host = h
                      THEN p[1] \o rules[p[2]].paths ELSE p[1]]
<1>1. PathsOf(ing, h) = iter[DOMAIN rules]
  BY <1>0 DEF PathsOf, FoldLeft, MapThenFoldSet
<1>2. n \in Nat /\ DOMAIN rules = 1..n /\ \A i \in 1..n : rules[i] \in Rule
  OBVIOUS
<1>3. <<>> \in D
  OBVIOUS
<1>4. step \in [D \X (1..n) -> D]
  <2>1. \A i \in 1..n : rules[i].paths \in D
    BY <1>2 DEF Rule
  <2> QED BY <2>1
<1>5. \A d \in D, i \in 1..n :
        step[d, i] = IF rules[i].http /\ rules[i].host = h
                     THEN d \o rules[i].paths ELSE d
  OBVIOUS
<1> HIDE DEF n, D, step
<1>6. PICK f : IsTable(f, n, D, <<>>, step)
  BY <1>2, <1>3, <1>4, FoldTable
<1>7. ASSUME NEW s \in SUBSET (1..n)
      PROVE  f[s] = IF s = {} THEN <<>>
                    ELSE LET x == Max(s) IN
                         IF rules[x].http /\ rules[x].host = h
                         THEN f[s \ {x}] \o rules[x].paths ELSE f[s \ {x}]
  <2>1. CASE s = {}
    BY <1>6, <2>1 DEF IsTable
  <2>2. CASE s # {}
    <3>1. Max(s) \in 1..n
      BY <1>2, <2>2, MaxIsGreatest
    <3>2. f[s \ {Max(s)}] \in D
      BY <1>6 DEF IsTable
    <3> QED BY <1>5, <1>6, <2>2, <3>1, <3>2 DEF IsTable
  <2> QED BY <2>1, <2>2
<1>8. Eq(f)
  BY <1>2, <1>6, <1>7 DEF IsTable
<1>9. Eq(iter)
  BY <1>8
<1>10. Iterates(iter, n, D, <<>>, step)
  <2> HIDE DEF iter
  <2>0. \A s \in SUBSET (1..n) : s # {} =>
          iter[s] = IF rules[Max(s)].http /\ rules[Max(s)].host = h
                    THEN iter[s \ {Max(s)}] \o rules[Max(s)].paths
                    ELSE iter[s \ {Max(s)}]
    BY <1>2, <1>9
  <2>1. iter[{}] = <<>>
    BY <1>2, <1>9
  <2>2. ASSUME NEW i \in 1..n, NEW d \in D, d = iter[1..(i - 1)]
        PROVE  iter[1..i] = step[d, i]
    <3>1. /\ 1..i \in SUBSET (1..n) /\ 1..i # {}
          /\ Max(1..i) = i
          /\ (1..i) \ {Max(1..i)} = 1..(i - 1)
      BY <1>2, FirstIndices
    <3>2. d = iter[(1..i) \ {Max(1..i)}]
      BY <2>2, <3>1
    <3>3. CASE rules[i].http /\ rules[i].host = h
      <4>1. step[d, i] = d \o rules[i].paths
        BY <1>5, <3>3
      <4>2. iter[1..i] = iter[(1..i) \ {Max(1..i)}] \o rules[Max(1..i)].paths
        BY <2>0, <3>1, <3>3
      <4> QED BY <3>1, <3>2, <4>1, <4>2
    <3>4. CASE ~(rules[i].http /\ rules[i].host = h)
      <4>1. step[d, i] = d
        BY <1>5, <3>4
      <4>2. iter[1..i] = iter[(1..i) \ {Max(1..i)}]
        BY <2>0, <3>1, <3>4
      <4> QED BY <3>2, <4>1, <4>2
    <3> QED BY <3>3, <3>4
  <2> QED BY <1>2, <1>3, <1>4, <2>1, <2>2 DEF Iterates
<1> HIDE DEF iter
<1>11. PICK at : IsLoop(at, n, D, <<>>, step) /\ iter[1..n] = at[n]
  BY <1>10, IterIsLoop
<1>12. ASSUME NEW i \in 1..n
       PROVE  at[i] = IF rules[i].http /\ rules[i].host = h
                      THEN at[i - 1] \o rules[i].paths ELSE at[i - 1]
  <2>1. i - 1 \in 0..n
    BY <1>2
  <2>2. at \in [0..n -> D] /\ at[i] = step[at[i - 1], i]
    BY <1>11 DEF IsLoop
  <2>3. at[i - 1] \in D
    BY <2>1, <2>2
  <2> QED BY <1>5, <2>2, <2>3
<1>13. at \in [0..n -> D] /\ at[0] = <<>> /\ PathsOf(ing, h) = at[n]
  BY <1>1, <1>2, <1>11 DEF IsLoop
<1> QED BY <1>0, <1>12, <1>13 DEF n, D, GathersOf

\* The paths of all hosts that the loop has collected after each rule.
Gathers(ing, at) ==
  /\ at \in [0..Len(ing.rules) -> Seq(RulePath)]
  /\ at[0] = <<>>
  /\ \A i \in 1..Len(ing.rules) :
       at[i] = IF ing.rules[i].http
               THEN at[i - 1] \o ing.rules[i].paths ELSE at[i - 1]
  /\ AllPaths(ing) = at[Len(ing.rules)]

\* The loop that collects the paths of all rules.
LEMMA AllPathsLoop ==
  ASSUME NEW ing, IngressOK(ing)
  PROVE  \E at : Gathers(ing, at)
<1>0. PICK rules \in Seq(Rule) : rules = ing.rules
  BY DEF IngressOK
<1> DEFINE n == Len(rules)
           D == Seq(RulePath)
           Eq(f) == f = [s \in SUBSET DOMAIN rules |->
                           IF s = {} THEN <<>>
                           ELSE LET x == Max(s) IN
                                IF rules[x].http
                                THEN f[s \ {x}] \o rules[x].paths ELSE f[s \ {x}]]
           iter == CHOOSE f : Eq(f)
           step == [y \in D \X (1..n) |->
                      IF rules[y[2]].http
                      THEN y[1] \o rules[y[2]].paths ELSE y[1]]
<1>1. AllPaths(ing) = iter[DOMAIN rules]
  BY <1>0 DEF AllPaths, FoldLeft, MapThenFoldSet
<1>2. n \in Nat /\ DOMAIN rules = 1..n /\ \A i \in 1..n : rules[i] \in Rule
  OBVIOUS
<1>3. <<>> \in D
  OBVIOUS
<1>4. step \in [D \X (1..n) -> D]
  <2>1. \A i \in 1..n : rules[i].paths \in D
    BY <1>2 DEF Rule
  <2> QED BY <2>1
<1>5. \A d \in D, i \in 1..n :
        step[d, i] = IF rules[i].http
                     THEN d \o rules[i].paths ELSE d
  OBVIOUS
<1> HIDE DEF n, D, step
<1>6. PICK f : IsTable(f, n, D, <<>>, step)
  BY <1>2, <1>3, <1>4, FoldTable
<1>7. ASSUME NEW s \in SUBSET (1..n)
      PROVE  f[s] = IF s = {} THEN <<>>
                    ELSE LET x == Max(s) IN
                         IF rules[x].http
                         THEN f[s \ {x}] \o rules[x].paths ELSE f[s \ {x}]
  <2>1. CASE s = {}
    BY <1>6, <2>1 DEF IsTable
  <2>2. CASE s # {}
    <3>1. Max(s) \in 1..n
      BY <1>2, <2>2, MaxIsGreatest
    <3>2. f[s \ {Max(s)}] \in D
      BY <1>6 DEF IsTable
    <3> QED BY <1>5, <1>6, <2>2, <3>1, <3>2 DEF IsTable
  <2> QED BY <2>1, <2>2
<1>8. Eq(f)
  BY <1>2, <1>6, <1>7 DEF IsTable
<1>9. Eq(iter)
  BY <1>8
<1>10. Iterates(iter, n, D, <<>>, step)
  <2> HIDE DEF iter
  <2>0. \A s \in SUBSET (1..n) : s # {} =>
          iter[s] = IF rules[Max(s)].http
                    THEN iter[s \ {Max(s)}] \o rules[Max(s)].paths
                    ELSE iter[s \ {Max(s)}]
    BY <1>2, <1>9
  <2>1. iter[{}] = <<>>
    BY <1>2, <1>9
  <2>2. ASSUME NEW i \in 1..n, NEW d \in D, d = iter[1..(i - 1)]
        PROVE  iter[1..i] = step[d, i]
    <3>1. /\ 1..i \in SUBSET (1..n) /\ 1..i # {}
          /\ Max(1..i) = i
          /\ (1..i) \ {Max(1..i)} = 1..(i - 1)
      BY <1>2, FirstIndices
    <3>2. d = iter[(1..i) \ {Max(1..i)}]
      BY <2>2, <3>1
    <3>3. CASE rules[i].http
      <4>1. step[d, i] = d \o rules[i].paths
        BY <1>5, <3>3
      <4>2. iter[1..i] = iter[(1..i) \ {Max(1..i)}] \o rules[Max(1..i)].paths
        BY <2>0, <3>1, <3>3
      <4> QED BY <3>1, <3>2, <4>1, <4>2
    <3>4. CASE ~(rules[i].http)
      <4>1. step[d, i] = d
        BY <1>5, <3>4
      <4>2. iter[1..i] = iter[(1..i) \ {Max(1..i)}]
        BY <2>0, <3>1, <3>4
      <4> QED BY <3>2, <4>1, <4>2
    <3> QED BY <3>3, <3>4
  <2> QED BY <1>2, <1>3, <1>4, <2>1, <2>2 DEF Iterates
<1> HIDE DEF iter
<1>11. PICK at : IsLoop(at, n, D, <<>>, step) /\ iter[1..n] = at[n]
  BY <1>10, IterIsLoop
<1>12. ASSUME NEW i \in 1..n
       PROVE  at[i] = IF rules[i].http
                      THEN at[i - 1] \o rules[i].paths ELSE at[i - 1]
  <2>1. i - 1 \in 0..n
    BY <1>2
  <2>2. at \in [0..n -> D] /\ at[i] = step[at[i - 1], i]
    BY <1>11 DEF IsLoop
  <2>3. at[i - 1] \in D
    BY <2>1, <2>2
  <2> QED BY <1>5, <2>2, <2>3
<1>13. at \in [0..n -> D] /\ at[0] = <<>> /\ AllPaths(ing) = at[n]
  BY <1>1, <1>2, <1>11 DEF IsLoop
<1> QED BY <1>0, <1>12, <1>13 DEF n, D, Gathers

\* The loop that adds up numbers.
LEMMA PositionLoop ==
  ASSUME NEW counts \in Seq(Nat)
  PROVE  \E at :
           /\ at \in [0..Len(counts) -> Nat]
           /\ at[0] = 0
           /\ \A i \in 1..Len(counts) :
                at[i] = at[i - 1] + counts[i]
           /\ FoldLeft(+, 0, counts) = at[Len(counts)]
<1>0. Len(counts) \in Nat
  OBVIOUS
<1> DEFINE n == Len(counts)
           D == Nat
           Eq(f) == f = [s \in SUBSET DOMAIN counts |->
                           IF s = {} THEN 0
                           ELSE LET x == Max(s) IN
                                f[s \ {x}] + counts[x]]
           iter == CHOOSE f : Eq(f)
           step == [y \in D \X (1..n) |->
                      y[1] + counts[y[2]]]
<1>1. FoldLeft(+, 0, counts) = iter[DOMAIN counts]
  BY <1>0 DEF FoldLeft, MapThenFoldSet
<1>2. n \in Nat /\ DOMAIN counts = 1..n /\ \A i \in 1..n : counts[i] \in Nat
  OBVIOUS
<1>3. 0 \in D
  OBVIOUS
<1>4. step \in [D \X (1..n) -> D]
  BY <1>2
<1>5. \A d \in D, i \in 1..n :
        step[d, i] = d + counts[i]
  OBVIOUS
<1> HIDE DEF n, D, step
<1>6. PICK f : IsTable(f, n, D, 0, step)
  BY <1>2, <1>3, <1>4, FoldTable
<1>7. ASSUME NEW s \in SUBSET (1..n)
      PROVE  f[s] = IF s = {} THEN 0
                    ELSE LET x == Max(s) IN
                         f[s \ {x}] + counts[x]
  <2>1. CASE s = {}
    BY <1>6, <2>1 DEF IsTable
  <2>2. CASE s # {}
    <3>1. Max(s) \in 1..n
      BY <1>2, <2>2, MaxIsGreatest
    <3>2. f[s \ {Max(s)}] \in D
      BY <1>6 DEF IsTable
    <3> QED BY <1>5, <1>6, <2>2, <3>1, <3>2 DEF IsTable
  <2> QED BY <2>1, <2>2
<1>8. Eq(f)
  BY <1>2, <1>6, <1>7 DEF IsTable
<1>9. Eq(iter)
  BY <1>8
<1>10. Iterates(iter, n, D, 0, step)
  <2> HIDE DEF iter
  <2>1. iter[{}] = 0
    BY <1>2, <1>9
  <2>2. ASSUME NEW i \in 1..n, NEW d \in D, d = iter[1..(i - 1)]
        PROVE  iter[1..i] = step[d, i]
    <3>1. iter[1..i] = d + counts[i]
      BY <1>2, <1>9, <2>2, FirstIndices
    <3> QED BY <1>5, <3>1
  <2> QED BY <1>2, <1>3, <1>4, <2>1, <2>2 DEF Iterates
<1> HIDE DEF iter
<1>11. PICK at : IsLoop(at, n, D, 0, step) /\ iter[1..n] = at[n]
  BY <1>10, IterIsLoop
<1>12. ASSUME NEW i \in 1..n
       PROVE  at[i] = at[i - 1] + counts[i]
  <2>1. i - 1 \in 0..n
    BY <1>2
  <2>2. at \in [0..n -> D] /\ at[i] = step[at[i - 1], i]
    BY <1>11 DEF IsLoop
  <2>3. at[i - 1] \in D
    BY <2>1, <2>2
  <2> QED BY <1>5, <2>2, <2>3
<1>13. at \in [0..n -> D] /\ at[0] = 0 /\ FoldLeft(+, 0, counts) = at[n]
  BY <1>1, <1>2, <1>11 DEF IsLoop
<1> QED BY <1>0, <1>12, <1>13 DEF n, D

-----------------------------------------------------------------------------
(* The port of a Service and its annotations.                               *)

\* The loop over the ports of a Service.
LEMMA PortLoop ==
  ASSUME NEW from, NEW p, from[p.service].ports \in Seq(Port)
  PROVE  \E at :
           /\ at \in [0..Len(from[p.service].ports) -> Port \cup {Nil}]
           /\ at[0] = Nil
           /\ \A i \in 1..Len(from[p.service].ports) :
                at[i] = IF at[i - 1] = Nil /\ from[p.service].ports[i].port = p.port
                        THEN from[p.service].ports[i] ELSE at[i - 1]
           /\ MatchingPort(from, p) = at[Len(from[p.service].ports)]
<1>0. PICK ports \in Seq(Port) : ports = from[p.service].ports
  OBVIOUS
<1> DEFINE n == Len(ports)
           D == Port \cup {Nil}
           Eq(f) == f = [s \in SUBSET DOMAIN ports |->
                           IF s = {} THEN Nil
                           ELSE LET x == Max(s) IN
                                IF f[s \ {x}] = Nil /\ ports[x].port = p.port
                                THEN ports[x] ELSE f[s \ {x}]]
           iter == CHOOSE f : Eq(f)
           step == [y \in D \X (1..n) |->
                      IF y[1] = Nil /\ ports[y[2]].port = p.port
                      THEN ports[y[2]] ELSE y[1]]
<1>1. MatchingPort(from, p) = iter[DOMAIN ports]
  BY <1>0 DEF MatchingPort, FoldLeft, MapThenFoldSet
<1>2. n \in Nat /\ DOMAIN ports = 1..n /\ \A i \in 1..n : ports[i] \in Port
  OBVIOUS
<1>3. Nil \in D
  OBVIOUS
<1>4. step \in [D \X (1..n) -> D]
  BY <1>2
<1>5. \A d \in D, i \in 1..n :
        step[d, i] = IF d = Nil /\ ports[i].port = p.port
                     THEN ports[i] ELSE d
  OBVIOUS
<1> HIDE DEF n, D, step
<1>6. PICK f : IsTable(f, n, D, Nil, step)
  BY <1>2, <1>3, <1>4, FoldTable
<1>7. ASSUME NEW s \in SUBSET (1..n)
      PROVE  f[s] = IF s = {} THEN Nil
                    ELSE LET x == Max(s) IN
                         IF f[s \ {x}] = Nil /\ ports[x].port = p.port
                         THEN ports[x] ELSE f[s \ {x}]
  <2>1. CASE s = {}
    BY <1>6, <2>1 DEF IsTable
  <2>2. CASE s # {}
    <3>1. Max(s) \in 1..n
      BY <1>2, <2>2, MaxIsGreatest
    <3>2. f[s \ {Max(s)}] \in D
      BY <1>6 DEF IsTable
    <3> QED BY <1>5, <1>6, <2>2, <3>1, <3>2 DEF IsTable
  <2> QED BY <2>1, <2>2
<1>8. Eq(f)
  BY <1>2, <1>6, <1>7 DEF IsTable
<1>9. Eq(iter)
  BY <1>8
<1>10. Iterates(iter, n, D, Nil, step)
  <2> HIDE DEF iter
  <2>1. iter[{}] = Nil
    BY <1>2, <1>9
  <2>2. ASSUME NEW i \in 1..n, NEW d \in D, d = iter[1..(i - 1)]
        PROVE  iter[1..i] = step[d, i]
    <3>1. iter[1..i] = IF d = Nil /\ ports[i].port = p.port
                       THEN ports[i] ELSE d
      BY <1>2, <1>9, <2>2, FirstIndices
    <3> QED BY <1>5, <3>1
  <2> QED BY <1>2, <1>3, <1>4, <2>1, <2>2 DEF Iterates
<1> HIDE DEF iter
<1>11. PICK at : IsLoop(at, n, D, Nil, step) /\ iter[1..n] = at[n]
  BY <1>10, IterIsLoop
<1>12. ASSUME NEW i \in 1..n
       PROVE  at[i] = IF at[i - 1] = Nil /\ ports[i].port = p.port
                      THEN ports[i] ELSE at[i - 1]
  <2>1. i - 1 \in 0..n
    BY <1>2
  <2>2. at \in [0..n -> D] /\ at[i] = step[at[i - 1], i]
    BY <1>11 DEF IsLoop
  <2>3. at[i - 1] \in D
    BY <2>1, <2>2
  <2> QED BY <1>5, <2>2, <2>3
<1>13. at \in [0..n -> D] /\ at[0] = Nil /\ MatchingPort(from, p) = at[n]
  BY <1>1, <1>2, <1>11 DEF IsLoop
<1> QED BY <1>0, <1>12, <1>13 DEF n, D

\* What the annotations of the Services of paths say, and what is kept of it.
Notes(from, paths) ==
  {from[paths[i].service].notes[note] : i \in DOMAIN paths, note \in Note} \cup {Nil}

Kept(from, paths) == [Note -> Notes(from, paths)]

\* The loop over the annotations of the Services of a host's paths.
LEMMA NotesLoop ==
  ASSUME NEW from, NEW paths \in Seq(RulePath)
  PROVE  \E at :
           /\ at \in [0..Len(paths) -> Kept(from, paths)]
           /\ at[0] = [note \in Note |-> Nil]
           /\ \A i \in 1..Len(paths) :
                at[i] = Overlay(at[i - 1], from[paths[i].service].notes)
           /\ LastWin(from, paths) = at[Len(paths)]
<1>0. Len(paths) \in Nat
  OBVIOUS
<1> DEFINE n == Len(paths)
           D == Kept(from, paths)
           Eq(f) == f = [s \in SUBSET DOMAIN paths |->
                           IF s = {} THEN [note \in Note |-> Nil]
                           ELSE LET x == Max(s) IN
                                Overlay(f[s \ {x}], from[paths[x].service].notes)]
           iter == CHOOSE f : Eq(f)
           step == [y \in D \X (1..n) |->
                      Overlay(y[1], from[paths[y[2]].service].notes)]
<1>1. LastWin(from, paths) = iter[DOMAIN paths]
  BY <1>0 DEF LastWin, FoldLeft, MapThenFoldSet
<1>2. n \in Nat /\ DOMAIN paths = 1..n
  OBVIOUS
<1>3. [note \in Note |-> Nil] \in D
  <2>1. Nil \in Notes(from, paths)
    BY DEF Notes
  <2> QED BY <2>1 DEF Kept, Overlay
<1>4. step \in [D \X (1..n) -> D]
  <2>1. \A i \in 1..n, note \in Note :
          from[paths[i].service].notes[note] \in Notes(from, paths)
    BY <1>2 DEF Notes
  <2> QED BY <2>1 DEF Kept, Overlay
<1>5. \A d \in D, i \in 1..n :
        step[d, i] = Overlay(d, from[paths[i].service].notes)
  OBVIOUS
<1> HIDE DEF n, D, step
<1>6. PICK f : IsTable(f, n, D, [note \in Note |-> Nil], step)
  BY <1>2, <1>3, <1>4, FoldTable
<1>7. ASSUME NEW s \in SUBSET (1..n)
      PROVE  f[s] = IF s = {} THEN [note \in Note |-> Nil]
                    ELSE LET x == Max(s) IN
                         Overlay(f[s \ {x}], from[paths[x].service].notes)
  <2>1. CASE s = {}
    BY <1>6, <2>1 DEF IsTable
  <2>2. CASE s # {}
    <3>1. Max(s) \in 1..n
      BY <1>2, <2>2, MaxIsGreatest
    <3>2. f[s \ {Max(s)}] \in D
      BY <1>6 DEF IsTable
    <3> QED BY <1>5, <1>6, <2>2, <3>1, <3>2 DEF IsTable
  <2> QED BY <2>1, <2>2
<1>8. Eq(f)
  BY <1>2, <1>6, <1>7 DEF IsTable
<1>9. Eq(iter)
  BY <1>8
<1>10. Iterates(iter, n, D, [note \in Note |-> Nil], step)
  <2> HIDE DEF iter
  <2>1. iter[{}] = [note \in Note |-> Nil]
    BY <1>2, <1>9
  <2>2. ASSUME NEW i \in 1..n, NEW d \in D, d = iter[1..(i - 1)]
        PROVE  iter[1..i] = step[d, i]
    <3>1. iter[1..i] = Overlay(d, from[paths[i].service].notes)
      BY <1>2, <1>9, <2>2, FirstIndices
    <3> QED BY <1>5, <3>1
  <2> QED BY <1>2, <1>3, <1>4, <2>1, <2>2 DEF Iterates
<1> HIDE DEF iter
<1>11. PICK at : IsLoop(at, n, D, [note \in Note |-> Nil], step) /\ iter[1..n] = at[n]
  BY <1>10, IterIsLoop
<1>12. ASSUME NEW i \in 1..n
       PROVE  at[i] = Overlay(at[i - 1], from[paths[i].service].notes)
  <2>1. i - 1 \in 0..n
    BY <1>2
  <2>2. at \in [0..n -> D] /\ at[i] = step[at[i - 1], i]
    BY <1>11 DEF IsLoop
  <2>3. at[i - 1] \in D
    BY <2>1, <2>2
  <2> QED BY <1>5, <2>2, <2>3
<1>13. /\ at \in [0..n -> D] /\ at[0] = [note \in Note |-> Nil]
       /\ LastWin(from, paths) = at[n]
  BY <1>1, <1>2, <1>11 DEF IsLoop
<1> QED BY <1>0, <1>12, <1>13 DEF n, D

\* The ports up to the m-th that have the number of a path.
Open(ports, p, m) == {i \in 1..m : ports[i].port = p.port}

\* The port of a Service that a path leads to is the first with its number.
LEMMA FirstPort ==
  ASSUME NEW from, NEW p, from[p.service].ports \in Seq(Port), Nil \notin Port
  PROVE  LET ports == from[p.service].ports
             open  == Open(ports, p, Len(ports))
         IN MatchingPort(from, p) = IF open = {} THEN Nil ELSE ports[Min(open)]
<1>0. PICK ports \in Seq(Port) : ports = from[p.service].ports
  OBVIOUS
<1>1. PICK at :
        /\ at[0] = Nil
        /\ \A i \in 1..Len(ports) :
             at[i] = IF at[i - 1] = Nil /\ ports[i].port = p.port
                     THEN ports[i] ELSE at[i - 1]
        /\ MatchingPort(from, p) = at[Len(ports)]
  BY <1>0, PortLoop
<1> DEFINE Right(m) == at[m] = IF Open(ports, p, m) = {} THEN Nil
                               ELSE ports[Min(Open(ports, p, m))]
           S == {m \in Nat : m <= Len(ports) => Right(m)}
<1>2. Right(0)
  <2>1. Open(ports, p, 0) = {}
    BY DEF Open
  <2> QED BY <1>1, <2>1
<1>3. ASSUME NEW m \in Nat, m + 1 \in 1..Len(ports), Right(m)
      PROVE  Right(m + 1)
  <2>1. at[m + 1] = IF at[m] = Nil /\ ports[m + 1].port = p.port
                    THEN ports[m + 1] ELSE at[m]
    <3>1. (m + 1) - 1 = m
      OBVIOUS
    <3> HIDE DEF Right
    <3> QED BY <1>1, <1>3, <3>1
  <2>2. CASE Open(ports, p, m) = {}
    <3>1. at[m] = Nil
      BY <1>3, <2>2
    <3>2. CASE ports[m + 1].port = p.port
      <4>1. Open(ports, p, m + 1) = {m + 1}
        BY <2>2, <3>2 DEF Open
      <4>2. Min({m + 1}) = m + 1
        <5>1. {m + 1} \in SUBSET Nat /\ {m + 1} # {}
          OBVIOUS
        <5> QED BY <5>1, MinIsLeast
      <4> QED BY <2>1, <3>1, <3>2, <4>1, <4>2
    <3>3. CASE ports[m + 1].port # p.port
      <4>1. Open(ports, p, m + 1) = {}
        BY <2>2, <3>3 DEF Open
      <4> QED BY <2>1, <3>1, <3>3, <4>1
    <3> QED BY <3>2, <3>3
  <2>3. CASE Open(ports, p, m) # {}
    <3> DEFINE old == Open(ports, p, m)
               new == Open(ports, p, m + 1)
    <3>1. /\ old \in SUBSET Nat /\ new \in SUBSET Nat
          /\ old \subseteq new /\ \A i \in new : i \in old \/ i = m + 1
          /\ \A i \in old : i \in 1..m
      BY DEF Open
    <3> HIDE DEF old, new
    <3>2. /\ Min(old) \in old /\ \A i \in old : Min(old) <= i
          /\ Min(new) \in new /\ \A i \in new : Min(new) <= i
      BY <2>3, <3>1, MinIsLeast DEF old
    <3>3. Min(new) = Min(old)
      <4>1. Min(new) <= Min(old) /\ Min(old) \in 1..m /\ Min(new) \in Nat
        BY <3>1, <3>2
      <4>2. Min(new) \in old
        BY <3>1, <3>2, <4>1
      <4>3. Min(old) <= Min(new)
        BY <3>2, <4>2
      <4> QED BY <4>1, <4>3
    <3>4. at[m] = ports[Min(old)]
      BY <1>3, <2>3 DEF old
    <3>5. at[m] # Nil
      <4>1. Min(old) \in 1..Len(ports)
        <5>1. PICK x : x = Min(old)
          OBVIOUS
        <5>2. x \in 1..m
          BY <3>1, <3>2, <5>1
        <5>3. m + 1 \in 1..Len(ports) /\ Len(ports) \in Nat
          BY <1>3
        <5>4. x \in 1..Len(ports)
          BY <5>2, <5>3
        <5> QED BY <5>1, <5>4
      <4>2. ports[Min(old)] \in Port
        BY <4>1
      <4> QED BY <3>4, <4>2
    <3>6. at[m + 1] = ports[Min(new)] /\ new # {}
      BY <2>1, <3>2, <3>3, <3>4, <3>5
    <3> QED BY <3>6 DEF new
  <2> QED BY <2>2, <2>3
<1> HIDE DEF Right
<1>4. 0 \in S
  BY <1>2
<1>5. \A m \in Nat : m \in S => m + 1 \in S
  BY <1>3
<1> HIDE DEF S
<1>6. Len(ports) \in S
  BY <1>4, <1>5, SetInduction
<1>7. Right(Len(ports))
  BY <1>6 DEF S
<1> QED BY <1>0, <1>1, <1>7 DEF Right

\* The paths up to the m-th whose Service has an annotation.
Saying(from, paths, note, m) == {i \in 1..m : from[paths[i].service].notes[note] # Nil}

\* The last path whose Service has an annotation decides.
LEMMA LastSays ==
  ASSUME NEW from, NEW paths \in Seq(RulePath), NEW note \in Note
  PROVE  LET said == Saying(from, paths, note, Len(paths)) IN
         LastWin(from, paths)[note] =
           IF said = {} THEN Nil ELSE from[paths[Max(said)].service].notes[note]
<1>1. PICK at :
        /\ at[0] = [n \in Note |-> Nil]
        /\ \A i \in 1..Len(paths) :
             at[i] = Overlay(at[i - 1], from[paths[i].service].notes)
        /\ LastWin(from, paths) = at[Len(paths)]
  BY NotesLoop
<1> DEFINE Said(m) == Saying(from, paths, note, m)
           Right(m) == at[m][note] = IF Said(m) = {} THEN Nil
                                     ELSE from[paths[Max(Said(m))].service].notes[note]
           S == {m \in Nat : m <= Len(paths) => Right(m)}
<1>2. Right(0)
  <2>1. Saying(from, paths, note, 0) = {}
    BY DEF Saying
  <2> QED BY <1>1, <2>1
<1>3. ASSUME NEW m \in Nat, m + 1 \in 1..Len(paths), Right(m)
      PROVE  Right(m + 1)
  <2>0. PICK notes : notes = from[paths[m + 1].service].notes
    OBVIOUS
  <2>1. at[m + 1][note] = IF notes[note] # Nil THEN notes[note] ELSE at[m][note]
    <3>1. (m + 1) - 1 = m
      OBVIOUS
    <3>2. at[m + 1] = Overlay(at[m], notes)
      <4> HIDE DEF Right
      <4> QED BY <1>1, <1>3, <2>0, <3>1
    <3> QED BY <3>2 DEF Overlay
  <2>2. CASE notes[note] # Nil
    <3>1. Said(m + 1) \in SUBSET (1..(m + 1)) /\ m + 1 \in Said(m + 1)
      BY <2>0, <2>2 DEF Saying
    <3>2. Max(Said(m + 1)) = m + 1
      BY <3>1, MaxOfAll
    <3> QED BY <2>0, <2>1, <2>2, <3>1, <3>2
  <2>3. CASE notes[note] = Nil
    <3>1. Said(m + 1) = Said(m)
      BY <2>0, <2>3 DEF Saying
    <3> QED BY <1>3, <2>1, <2>3, <3>1
  <2> QED BY <2>2, <2>3
<1> HIDE DEF Right
<1>4. 0 \in S
  BY <1>2
<1>5. \A m \in Nat : m \in S => m + 1 \in S
  BY <1>3
<1> HIDE DEF S
<1>6. Len(paths) \in S
  BY <1>4, <1>5, SetInduction
<1>7. Right(Len(paths))
  BY <1>6 DEF S
<1> QED BY <1>1, <1>7 DEF Right

-----------------------------------------------------------------------------
(* Where a path is among the paths.                                         *)

\* What holds for all rules up to the m-th.
Collected(rules, take, at, m) ==
  \A r \in 1..m : r \in take =>
    \A j \in DOMAIN rules[r].paths :
      /\ Len(at[r - 1]) + j \in DOMAIN at[m]
      /\ at[m][Len(at[r - 1]) + j] = rules[r].paths[j]

\* A loop that collects the paths of some rules has each of them in its place.
LEMMA CollectedRight ==
  ASSUME NEW rules \in Seq(Rule), NEW take \in SUBSET DOMAIN rules, NEW at,
         at \in [0..Len(rules) -> Seq(RulePath)],
         \A i \in 1..Len(rules) :
           at[i] = IF i \in take THEN at[i - 1] \o rules[i].paths ELSE at[i - 1]
  PROVE  Collected(rules, take, at, Len(rules))
<1> DEFINE Right(m) == Collected(rules, take, at, m)
           S == {m \in Nat : m <= Len(rules) => Right(m)}
<1>1. Right(0)
  BY DEF Collected
<1>2. ASSUME NEW m \in Nat, m + 1 \in 1..Len(rules), Right(m)
      PROVE  Right(m + 1)
  <2>1. PICK old, new, more \in Seq(RulePath) :
          /\ old = at[m] /\ new = at[m + 1] /\ more = rules[m + 1].paths
          /\ new = IF m + 1 \in take THEN old \o more ELSE old
    <3>1. m \in 0..Len(rules) /\ m + 1 \in 0..Len(rules) /\ (m + 1) - 1 = m
      BY <1>2
    <3>2. at[m] \in Seq(RulePath) /\ at[m + 1] \in Seq(RulePath)
      BY <3>1
    <3>3. rules[m + 1] \in Rule
      BY <1>2
    <3>4. rules[m + 1].paths \in Seq(RulePath)
      BY <3>3 DEF Rule
    <3>5. at[m + 1] = IF m + 1 \in take THEN at[m] \o rules[m + 1].paths ELSE at[m]
      BY <1>2, <3>1
    <3> QED BY <3>2, <3>4, <3>5
  <2>2. \A i \in DOMAIN old : i \in DOMAIN new /\ new[i] = old[i]
    <3>1. /\ \A i \in DOMAIN old : i \in DOMAIN (old \o more)
          /\ \A i \in DOMAIN old : (old \o more)[i] = old[i]
      OBVIOUS
    <3>2. new = old \/ new = old \o more
      BY <2>1
    <3> QED BY <3>1, <3>2
  <2>3. ASSUME NEW r \in 1..(m + 1), r \in take, NEW j \in DOMAIN rules[r].paths
        PROVE  /\ Len(at[r - 1]) + j \in DOMAIN new
               /\ new[Len(at[r - 1]) + j] = rules[r].paths[j]
    <3>1. CASE r \in 1..m
      <4>1. /\ Len(at[r - 1]) + j \in DOMAIN old
            /\ old[Len(at[r - 1]) + j] = rules[r].paths[j]
        BY <1>2, <2>1, <2>3, <3>1 DEF Collected
      <4> QED BY <2>2, <4>1
    <3>2. CASE r = m + 1
      <4>1. r - 1 = m
        BY <3>2
      <4>2. at[r - 1] = old /\ rules[r].paths = more /\ new = old \o more
        BY <2>1, <2>3, <3>2, <4>1
      <4>3. j \in DOMAIN more
        BY <2>3, <4>2
      <4>4. Len(old) + j \in DOMAIN new /\ new[Len(old) + j] = more[j]
        BY <4>2, <4>3
      <4> QED BY <4>2, <4>4
    <3> QED BY <3>1, <3>2
  <2> QED BY <2>1, <2>3 DEF Collected
<1> HIDE DEF Right
<1>3. 0 \in S
  BY <1>1
<1>4. \A m \in Nat : m \in S => m + 1 \in S
  BY <1>2
<1> HIDE DEF S
<1>5. Len(rules) \in S
  BY <1>3, <1>4, SetInduction
<1> QED BY <1>5 DEF S, Right

\* Each path is among the paths that are looked at.
LEMMA PathsHaveAll ==
  ASSUME NEW ing, IngressOK(ing), NEW r \in DOMAIN ing.rules, ing.rules[r].http,
         NEW j \in DOMAIN ing.rules[r].paths
  PROVE  ing.rules[r].paths[j] \in Paths(ing)
<1>0. PICK rules \in Seq(Rule) : rules = ing.rules
  BY DEF IngressOK
<1>1. PICK at :
        /\ at \in [0..Len(rules) -> Seq(RulePath)]
        /\ \A i \in 1..Len(rules) :
             at[i] = IF rules[i].http THEN at[i - 1] \o rules[i].paths ELSE at[i - 1]
        /\ AllPaths(ing) = at[Len(rules)]
  <2>1. \E at : Gathers(ing, at)
    BY AllPathsLoop
  <2> QED BY <1>0, <2>1 DEF Gathers
<1>2. PICK take : take = {i \in DOMAIN rules : rules[i].http}
  OBVIOUS
<1>3. \A i \in 1..Len(rules) :
        at[i] = IF i \in take THEN at[i - 1] \o rules[i].paths ELSE at[i - 1]
  BY <1>1, <1>2
<1>4. take \in SUBSET DOMAIN rules
  BY <1>2
<1>5. Collected(rules, take, at, Len(rules))
  BY <1>1, <1>3, <1>4, CollectedRight
<1>6. r \in 1..Len(rules) /\ r \in take /\ j \in DOMAIN rules[r].paths
  BY <1>0, <1>2
<1>7. PICK i : /\ i \in DOMAIN AllPaths(ing)
               /\ AllPaths(ing)[i] = ing.rules[r].paths[j]
  BY <1>0, <1>1, <1>5, <1>6 DEF Collected
<1> QED BY <1>7 DEF Paths, ToSet

\* Position is the place of a path among the paths of its host.
LEMMA PositionRight ==
  ASSUME NEW ing, IngressOK(ing), NEW r \in DOMAIN ing.rules, ing.rules[r].http,
         NEW j \in DOMAIN ing.rules[r].paths
  PROVE  LET paths == PathsOf(ing, ing.rules[r].host) IN
         /\ Position(ing, r, j) \in DOMAIN paths
         /\ paths[Position(ing, r, j)] = ing.rules[r].paths[j]
<1>0. PICK rules \in Seq(Rule) : rules = ing.rules
  BY DEF IngressOK
<1>1. PICK h : h = rules[r].host
  OBVIOUS
<1>2. PICK at :
        /\ at \in [0..Len(rules) -> Seq(RulePath)]
        /\ at[0] = <<>>
        /\ \A i \in 1..Len(rules) :
             at[i] = IF rules[i].http /\ rules[i].host = h
                     THEN at[i - 1] \o rules[i].paths ELSE at[i - 1]
        /\ PathsOf(ing, h) = at[Len(rules)]
  <2>1. \E at : GathersOf(ing, h, at)
    BY PathsLoop
  <2> QED BY <1>0, <2>1 DEF GathersOf
<1>3. PICK take : take = {i \in DOMAIN rules : rules[i].http /\ rules[i].host = h}
  OBVIOUS
<1>4. \A i \in 1..Len(rules) :
        at[i] = IF i \in take THEN at[i - 1] \o rules[i].paths ELSE at[i - 1]
  BY <1>2, <1>3
<1>5. take \in SUBSET DOMAIN rules
  BY <1>3
<1>6. Collected(rules, take, at, Len(rules))
  BY <1>2, <1>4, <1>5, CollectedRight
<1>7. r \in 1..Len(rules) /\ r \in take /\ j \in DOMAIN rules[r].paths
  BY <1>0, <1>1, <1>3
<1>8. /\ Len(at[r - 1]) + j \in DOMAIN PathsOf(ing, h)
      /\ PathsOf(ing, h)[Len(at[r - 1]) + j] = rules[r].paths[j]
  BY <1>2, <1>6, <1>7 DEF Collected
<1> DEFINE counts == [i \in 1..(r - 1) |->
                        IF rules[i].http /\ rules[i].host = h
                        THEN Len(rules[i].paths) ELSE 0]
<1>9. counts \in Seq(Nat) /\ Len(counts) = r - 1
  <2>1. \A i \in 1..(r - 1) : rules[i] \in Rule
    BY <1>7
  <2>2. \A i \in 1..(r - 1) : Len(rules[i].paths) \in Nat
    BY <2>1 DEF Rule
  <2>3. r - 1 \in Nat
    BY <1>7
  <2> QED BY <2>2, <2>3
<1>10. Position(ing, r, j) = j + FoldLeft(+, 0, counts)
  BY <1>0, <1>1 DEF Position
<1>11. \A i \in 1..(r - 1) : counts[i] = IF i \in take THEN Len(rules[i].paths) ELSE 0
  BY <1>3, <1>7
<1> HIDE DEF counts
<1>12. PICK sum :
         /\ sum \in [0..(r - 1) -> Nat]
         /\ sum[0] = 0
         /\ \A i \in 1..(r - 1) : sum[i] = sum[i - 1] + counts[i]
         /\ FoldLeft(+, 0, counts) = sum[r - 1]
  BY <1>9, PositionLoop
<1> DEFINE S == {m \in Nat : m <= r - 1 => sum[m] = Len(at[m])}
<1>13. 0 \in S
  BY <1>2, <1>12
<1>14. ASSUME NEW m \in Nat, m + 1 \in 1..(r - 1), sum[m] = Len(at[m])
       PROVE  sum[m + 1] = Len(at[m + 1])
  <2>1. m + 1 \in 1..Len(rules) /\ m \in 0..Len(rules) /\ (m + 1) - 1 = m
    BY <1>7, <1>14
  <2>2. PICK old, more \in Seq(RulePath) : old = at[m] /\ more = rules[m + 1].paths
    <3>1. rules[m + 1] \in Rule /\ at[m] \in Seq(RulePath)
      BY <1>2, <2>1
    <3> QED BY <3>1 DEF Rule
  <2>3. at[m + 1] = IF m + 1 \in take THEN old \o more ELSE old
    BY <1>4, <2>1, <2>2
  <2>4. sum[m + 1] = Len(old) + (IF m + 1 \in take THEN Len(more) ELSE 0)
    BY <1>11, <1>12, <1>14, <2>1, <2>2
  <2> QED BY <2>3, <2>4
<1>15. \A m \in Nat : m \in S => m + 1 \in S
  BY <1>7, <1>14
<1> HIDE DEF S
<1>16. r - 1 \in S
  BY <1>7, <1>13, <1>15, SetInduction
<1>17. sum[r - 1] = Len(at[r - 1])
  BY <1>7, <1>16 DEF S
<1>18. PICK x, place : x = FoldLeft(+, 0, counts) /\ place = Position(ing, r, j)
  OBVIOUS
<1>19. place = Len(at[r - 1]) + j
  <2>1. Len(at[r - 1]) \in Nat /\ x = Len(at[r - 1])
    <3>1. r - 1 \in 0..Len(rules) /\ at \in [0..Len(rules) -> Seq(RulePath)]
      BY <1>2, <1>7
    <3>2. Len(at[r - 1]) \in Nat
      BY <3>1
    <3>3. x = sum[r - 1]
      BY <1>12, <1>18, Zenon
    <3> QED BY <1>17, <3>2, <3>3
  <2>2. j \in Nat
    <3>1. rules[r] \in Rule
      BY <1>7
    <3>2. rules[r].paths \in Seq(RulePath)
      BY <3>1 DEF Rule
    <3> QED BY <1>7, <3>2
  <2>3. place = j + x
    BY <1>10, <1>18
  <2> QED BY <2>1, <2>2, <2>3
<1> QED BY <1>0, <1>1, <1>8, <1>18, <1>19
=============================================================================
