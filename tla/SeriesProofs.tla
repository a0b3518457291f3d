----------------------------- MODULE SeriesProofs -----------------------------
(***************************************************************************)
(* More theorems about module Derivations: what depends on where a sample is *)
(* in the list and not only on what the list holds (UniqueSeries), what the  *)
(* samples are made of (TypeOK) and what they sum up to (HealthTotals).      *)
(***************************************************************************)
EXTENDS DerivationsProofs

-----------------------------------------------------------------------------
(* Lists of samples of which no two have one series.                        *)

\* s is such a list, of samples of the metrics M.
Apart(s) == IsList(s) /\ \A i, j \in DOMAIN s : Series(s[i]) = Series(s[j]) => i = j
Sep(s, M) == Apart(s) /\ \A a \in Range(s) : a.Name \in M

\* What is apart from each other stays apart when it is concatenated,
LEMMA ConcatApart ==
    \A s, t : /\ Apart(s) /\ Apart(t)
              /\ \A a \in Range(s), b \in Range(t) : Series(a) # Series(b)
              => Apart(s \o t)
<1> SUFFICES ASSUME NEW s, NEW t, Apart(s), Apart(t),
                    \A a \in Range(s), b \in Range(t) : Series(a) # Series(b)
             PROVE  Apart(s \o t)
  OBVIOUS
<1> DEFINE m == Len(s)
           n == Len(t)
           u == s \o t
<1>1. IsList(u)
  BY ConcatLists DEF Apart, IsList
<1>2. /\ m \in Nat /\ n \in Nat /\ DOMAIN s = 1..m /\ DOMAIN t = 1..n /\ DOMAIN u = 1..(m + n)
      /\ \A i \in 1..m : u[i] = s[i]
      /\ \A i \in (m + 1)..(m + n) : u[i] = t[i - m]
  <2>1. s \in Seq(Range(s) \cup Range(t)) /\ t \in Seq(Range(s) \cup Range(t))
    BY DEF Apart, IsList
  <2> HIDE DEF Apart
  <2> QED
    BY <2>1
<1> HIDE DEF m, n, u
<1>3. \A i \in (m + 1)..(m + n) : i - m \in 1..n
  BY <1>2
<1>4. \A i \in 1..m : u[i] \in Range(s)
  BY <1>2 DEF Range
<1>5. \A i \in (m + 1)..(m + n) : u[i] \in Range(t)
  BY <1>2, <1>3 DEF Range
<1>6. \A i \in 1..(m + n) : i \in 1..m \/ i \in (m + 1)..(m + n)
  BY <1>2
<1>7. ASSUME NEW i \in 1..(m + n), NEW j \in 1..(m + n), Series(u[i]) = Series(u[j]) PROVE i = j
  <2>1. CASE i \in 1..m /\ j \in 1..m
    BY <1>2, <1>7, <2>1 DEF Apart
  <2>2. CASE i \in (m + 1)..(m + n) /\ j \in (m + 1)..(m + n)
    <3>1. i - m \in 1..n /\ j - m \in 1..n /\ Series(t[i - m]) = Series(t[j - m])
      BY <1>2, <1>3, <1>7, <2>2
    <3>2. i - m = j - m
      BY <1>2, <3>1 DEF Apart
    <3> QED
      BY <1>2, <2>2, <3>2
  <2>3. CASE i \in 1..m /\ j \in (m + 1)..(m + n)
    BY <1>4, <1>5, <1>7, <2>3
  <2>4. CASE i \in (m + 1)..(m + n) /\ j \in 1..m
    BY <1>4, <1>5, <1>7, <2>4
  <2> QED
    BY <1>6, <2>1, <2>2, <2>3, <2>4
<1> QED
  BY <1>1, <1>2, <1>7 DEF Apart, u

\* as are lists of samples of different metrics,
LEMMA ConcatSep ==
    \A s, t, M, N : Sep(s, M) /\ Sep(t, N) /\ M \cap N = {} => Sep(s \o t, M \cup N)
<1> SUFFICES ASSUME NEW s, NEW t, NEW M, NEW N, Sep(s, M), Sep(t, N), M \cap N = {}
             PROVE  Sep(s \o t, M \cup N)
  OBVIOUS
<1>1. \A a \in Range(s), b \in Range(t) : Series(a) # Series(b)
  BY DEF Sep, Series
<1>2. Apart(s \o t)
  BY <1>1, ConcatApart DEF Sep
<1>3. Range(s \o t) = Range(s) \cup Range(t)
  BY ConcatLists DEF Sep, Apart, IsList
<1> QED
  BY <1>2, <1>3 DEF Sep

\* and short sequences of such samples.
LEMMA SepTuples ==
    /\ \A M : Sep(<<>>, M)
    /\ \A a, M : a.Name \in M => Sep(<<a>>, M)
    /\ \A p, a, M : a.Name \in M => Sep(When(p, a), M)
    /\ \A a, b : a.Name # b.Name => Sep(<<a, b>>, {a.Name, b.Name})
    /\ \A a, b, c : a.Name # b.Name /\ a.Name # c.Name /\ b.Name # c.Name =>
          Sep(<<a, b, c>>, {a.Name, b.Name, c.Name})
    /\ \A a, b, c, d : /\ a.Name # b.Name /\ a.Name # c.Name /\ a.Name # d.Name
                       /\ b.Name # c.Name /\ b.Name # d.Name /\ c.Name # d.Name
                       => Sep(<<a, b, c, d>>, {a.Name, b.Name, c.Name, d.Name})
<1>1. \A M : Sep(<<>>, M)
  BY Tuples DEF Sep, Apart, IsList
<1>2. \A a, M : a.Name \in M => Sep(<<a>>, M)
  <2> TAKE a, M
  <2>1. DOMAIN <<a>> = {1}
    OBVIOUS
  <2> QED
    BY <2>1, Tuples DEF Sep, Apart, IsList
<1>3. \A p, a, M : a.Name \in M => Sep(When(p, a), M)
  BY <1>1, <1>2 DEF When
<1>4. ASSUME NEW a, NEW b,
             a.Name # b.Name
      PROVE  Sep(<<a, b>>, {a.Name, b.Name})
  <2> DEFINE t == <<a, b>>
  <2>1. DOMAIN t = {1, 2} /\ t[1] = a /\ t[2] = b
    OBVIOUS
  <2>2. IsList(t) /\ Range(t) = {a, b}
    BY Tuples DEF IsList
  <2> HIDE DEF t
  <2>3. \A i, j \in DOMAIN t : t[i].Name = t[j].Name => i = j
    BY <1>4, <2>1
  <2>4. \A i, j \in DOMAIN t : Series(t[i]) = Series(t[j]) => t[i].Name = t[j].Name
    BY DEF Series
  <2>5. Sep(t, {a.Name, b.Name})
    BY <2>2, <2>3, <2>4 DEF Sep, Apart
  <2> QED
    BY <2>5 DEF t
<1>5. ASSUME NEW a, NEW b, NEW c,
             a.Name # b.Name, a.Name # c.Name, b.Name # c.Name
      PROVE  Sep(<<a, b, c>>, {a.Name, b.Name, c.Name})
  <2> DEFINE t == <<a, b, c>>
  <2>1. DOMAIN t = {1, 2, 3} /\ t[1] = a /\ t[2] = b /\ t[3] = c
    OBVIOUS
  <2>2. IsList(t) /\ Range(t) = {a, b, c}
    BY Tuples DEF IsList
  <2> HIDE DEF t
  <2>3. \A i, j \in DOMAIN t : t[i].Name = t[j].Name => i = j
    BY <1>5, <2>1
  <2>4. \A i, j \in DOMAIN t : Series(t[i]) = Series(t[j]) => t[i].Name = t[j].Name
    BY DEF Series
  <2>5. Sep(t, {a.Name, b.Name, c.Name})
    BY <2>2, <2>3, <2>4 DEF Sep, Apart
  <2> QED
    BY <2>5 DEF t
<1>6. ASSUME NEW a, NEW b, NEW c, NEW d,
             a.Name # b.Name, a.Name # c.Name, a.Name # d.Name,
             b.Name # c.Name, b.Name # d.Name, c.Name # d.Name
      PROVE  Sep(<<a, b, c, d>>, {a.Name, b.Name, c.Name, d.Name})
  <2> DEFINE t == <<a, b, c, d>>
  <2>1. DOMAIN t = {1, 2, 3, 4} /\ t[1] = a /\ t[2] = b /\ t[3] = c /\ t[4] = d
    OBVIOUS
  <2>2. IsList(t) /\ Range(t) = {a, b, c, d}
    BY Tuples DEF IsList
  <2> HIDE DEF t
  <2>3. \A i, j \in DOMAIN t : t[i].Name = t[j].Name => i = j
    BY <1>6, <2>1
  <2>4. \A i, j \in DOMAIN t : Series(t[i]) = Series(t[j]) => t[i].Name = t[j].Name
    BY DEF Series
  <2>5. Sep(t, {a.Name, b.Name, c.Name, d.Name})
    BY <2>2, <2>3, <2>4 DEF Sep, Apart
  <2> QED
    BY <2>5 DEF t
<1> QED
  BY <1>1, <1>2, <1>3, <1>4, <1>5, <1>6

\* A loop over rows that have nothing in common.
LEMMA EachApart ==
  ASSUME NEW rows, IsList(rows), NEW ss, ss = [i \in DOMAIN rows |-> ss[i]],
         \A i \in DOMAIN rows : Apart(ss[i]),
         \A i, j \in DOMAIN rows : \A a \in Range(ss[i]), b \in Range(ss[j]) :
            Series(a) = Series(b) => i = j
  PROVE  Apart(FlattenSeq(ss))
<1> DEFINE f == FlattenSeq(ss)
<1>1. PICK n \in Nat : DOMAIN rows = 1..n
  BY ListDomain DEF IsList
<1>2. \A i \in 1..n : ss[i] \in Seq(Range(ss[i]))
  BY <1>1 DEF Apart, IsList
<1>3. PICK h : Unfolds(f, n, ss, h)
  BY <1>1, <1>2, FlattenIndices
<1>4. IsList(f)
  <2>1. \A i \in DOMAIN rows : IsList(ss[i])
    BY DEF Apart
  <2> QED
    BY <2>1, EachLists, HoldsList
<1> HIDE DEF f
<1>5. /\ h \in [DOMAIN f -> IndexPairs(n, ss)]
      /\ \A i, j \in DOMAIN f : h[i] = h[j] => i = j
      /\ \A i \in DOMAIN f : f[i] = ss[h[i][1]][h[i][2]]
  BY <1>3, Fun_BijectionProperties DEF Unfolds
<1>6. \A i \in DOMAIN f : /\ h[i][1] \in DOMAIN rows /\ h[i][2] \in DOMAIN ss[h[i][1]]
                          /\ h[i] = <<h[i][1], h[i][2]>>
  BY <1>1, <1>5 DEF IndexPairs
<1>7. ASSUME NEW i \in DOMAIN f, NEW j \in DOMAIN f, Series(f[i]) = Series(f[j]) PROVE i = j
  <2> DEFINE k == h[i][1]
             l == h[j][1]
             x == h[i][2]
             y == h[j][2]
  <2>1. /\ k \in DOMAIN rows /\ x \in DOMAIN ss[k] /\ h[i] = <<k, x>> /\ f[i] = ss[k][x]
        /\ l \in DOMAIN rows /\ y \in DOMAIN ss[l] /\ h[j] = <<l, y>> /\ f[j] = ss[l][y]
    BY <1>5, <1>6
  <2> HIDE DEF k, l, x, y
  <2>2. ss[k][x] \in Range(ss[k]) /\ ss[l][y] \in Range(ss[l])
    BY <2>1 DEF Range
  <2>3. k = l
    BY <1>7, <2>1, <2>2
  <2>4. x = y
    BY <1>7, <2>1, <2>3 DEF Apart
  <2> QED
    BY <1>5, <2>1, <2>3, <2>4
<1> QED
  BY <1>4, <1>7 DEF Apart, f

-----------------------------------------------------------------------------
(* Label sets that begin with the same labels.                              *)

\* l is where labels begins.
Begins(labels, l) == DOMAIN l \subseteq DOMAIN labels /\ \A k \in DOMAIN l : labels[k] = l[k]

\* What a concatenation begins with, and where the rest of it is.
LEMMA Appended ==
    \A l, m : IsList(l) /\ IsList(m) =>
        /\ IsList(l \o m) /\ Begins(l \o m, l)
        /\ DOMAIN (l \o m) = 1..(Len(l) + Len(m))
        /\ \A i \in 1..Len(m) : (l \o m)[Len(l) + i] = m[i]
<1> SUFFICES ASSUME NEW l, NEW m, IsList(l), IsList(m)
             PROVE  /\ IsList(l \o m) /\ Begins(l \o m, l)
                    /\ DOMAIN (l \o m) = 1..(Len(l) + Len(m))
                    /\ \A i \in 1..Len(m) : (l \o m)[Len(l) + i] = m[i]
  OBVIOUS
<1> DEFINE T == Range(l) \cup Range(m)
           u == l \o m
           j == Len(l)
           k == Len(m)
<1>1. l \in Seq(T) /\ m \in Seq(T)
  BY DEF IsList
<1> HIDE DEF T
<1>2. /\ j \in Nat /\ k \in Nat /\ DOMAIN l = 1..j /\ DOMAIN u = 1..(j + k)
      /\ \A i \in 1..j : u[i] = l[i]
      /\ \A i \in (j + 1)..(j + k) : u[i] = m[i - j]
  BY <1>1
<1>3. IsList(u)
  BY ConcatLists DEF IsList
<1> HIDE DEF u, j, k
<1>4. \A i \in 1..k : j + i \in (j + 1)..(j + k) /\ (j + i) - j = i
  BY <1>2
<1>5. 1..j \subseteq 1..(j + k)
  BY <1>2
<1>6. Begins(u, l)
  BY <1>2, <1>5 DEF Begins
<1>7. \A i \in 1..k : u[j + i] = m[i]
  BY <1>2, <1>4
<1> QED
  BY <1>2, <1>3, <1>6, <1>7 DEF u, j, k

\* Equal concatenations have equal parts, where these are of one length.
LEMMA SameParts ==
    \A l, m, p, q : /\ IsList(l) /\ IsList(m) /\ IsList(p) /\ IsList(q)
                    /\ DOMAIN l = DOMAIN p /\ l \o m = p \o q
                    => l = p /\ m = q
<1> SUFFICES ASSUME NEW l, NEW m, NEW p, NEW q, IsList(l), IsList(m), IsList(p), IsList(q),
                    DOMAIN l = DOMAIN p, l \o m = p \o q
             PROVE  l = p /\ m = q
  OBVIOUS
<1> DEFINE u == l \o m
           v == p \o q
<1>1. /\ Begins(u, l) /\ DOMAIN u = 1..(Len(l) + Len(m))
      /\ \A i \in 1..Len(m) : u[Len(l) + i] = m[i]
  BY Appended
<1>2. /\ Begins(v, p) /\ DOMAIN v = 1..(Len(p) + Len(q))
      /\ \A i \in 1..Len(q) : v[Len(p) + i] = q[i]
  BY Appended
<1>3. u = v
  OBVIOUS
<1>4. /\ l \in Seq(Range(l)) /\ p \in Seq(Range(p)) /\ m \in Seq(Range(m)) /\ q \in Seq(Range(q))
  BY DEF IsList
<1>5. /\ Len(l) \in Nat /\ Len(p) \in Nat /\ Len(m) \in Nat /\ Len(q) \in Nat
      /\ DOMAIN l = 1..Len(l) /\ DOMAIN p = 1..Len(p) /\ DOMAIN m = 1..Len(m) /\ DOMAIN q = 1..Len(q)
      /\ l = [i \in 1..Len(l) |-> l[i]] /\ p = [i \in 1..Len(p) |-> p[i]]
      /\ m = [i \in 1..Len(m) |-> m[i]] /\ q = [i \in 1..Len(q) |-> q[i]]
  BY <1>4
<1> DEFINE a == Len(l)
           b == Len(p)
           c == Len(m)
           d == Len(q)
<1> HIDE DEF u, v, a, b, c, d
<1>6. a \in Nat /\ b \in Nat /\ 1..a = 1..b => a = b
  OBVIOUS
<1>7. a = b
  BY <1>5, <1>6 DEF a, b
<1>8. a \in Nat /\ c \in Nat /\ d \in Nat /\ 1..(a + c) = 1..(a + d) => c = d
  OBVIOUS
<1>9. c = d
  BY <1>1, <1>2, <1>3, <1>5, <1>7, <1>8 DEF a, b, c, d
<1>10. \A i \in 1..a : l[i] = p[i]
  BY <1>1, <1>2, <1>3, <1>5, <1>7 DEF Begins, a, b
<1>11. \A i \in 1..c : m[i] = q[i]
  <2>1. \A i \in 1..c : u[a + i] = m[i]
    BY <1>1 DEF a, c
  <2>2. \A i \in 1..c : u[a + i] = q[i]
    BY <1>2, <1>3, <1>7, <1>9 DEF b, d
  <2> QED
    BY <2>1, <2>2
<1>12. l = [i \in 1..a |-> l[i]] /\ p = [i \in 1..a |-> p[i]]
  BY <1>5, <1>7 DEF a, b
<1>13. m = [i \in 1..c |-> m[i]] /\ q = [i \in 1..c |-> q[i]]
  BY <1>5, <1>9 DEF c, d
<1>14. l = p
  <2>1. [i \in 1..a |-> l[i]] = [i \in 1..a |-> p[i]]
    BY <1>10
  <2> QED
    BY <1>12, <2>1
<1>15. m = q
  <2>1. [i \in 1..c |-> m[i]] = [i \in 1..c |-> q[i]]
    BY <1>11
  <2> QED
    BY <1>13, <2>1
<1> QED
  BY <1>14, <1>15

\* What begins with what begins with l.
LEMMA BeginsWith ==
    /\ \A l : Begins(l, l)
    /\ \A labels, m, l : Begins(labels, m) /\ Begins(m, l) => Begins(labels, l)
    /\ \A labels, l, m : Begins(labels, l) /\ Begins(labels, m) /\ DOMAIN l = DOMAIN m =>
          \A k \in DOMAIN l : l[k] = m[k]
  BY DEF Begins

\* The labels of a cluster, and of a node, followed by others.
WithBase(cl, m) == baseLabels(cl) \o m
WithNode(cl, x, m) == nodeLabels(cl, x) \o m

\* Of one cluster, or of one node, what comes after the labels of the cluster or node.
LEMMA SameRest ==
    /\ \A cl, m, n : IsList(m) /\ IsList(n) /\ WithBase(cl, m) = WithBase(cl, n) => m = n
    /\ \A cl, x, y, m, n :
          IsList(m) /\ IsList(n) /\ WithNode(cl, x, m) = WithNode(cl, y, n) => x = y /\ m = n
<1>1. ASSUME NEW cl, NEW m, NEW n, IsList(m), IsList(n), WithBase(cl, m) = WithBase(cl, n)
      PROVE  m = n
  <2> DEFINE b == baseLabels(cl)
  <2>1. IsList(b)
    BY LabelSets DEF Labelled
  <2>2. b \o m = b \o n
    BY <1>1 DEF WithBase
  <2> HIDE DEF b
  <2>3. m = n
    BY <1>1, <2>1, <2>2, SameParts
  <2> QED
    BY <2>3
<1>2. ASSUME NEW cl, NEW x, NEW y, NEW m, NEW n, IsList(m), IsList(n),
             WithNode(cl, x, m) = WithNode(cl, y, n)
      PROVE  x = y /\ m = n
  <2>1. IsList(nodeLabels(cl, x)) /\ IsList(nodeLabels(cl, y))
    BY LabelSets DEF Labelled
  <2>2. DOMAIN nodeLabels(cl, x) = DOMAIN nodeLabels(cl, y)
    BY NodeLabelsAt
  <2>3. nodeLabels(cl, x) = nodeLabels(cl, y) /\ m = n
    BY <1>2, <2>1, <2>2, SameParts DEF WithNode
  <2>4. <<"node", x>> = <<"node", y>>
    BY <2>3, NodeLabelsAt
  <2> QED
    BY <2>3, <2>4
<1> QED
  BY <1>1, <1>2

\* The label sets, as what they add to those of a cluster or of a node.
LEMMA LabelParts ==
    /\ \A cl, x : policyLabels(cl, x) = WithBase(cl, << <<"policy", x>> >>)
    /\ \A cl, x : severityLabels(cl, x) = WithBase(cl, << <<"severity", x>> >>)
    /\ \A cl, x : licenseLabels(cl, x) = WithBase(cl, << <<"name", x>> >>)
    /\ \A cl, p : storagePoolLabels(cl, p) = WithBase(cl, << <<"pool", p.Name>>, <<"type", p.Type>> >>)
    /\ \A cl, x, s : driveLabels(cl, x, s) = WithNode(cl, x, << <<"state", s>> >>)
    /\ \A cl, x, s : sensorLabels(cl, x, s) = WithNode(cl, x, << <<"sensor", s>> >>)
    /\ \A cl, p : protocolLabels(cl, p) =
          WithNode(cl, p.Node, << <<"protocol", p.Protocol>>, <<"op", p.Operation>> >>)
    /\ \A cl, d : driveStatLabels(cl, d) = WithNode(cl, d.Node, << <<"bay", d.Bay>>, <<"type", d.Type>> >>)
    /\ \A cl, c : clientLabels(cl, c) =
          WithNode(cl, c.Node, << <<"protocol", c.Protocol>>, <<"class", c.Class>> >>)
  BY DEF WithBase, WithNode, policyLabels, severityLabels, licenseLabels, storagePoolLabels,
         driveLabels, sensorLabels, protocolLabels, driveStatLabels, clientLabels

\* The label sets tell the rows of a cluster apart.
LEMMA ClusterLabelsTell ==
    /\ \A cl, q, p : quotaLabels(cl, q) = quotaLabels(cl, p) => q.id = p.id
    /\ \A cl, x, y : policyLabels(cl, x) = policyLabels(cl, y) => x = y
    /\ \A cl, x, y : severityLabels(cl, x) = severityLabels(cl, y) => x = y
    /\ \A cl, x, y : licenseLabels(cl, x) = licenseLabels(cl, y) => x = y
    /\ \A cl, p, q : storagePoolLabels(cl, p) = storagePoolLabels(cl, q) =>
                        p.Name = q.Name /\ p.Type = q.Type
<1>0. \A a : IsList(<<a>>)
  BY Tuples DEF IsList
<1>00. \A a, b : IsList(<<a, b>>)
  BY Tuples DEF IsList
<1>1. ASSUME NEW cl, NEW q, NEW p, quotaLabels(cl, q) = quotaLabels(cl, p) PROVE q.id = p.id
  <2>1. <<"quota_id", q.id>> = <<"quota_id", p.id>>
    BY <1>1, QuotaLabelsAt
  <2> QED
    BY <2>1
<1>2. ASSUME NEW cl, NEW a, NEW b, WithBase(cl, <<a>>) = WithBase(cl, <<b>>) PROVE a = b
  <2>1. <<a>> = <<b>>
    BY <1>0, <1>2, SameRest
  <2> QED
    BY <2>1
<1>3. ASSUME NEW cl, NEW a, NEW b, NEW d, NEW e,
             WithBase(cl, <<a, b>>) = WithBase(cl, <<d, e>>)
      PROVE  a = d /\ b = e
  <2>1. <<a, b>> = <<d, e>>
    BY <1>00, <1>3, SameRest
  <2> QED
    BY <2>1
<1>4. ASSUME NEW cl, NEW x, NEW y, policyLabels(cl, x) = policyLabels(cl, y) PROVE x = y
  <2>1. <<"policy", x>> = <<"policy", y>>
    BY <1>2, <1>4, LabelParts
  <2> QED
    BY <2>1
<1>5. ASSUME NEW cl, NEW x, NEW y, severityLabels(cl, x) = severityLabels(cl, y) PROVE x = y
  <2>1. <<"severity", x>> = <<"severity", y>>
    BY <1>2, <1>5, LabelParts
  <2> QED
    BY <2>1
<1>6. ASSUME NEW cl, NEW x, NEW y, licenseLabels(cl, x) = licenseLabels(cl, y) PROVE x = y
  <2>1. <<"name", x>> = <<"name", y>>
    BY <1>2, <1>6, LabelParts
  <2> QED
    BY <2>1
<1>7. ASSUME NEW cl, NEW p, NEW q, storagePoolLabels(cl, p) = storagePoolLabels(cl, q)
      PROVE  p.Name = q.Name /\ p.Type = q.Type
  <2>1. WithBase(cl, << <<"pool", p.Name>>, <<"type", p.Type>> >>)
          = WithBase(cl, << <<"pool", q.Name>>, <<"type", q.Type>> >>)
    BY <1>7, LabelParts
  <2>2. <<"pool", p.Name>> = <<"pool", q.Name>> /\ <<"type", p.Type>> = <<"type", q.Type>>
    BY <1>3, <2>1, SMTT(30)
  <2> QED
    BY <2>2
<1> QED
  BY <1>1, <1>4, <1>5, <1>6, <1>7

\* and those of its nodes.
LEMMA NodeLabelsTell ==
    /\ \A cl, x, y : nodeLabels(cl, x) = nodeLabels(cl, y) => x = y
    /\ \A cl, x, y, s, t : driveLabels(cl, x, s) = driveLabels(cl, y, t) => x = y /\ s = t
    /\ \A cl, x, y, s, t : sensorLabels(cl, x, s) = sensorLabels(cl, y, t) => x = y /\ s = t
    /\ \A cl, p, q : protocolLabels(cl, p) = protocolLabels(cl, q) =>
          p.Node = q.Node /\ p.Protocol = q.Protocol /\ p.Operation = q.Operation
    /\ \A cl, d, e : driveStatLabels(cl, d) = driveStatLabels(cl, e) => d.Node = e.Node /\ d.Bay = e.Bay
    /\ \A cl, c, d : clientLabels(cl, c) = clientLabels(cl, d) =>
          c.Node = d.Node /\ c.Protocol = d.Protocol /\ c.Class = d.Class
    /\ \A cl, w, v : workloadLabels(cl, w) = workloadLabels(cl, v) =>
          /\ w.Node = v.Node
          /\ [i \in DOMAIN WorkloadDimensions |-> w.ID[WorkloadDimensions[i]]]
                = [i \in DOMAIN WorkloadDimensions |-> v.ID[WorkloadDimensions[i]]]
<1>0. \A a : IsList(<<a>>)
  BY Tuples DEF IsList
<1>00. \A a, b : IsList(<<a, b>>)
  BY Tuples DEF IsList
<1>1. \A cl, x, y : nodeLabels(cl, x) = nodeLabels(cl, y) => x = y
  <2> SUFFICES ASSUME NEW cl, NEW x, NEW y, nodeLabels(cl, x) = nodeLabels(cl, y) PROVE x = y
    OBVIOUS
  <2>1. <<"node", x>> = <<"node", y>>
    BY NodeLabelsAt
  <2> QED
    BY <2>1
<1>2. ASSUME NEW cl, NEW x, NEW y, NEW a, NEW b, WithNode(cl, x, <<a>>) = WithNode(cl, y, <<b>>)
      PROVE  x = y /\ a = b
  <2>1. x = y /\ <<a>> = <<b>>
    BY <1>0, <1>2, SameRest
  <2> QED
    BY <2>1
<1>3. ASSUME NEW cl, NEW x, NEW y, NEW a, NEW b, NEW d, NEW e,
             WithNode(cl, x, <<a, b>>) = WithNode(cl, y, <<d, e>>)
      PROVE  x = y /\ a = d /\ b = e
  <2>1. x = y /\ <<a, b>> = <<d, e>>
    BY <1>00, <1>3, SameRest
  <2> QED
    BY <2>1
<1>4. ASSUME NEW cl, NEW x, NEW y, NEW s, NEW t, driveLabels(cl, x, s) = driveLabels(cl, y, t)
      PROVE  x = y /\ s = t
  <2>1. WithNode(cl, x, << <<"state", s>> >>) = WithNode(cl, y, << <<"state", t>> >>)
    BY <1>4, LabelParts
  <2>2. x = y /\ <<"state", s>> = <<"state", t>>
    BY <1>2, <2>1, SMTT(30)
  <2> QED
    BY <2>2
<1>5. ASSUME NEW cl, NEW x, NEW y, NEW s, NEW t, sensorLabels(cl, x, s) = sensorLabels(cl, y, t)
      PROVE  x = y /\ s = t
  <2>1. WithNode(cl, x, << <<"sensor", s>> >>) = WithNode(cl, y, << <<"sensor", t>> >>)
    BY <1>5, LabelParts
  <2>2. x = y /\ <<"sensor", s>> = <<"sensor", t>>
    BY <1>2, <2>1, SMTT(30)
  <2> QED
    BY <2>2
<1>6. ASSUME NEW cl, NEW p, NEW q, protocolLabels(cl, p) = protocolLabels(cl, q)
      PROVE  p.Node = q.Node /\ p.Protocol = q.Protocol /\ p.Operation = q.Operation
  <2>1. WithNode(cl, p.Node, << <<"protocol", p.Protocol>>, <<"op", p.Operation>> >>)
          = WithNode(cl, q.Node, << <<"protocol", q.Protocol>>, <<"op", q.Operation>> >>)
    BY <1>6, LabelParts
  <2>2. /\ p.Node = q.Node /\ <<"protocol", p.Protocol>> = <<"protocol", q.Protocol>>
        /\ <<"op", p.Operation>> = <<"op", q.Operation>>
    BY <1>3, <2>1, SMTT(30)
  <2> QED
    BY <2>2
<1>7. ASSUME NEW cl, NEW d, NEW e, driveStatLabels(cl, d) = driveStatLabels(cl, e)
      PROVE  d.Node = e.Node /\ d.Bay = e.Bay
  <2>1. WithNode(cl, d.Node, << <<"bay", d.Bay>>, <<"type", d.Type>> >>)
          = WithNode(cl, e.Node, << <<"bay", e.Bay>>, <<"type", e.Type>> >>)
    BY <1>7, LabelParts
  <2>2. d.Node = e.Node /\ <<"bay", d.Bay>> = <<"bay", e.Bay>>
    BY <1>3, <2>1, SMTT(30)
  <2> QED
    BY <2>2
<1>8. ASSUME NEW cl, NEW c, NEW d, clientLabels(cl, c) = clientLabels(cl, d)
      PROVE  c.Node = d.Node /\ c.Protocol = d.Protocol /\ c.Class = d.Class
  <2>1. WithNode(cl, c.Node, << <<"protocol", c.Protocol>>, <<"class", c.Class>> >>)
          = WithNode(cl, d.Node, << <<"protocol", d.Protocol>>, <<"class", d.Class>> >>)
    BY <1>8, LabelParts
  <2>2. /\ c.Node = d.Node /\ <<"protocol", c.Protocol>> = <<"protocol", d.Protocol>>
        /\ <<"class", c.Class>> = <<"class", d.Class>>
    BY <1>3, <2>1, SMTT(30)
  <2> QED
    BY <2>2
<1>9. ASSUME NEW cl, NEW w, NEW v, workloadLabels(cl, w) = workloadLabels(cl, v)
      PROVE  /\ w.Node = v.Node
             /\ [i \in DOMAIN WorkloadDimensions |-> w.ID[WorkloadDimensions[i]]]
                   = [i \in DOMAIN WorkloadDimensions |-> v.ID[WorkloadDimensions[i]]]
  <2> DEFINE D == WorkloadDimensions
             m == [i \in DOMAIN D |-> <<D[i], w.ID[D[i]]>>]
             n == [i \in DOMAIN D |-> <<D[i], v.ID[D[i]]>>]
  <2>0. DOMAIN D = 1..5
    BY DEF WorkloadDimensions
  <2> HIDE DEF D
  <2>1. IsList(m) /\ IsList(n)
    BY <2>0, FunctionIsList DEF IsList
  <2>2. WithNode(cl, w.Node, m) = WithNode(cl, v.Node, n)
    BY <1>9 DEF WithNode, workloadLabels, D
  <2>3. w.Node = v.Node /\ m = n
    <3> HIDE DEF m, n
    <3> QED
      BY <2>1, <2>2, SameRest
  <2>4. \A i \in DOMAIN D : w.ID[D[i]] = v.ID[D[i]]
    <3> TAKE i \in DOMAIN D
    <3>1. m[i] = n[i] /\ m[i] = <<D[i], w.ID[D[i]]>> /\ n[i] = <<D[i], v.ID[D[i]]>>
      BY <2>3
    <3> HIDE DEF m, n
    <3>2. <<D[i], w.ID[D[i]]>> = <<D[i], v.ID[D[i]]>>
      BY <3>1
    <3> QED
      BY <3>2
  <2>5. [i \in DOMAIN D |-> w.ID[D[i]]] = [i \in DOMAIN D |-> v.ID[D[i]]]
    <3> HIDE DEF m, n
    <3> QED
      BY <2>4
  <2> QED
    BY <2>3, <2>5 DEF D
<1> QED
  BY <1>1, <1>4, <1>5, <1>6, <1>7, <1>8, <1>9

\* The label sets that go on from those of a licence, a protocol or a node.
LEMMA LabelsBegin ==
    /\ \A cl, x, s : Begins(licenseActiveLabels(cl, x, s), licenseLabels(cl, x))
    /\ \A cl, p, s : Begins(protocolLabels(cl, p) \o << <<"stage", s>> >>, protocolLabels(cl, p))
    /\ \A cl, x, s : Begins(driveLabels(cl, x, s), nodeLabels(cl, x))
    /\ \A cl, x, s : Begins(sensorLabels(cl, x, s), nodeLabels(cl, x))
    /\ \A cl, x, hw : Begins(hardwareInfoLabels(cl, x, hw), nodeLabels(cl, x))
<1>1. \A a : IsList(<<a>>)
  BY Tuples DEF IsList
<1>2. \A a, b, c : IsList(<<a, b, c>>)
  BY Tuples DEF IsList
<1>3. ASSUME NEW l, IsList(l), NEW a PROVE Begins(l \o <<a>>, l)
  BY <1>1, <1>3, Appended
<1>4. ASSUME NEW cl, NEW x, NEW s PROVE Begins(licenseActiveLabels(cl, x, s), licenseLabels(cl, x))
  <2>1. IsList(licenseLabels(cl, x))
    BY LabelSets DEF Labelled
  <2> QED
    BY <1>3, <2>1 DEF licenseActiveLabels
<1>5. ASSUME NEW cl, NEW p, NEW s
      PROVE  Begins(protocolLabels(cl, p) \o << <<"stage", s>> >>, protocolLabels(cl, p))
  <2>1. IsList(protocolLabels(cl, p))
    BY RowLabelSets DEF Labelled
  <2> QED
    BY <1>3, <2>1
<1>6. ASSUME NEW cl, NEW x PROVE IsList(nodeLabels(cl, x))
  BY LabelSets DEF Labelled
<1>7. ASSUME NEW cl, NEW x, NEW s PROVE Begins(driveLabels(cl, x, s), nodeLabels(cl, x))
  BY <1>3, <1>6 DEF driveLabels
<1>8. ASSUME NEW cl, NEW x, NEW s PROVE Begins(sensorLabels(cl, x, s), nodeLabels(cl, x))
  BY <1>3, <1>6 DEF sensorLabels
<1>9. ASSUME NEW cl, NEW x, NEW hw PROVE Begins(hardwareInfoLabels(cl, x, hw), nodeLabels(cl, x))
  <2> DEFINE m == << <<"product", hw.product>>, <<"series", hw.series>>, <<"hwgen", hw.hwgen>> >>
  <2>1. IsList(m)
    BY <1>2
  <2> HIDE DEF m
  <2>2. Begins(nodeLabels(cl, x) \o m, nodeLabels(cl, x))
    BY <1>6, <2>1, Appended
  <2> QED
    BY <2>2 DEF m, hardwareInfoLabels
<1> QED
  BY <1>4, <1>5, <1>7, <1>8, <1>9

\* The first label of every label set is the name of the cluster.
First(labels, c) == labels[1] = <<"cluster", c>>

\* Every label set begins with the cluster.
LEMMA ClusterFirst ==
    /\ \A cl : First(baseLabels(cl), cl.name)
    /\ \A cl, x : /\ First(nodeLabels(cl, x), cl.name) /\ First(quotaLabels(cl, x), cl.name)
                  /\ First(policyLabels(cl, x), cl.name) /\ First(severityLabels(cl, x), cl.name)
                  /\ First(licenseLabels(cl, x), cl.name)
                  /\ First(storagePoolLabels(cl, x), cl.name) /\ First(protocolLabels(cl, x), cl.name)
                  /\ First(driveStatLabels(cl, x), cl.name) /\ First(clientLabels(cl, x), cl.name)
                  /\ First(workloadLabels(cl, x), cl.name)
    /\ \A cl, x, s : /\ First(licenseActiveLabels(cl, x, s), cl.name)
                     /\ First(protocolLabels(cl, x) \o << <<"stage", s>> >>, cl.name)
                     /\ First(driveLabels(cl, x, s), cl.name) /\ First(sensorLabels(cl, x, s), cl.name)
                     /\ First(hardwareInfoLabels(cl, x, s), cl.name)
<1>1. \A cl : DOMAIN baseLabels(cl) = 1..2 /\ First(baseLabels(cl), cl.name)
  BY DEF baseLabels, First
<1>2. \A l, m, c : Begins(l, m) /\ 1 \in DOMAIN m /\ First(m, c) => First(l, c)
  BY DEF Begins, First
<1>3. \A cl, x : DOMAIN nodeLabels(cl, x) = 1..3 /\ First(nodeLabels(cl, x), cl.name)
  BY NodeLabelsAt DEF First
<1>4. \A cl, x : First(quotaLabels(cl, x), cl.name)
  BY QuotaLabelsAt DEF First
<1>5. 1 \in 1..2 /\ 1 \in 1..3
  OBVIOUS
<1>6. \A a : IsList(<<a>>)
  BY Tuples DEF IsList
<1>7. \A a, b : IsList(<<a, b>>)
  BY Tuples DEF IsList
<1>8. ASSUME NEW cl, NEW m, IsList(m) PROVE First(WithBase(cl, m), cl.name) /\ 1 \in DOMAIN WithBase(cl, m)
  <2>1. IsList(baseLabels(cl))
    BY LabelSets DEF Labelled
  <2>2. Begins(WithBase(cl, m), baseLabels(cl))
    BY <1>8, <2>1, Appended DEF WithBase
  <2>3. 1 \in DOMAIN WithBase(cl, m)
    BY <1>1, <1>5, <2>2 DEF Begins
  <2> QED
    BY <1>1, <1>2, <1>5, <2>2, <2>3
<1>9. ASSUME NEW cl, NEW x, NEW m, IsList(m)
      PROVE  First(WithNode(cl, x, m), cl.name) /\ 1 \in DOMAIN WithNode(cl, x, m)
  <2>1. IsList(nodeLabels(cl, x))
    BY LabelSets DEF Labelled
  <2>2. Begins(WithNode(cl, x, m), nodeLabels(cl, x))
    BY <1>9, <2>1, Appended DEF WithNode
  <2>3. 1 \in DOMAIN WithNode(cl, x, m)
    BY <1>3, <1>5, <2>2 DEF Begins
  <2> QED
    BY <1>2, <1>3, <1>5, <2>2, <2>3
<1>10. ASSUME NEW cl, NEW x
       PROVE  /\ First(policyLabels(cl, x), cl.name) /\ First(severityLabels(cl, x), cl.name)
              /\ First(licenseLabels(cl, x), cl.name) /\ 1 \in DOMAIN licenseLabels(cl, x)
              /\ First(storagePoolLabels(cl, x), cl.name)
  BY <1>6, <1>7, <1>8, LabelParts
<1>11. ASSUME NEW cl, NEW x
       PROVE  /\ First(protocolLabels(cl, x), cl.name) /\ 1 \in DOMAIN protocolLabels(cl, x)
              /\ First(driveStatLabels(cl, x), cl.name) /\ First(clientLabels(cl, x), cl.name)
  BY <1>7, <1>9, LabelParts
<1>12. ASSUME NEW cl, NEW x PROVE First(workloadLabels(cl, x), cl.name)
  <2> DEFINE D == WorkloadDimensions
             m == [i \in DOMAIN D |-> <<D[i], x.ID[D[i]]>>]
  <2>0. DOMAIN D = 1..5
    BY DEF WorkloadDimensions
  <2> HIDE DEF D
  <2>1. IsList(m)
    BY <2>0, FunctionIsList DEF IsList
  <2>2. workloadLabels(cl, x) = WithNode(cl, x.Node, m)
    BY DEF workloadLabels, WithNode, D
  <2> HIDE DEF m
  <2> QED
    BY <1>9, <2>1, <2>2
<1>13. ASSUME NEW cl, NEW x, NEW s
       PROVE  /\ First(licenseActiveLabels(cl, x, s), cl.name)
              /\ First(protocolLabels(cl, x) \o << <<"stage", s>> >>, cl.name)
  BY <1>2, <1>10, <1>11, LabelsBegin
<1>14. ASSUME NEW cl, NEW x, NEW s
       PROVE  /\ First(driveLabels(cl, x, s), cl.name) /\ First(sensorLabels(cl, x, s), cl.name)
              /\ First(hardwareInfoLabels(cl, x, s), cl.name)
  BY <1>2, <1>3, <1>5, LabelsBegin
<1> QED
  BY <1>1, <1>3, <1>4, <1>10, <1>11, <1>12, <1>13, <1>14

-----------------------------------------------------------------------------
(* The samples of one row.                                                  *)

\* Samples that are apart, of the metrics M and with labels that begin with l.
RowSep(s, M, l) == Sep(s, M) /\ \A a \in Range(s) : Begins(a.Labels, l)

\* The fields of a sample.
LEMMA SampleFields ==
    \A name, labels, v, d :
        /\ Sample(name, labels, v, d).Name = name /\ Sample(name, labels, v, d).Labels = labels
        /\ Sample(name, labels, v, d).Value = <<v, d>>
        /\ Gauge(name, labels, v).Name = name /\ Gauge(name, labels, v).Labels = labels
        /\ Gauge(name, labels, v).Value = <<v, 1>>
  BY DEF Sample, Gauge

\* A list of a few samples of a row: what has to be told apart,
LEMMA RowTuples ==
    /\ \A M, l : RowSep(<<>>, M, l)
    /\ \A a, M, l : a.Name \in M /\ Begins(a.Labels, l) => RowSep(<<a>>, M, l)
    /\ \A p, a, M, l : a.Name \in M /\ Begins(a.Labels, l) => RowSep(When(p, a), M, l)
    /\ \A a, b, l : a.Name # b.Name /\ Begins(a.Labels, l) /\ Begins(b.Labels, l) =>
                       RowSep(<<a, b>>, {a.Name, b.Name}, l)
    /\ \A a, b, c, l : /\ a.Name # b.Name /\ a.Name # c.Name /\ b.Name # c.Name
                       /\ Begins(a.Labels, l) /\ Begins(b.Labels, l) /\ Begins(c.Labels, l)
                       => RowSep(<<a, b, c>>, {a.Name, b.Name, c.Name}, l)
    /\ \A a, b, c, d, l : /\ a.Name # b.Name /\ a.Name # c.Name /\ a.Name # d.Name
                          /\ b.Name # c.Name /\ b.Name # d.Name /\ c.Name # d.Name
                          /\ Begins(a.Labels, l) /\ Begins(b.Labels, l)
                          /\ Begins(c.Labels, l) /\ Begins(d.Labels, l)
                          => RowSep(<<a, b, c, d>>, {a.Name, b.Name, c.Name, d.Name}, l)
<1>1. \A M, l : RowSep(<<>>, M, l)
  BY SepTuples, Tuples DEF RowSep
<1>2. \A a, M, l : a.Name \in M /\ Begins(a.Labels, l) => RowSep(<<a>>, M, l)
  BY SepTuples, Tuples DEF RowSep
<1>3. \A p, a, M, l : a.Name \in M /\ Begins(a.Labels, l) => RowSep(When(p, a), M, l)
  BY <1>1, <1>2 DEF When
<1>4. ASSUME NEW a, NEW b, NEW l, a.Name # b.Name, Begins(a.Labels, l), Begins(b.Labels, l)
      PROVE  RowSep(<<a, b>>, {a.Name, b.Name}, l)
  <2>1. Range(<<a, b>>) = {a, b}
    BY Tuples
  <2>2. Sep(<<a, b>>, {a.Name, b.Name})
    BY <1>4, SepTuples
  <2> QED
    BY <1>4, <2>1, <2>2 DEF RowSep
<1>5. ASSUME NEW a, NEW b, NEW c, NEW l, a.Name # b.Name, a.Name # c.Name, b.Name # c.Name,
             Begins(a.Labels, l), Begins(b.Labels, l), Begins(c.Labels, l)
      PROVE  RowSep(<<a, b, c>>, {a.Name, b.Name, c.Name}, l)
  <2>1. Range(<<a, b, c>>) = {a, b, c}
    BY Tuples
  <2>2. Sep(<<a, b, c>>, {a.Name, b.Name, c.Name})
    BY <1>5, SepTuples
  <2> QED
    BY <1>5, <2>1, <2>2 DEF RowSep
<1>6. ASSUME NEW a, NEW b, NEW c, NEW d, NEW l, a.Name # b.Name, a.Name # c.Name, a.Name # d.Name,
             b.Name # c.Name, b.Name # d.Name, c.Name # d.Name,
             Begins(a.Labels, l), Begins(b.Labels, l), Begins(c.Labels, l), Begins(d.Labels, l)
      PROVE  RowSep(<<a, b, c, d>>, {a.Name, b.Name, c.Name, d.Name}, l)
  <2>1. Range(<<a, b, c, d>>) = {a, b, c, d}
    BY Tuples
  <2>2. Sep(<<a, b, c, d>>, {a.Name, b.Name, c.Name, d.Name})
    BY <1>6, SepTuples
  <2> QED
    BY <1>6, <2>1, <2>2 DEF RowSep
<1> QED
  BY <1>1, <1>2, <1>3, <1>4, <1>5, <1>6

\* two lists of one row, of different metrics,
LEMMA RowConcat ==
    \A s, t, M, N, l : RowSep(s, M, l) /\ RowSep(t, N, l) /\ M \cap N = {} => RowSep(s \o t, M \cup N, l)
<1> SUFFICES ASSUME NEW s, NEW t, NEW M, NEW N, NEW l, RowSep(s, M, l), RowSep(t, N, l), M \cap N = {}
             PROVE  RowSep(s \o t, M \cup N, l)
  OBVIOUS
<1>1. Sep(s \o t, M \cup N)
  BY ConcatSep DEF RowSep
<1>2. Range(s \o t) = Range(s) \cup Range(t)
  BY ConcatLists DEF RowSep, Sep, Apart, IsList
<1> QED
  BY <1>1, <1>2 DEF RowSep

\* and a list seen as one of more metrics.
LEMMA RowWiden ==
    \A s, M, N, l : RowSep(s, M, l) /\ M \subseteq N => RowSep(s, N, l)
  BY DEF RowSep, Sep

\* Rows whose labels tell them apart; l[i] are those of row i, b those of all.
LEMMA EachRowSep ==
  ASSUME NEW rows, IsList(rows), NEW ss, ss = [i \in DOMAIN rows |-> ss[i]], NEW M, NEW l, NEW b,
         \A i \in DOMAIN rows : RowSep(ss[i], M, l[i]) /\ IsList(l[i]) /\ Begins(l[i], b),
         \A i, j \in DOMAIN rows : DOMAIN l[i] = DOMAIN l[j],
         \A i, j \in DOMAIN rows : l[i] = l[j] => i = j
  PROVE  RowSep(FlattenSeq(ss), M, b)
<1>1. ASSUME NEW i \in DOMAIN rows, NEW j \in DOMAIN rows, NEW x \in Range(ss[i]), NEW y \in Range(ss[j]),
             Series(x) = Series(y)
      PROVE  i = j
  <2>1. x.Labels = y.Labels
    BY <1>1 DEF Series
  <2>2. Begins(x.Labels, l[i]) /\ Begins(x.Labels, l[j])
    BY <2>1 DEF RowSep
  <2> DEFINE p == l[i]
             q == l[j]
  <2>3. IsList(p) /\ IsList(q) /\ DOMAIN p = DOMAIN q /\ \A k \in DOMAIN p : p[k] = q[k]
    BY <2>2, BeginsWith
  <2>4. p \in Seq(Range(p)) /\ q \in Seq(Range(q))
    BY <2>3 DEF IsList
  <2>5. p = q
    <3> HIDE DEF p, q
    <3>1. p = [k \in DOMAIN p |-> p[k]] /\ q = [k \in DOMAIN q |-> q[k]]
      BY <2>4
    <3> QED
      BY <2>3, <3>1
  <2> QED
    BY <2>5
<1>2. \A i \in DOMAIN rows : Apart(ss[i]) /\ \A x \in Range(ss[i]) : x.Name \in M
  BY DEF RowSep, Sep
<1>3. Apart(FlattenSeq(ss))
  BY <1>1, <1>2, EachApart
<1>4. Range(FlattenSeq(ss)) = UNION {Range(ss[i]) : i \in DOMAIN rows}
  <2>1. \A i \in DOMAIN rows : IsList(ss[i])
    BY <1>2 DEF Apart
  <2>2. Holds(FlattenSeq(ss), UNION {Range(ss[i]) : i \in DOMAIN rows})
    BY <2>1, EachLists
  <2> QED
    BY <2>2, HoldsList
<1>5. \A i \in DOMAIN rows : \A x \in Range(ss[i]) : Begins(x.Labels, b)
  BY BeginsWith DEF RowSep
<1> QED
  BY <1>2, <1>3, <1>4, <1>5 DEF RowSep, Sep

\* Label sets of the same names have the same positions.
LEMMA LabelledDomain == \A labels, names : Labelled(labels, names) => IsList(labels) /\ DOMAIN labels = DOMAIN names
<1> SUFFICES ASSUME NEW labels, NEW names, Labelled(labels, names)
             PROVE  IsList(labels) /\ DOMAIN labels = DOMAIN names
  OBVIOUS
<1>1. IsList(labels) /\ names = [i \in DOMAIN labels |-> labels[i][1]]
  BY DEF Labelled, Names
<1>2. DOMAIN [i \in DOMAIN labels |-> labels[i][1]] = DOMAIN labels
  BY Zenon
<1> QED
  BY <1>1, <1>2

\* A quota.
LEMMA QuotaSep == \A cl, q : RowSep(OfQuota(cl, q), QuotaMetrics, quotaLabels(cl, q))
<1> SUFFICES ASSUME NEW cl, NEW q PROVE RowSep(OfQuota(cl, q), QuotaMetrics, quotaLabels(cl, q))
  OBVIOUS
<1> DEFINE l == quotaLabels(cl, q)
           G(name, v) == Gauge(name, l, v)
           N1 == {"powerscale_quota_usage_bytes", "powerscale_quota_application_usage_bytes"}
           N2 == {"powerscale_quota_physical_usage_bytes"}
           N3 == {"powerscale_quota_reduction_ratio"}
           N4 == {"powerscale_quota_hard_threshold_bytes"}
           N5 == {"powerscale_quota_soft_threshold_bytes"}
           N6 == {"powerscale_quota_advisory_threshold_bytes"}
           s1 == <<G("powerscale_quota_usage_bytes", q.usage),
                   G("powerscale_quota_application_usage_bytes", q.app)>>
           s2 == When(q.physical > 0, G("powerscale_quota_physical_usage_bytes", q.physical))
           s3 == When(q.ratio > 0, G("powerscale_quota_reduction_ratio", q.ratio))
           s4 == When(q.hard > 0, G("powerscale_quota_hard_threshold_bytes", q.hard))
           s5 == When(q.soft > 0, G("powerscale_quota_soft_threshold_bytes", q.soft))
           s6 == When(q.advisory > 0, G("powerscale_quota_advisory_threshold_bytes", q.advisory))
<1>1. \A name, v : G(name, v).Name = name /\ Begins(G(name, v).Labels, l)
  BY SampleFields, BeginsWith
<1>2. OfQuota(cl, q) = s1 \o s2 \o s3 \o s4 \o s5 \o s6
  BY DEF OfQuota, QuotaThreshold
<1> HIDE DEF G, l
<1>3. RowSep(s1, N1, l)
  <2> DEFINE a == G("powerscale_quota_usage_bytes", q.usage)
             b == G("powerscale_quota_application_usage_bytes", q.app)
  <2>1. /\ a.Name = "powerscale_quota_usage_bytes" /\ b.Name = "powerscale_quota_application_usage_bytes"
        /\ Begins(a.Labels, l) /\ Begins(b.Labels, l)
    BY <1>1
  <2> HIDE DEF a, b
  <2>2. a.Name # b.Name
    BY <2>1
  <2>3. RowSep(<<a, b>>, {a.Name, b.Name}, l)
    BY <2>1, <2>2, RowTuples
  <2> QED
    BY <2>1, <2>3 DEF a, b
<1>4. /\ RowSep(s2, N2, l) /\ RowSep(s3, N3, l) /\ RowSep(s4, N4, l) /\ RowSep(s5, N5, l)
      /\ RowSep(s6, N6, l)
  BY <1>1, RowTuples
<1>5. /\ N1 \cap N2 = {} /\ (N1 \cup N2) \cap N3 = {} /\ (N1 \cup N2 \cup N3) \cap N4 = {}
      /\ (N1 \cup N2 \cup N3 \cup N4) \cap N5 = {} /\ (N1 \cup N2 \cup N3 \cup N4 \cup N5) \cap N6 = {}
  OBVIOUS
<1>6. N1 \cup N2 \cup N3 \cup N4 \cup N5 \cup N6 = QuotaMetrics
  BY QuotaMetricsListed
<1> HIDE DEF s1, s2, s3, s4, s5, s6, N1, N2, N3, N4, N5, N6
<1>7. RowSep(s1 \o s2, N1 \cup N2, l)
  BY <1>3, <1>4, <1>5, RowConcat
<1>8. RowSep(s1 \o s2 \o s3, N1 \cup N2 \cup N3, l)
  BY <1>4, <1>5, <1>7, RowConcat
<1>9. RowSep(s1 \o s2 \o s3 \o s4, N1 \cup N2 \cup N3 \cup N4, l)
  BY <1>4, <1>5, <1>8, RowConcat
<1>10. RowSep(s1 \o s2 \o s3 \o s4 \o s5, N1 \cup N2 \cup N3 \cup N4 \cup N5, l)
  BY <1>4, <1>5, <1>9, RowConcat
<1>11. RowSep(s1 \o s2 \o s3 \o s4 \o s5 \o s6, N1 \cup N2 \cup N3 \cup N4 \cup N5 \cup N6, l)
  BY <1>4, <1>5, <1>10, RowConcat
<1> QED
  BY <1>2, <1>6, <1>11 DEF l

\* A row of summary/protocol.
LEMMA ProtocolSep ==
    \A cl, p : RowSep(OfProtocol(cl, p), FamilyOf["summary/protocol"], protocolLabels(cl, p))
<1> SUFFICES ASSUME NEW cl, NEW p
             PROVE  RowSep(OfProtocol(cl, p), FamilyOf["summary/protocol"], protocolLabels(cl, p))
  OBVIOUS
<1> DEFINE l == protocolLabels(cl, p)
           lab == [i \in 1..7 |-> l \o << <<"stage", ProtocolStages[i]>> >>]
           stage(i) == Sample("powerscale_protocol_latency_stage_seconds",
                              l \o << <<"stage", ProtocolStages[i]>> >>,
                              p.StageAvg[ProtocolStages[i]], microsPerSecond)
           stages == [i \in DOMAIN ProtocolStages |->
                        When(ProtocolStages[i] \in DOMAIN p.StageAvg, stage(i))]
           a == Gauge("powerscale_protocol_operations_per_second", l, p.OperationRate)
           b == Sample("powerscale_protocol_latency_seconds", l, p.LatencyAvg, microsPerSecond)
           N1 == {"powerscale_protocol_operations_per_second", "powerscale_protocol_latency_seconds"}
           N2 == {"powerscale_protocol_latency_stage_seconds"}
<1>1. OfProtocol(cl, p) = <<a, b>> \o FlattenSeq(stages)
  BY DEF OfProtocol, Each
<1>2. RowSep(<<a, b>>, N1, l)
  <2>1. /\ a.Name = "powerscale_protocol_operations_per_second" /\ a.Labels = l
        /\ b.Name = "powerscale_protocol_latency_seconds" /\ b.Labels = l
    BY SampleFields
  <2> HIDE DEF a, b, l
  <2>2. a.Name # b.Name /\ Begins(a.Labels, l) /\ Begins(b.Labels, l)
    BY <2>1, BeginsWith
  <2>3. RowSep(<<a, b>>, {a.Name, b.Name}, l)
    BY <2>2, RowTuples
  <2> QED
    BY <2>1, <2>3
<1>3. DOMAIN ProtocolStages = 1..7 /\ \A i, j \in 1..7 : ProtocolStages[i] = ProtocolStages[j] => i = j
  BY DEF ProtocolStages
<1>4. IsList(ProtocolStages)
  <2>1. ProtocolStages = [i \in 1..7 |-> ProtocolStages[i]]
    BY DEF ProtocolStages
  <2> QED
    BY <2>1, FunctionIsList DEF IsList
<1>5. \A i \in 1..7 : /\ lab[i] = l \o << <<"stage", ProtocolStages[i]>> >>
                      /\ IsList(lab[i]) /\ DOMAIN lab[i] = DOMAIN stageNames /\ Begins(lab[i], l)
  <2> TAKE i \in 1..7
  <2>1. Labelled(l \o << <<"stage", ProtocolStages[i]>> >>, stageNames)
    BY RowLabelSets DEF stageNames
  <2>2. lab[i] = l \o << <<"stage", ProtocolStages[i]>> >>
    OBVIOUS
  <2>3. Begins(l \o << <<"stage", ProtocolStages[i]>> >>, l)
    BY LabelsBegin
  <2> QED
    BY <2>1, <2>2, <2>3, LabelledDomain
<1>6. \A i, j \in 1..7 : lab[i] = lab[j] => i = j
  <2> SUFFICES ASSUME NEW i \in 1..7, NEW j \in 1..7, lab[i] = lab[j] PROVE i = j
    OBVIOUS
  <2> DEFINE m == << <<"stage", ProtocolStages[i]>> >>
             n == << <<"stage", ProtocolStages[j]>> >>
  <2>1. IsList(m) /\ IsList(n)
    BY Tuples DEF IsList
  <2>2. IsList(l)
    BY RowLabelSets DEF Labelled
  <2>3. l \o m = l \o n
    BY <1>5
  <2>4. m = n
    <3> HIDE DEF m, n, l
    <3> QED
      BY <2>1, <2>2, <2>3, SameParts
  <2>5. <<"stage", ProtocolStages[i]>> = <<"stage", ProtocolStages[j]>>
    BY <2>4
  <2>6. ProtocolStages[i] = ProtocolStages[j]
    BY <2>5
  <2> QED
    BY <1>3, <2>6
<1>7. \A i \in 1..7 : RowSep(stages[i], N2, lab[i])
  <2> TAKE i \in 1..7
  <2>1. stages[i] = When(ProtocolStages[i] \in DOMAIN p.StageAvg, stage(i))
    BY <1>3
  <2>2. stage(i).Name = "powerscale_protocol_latency_stage_seconds" /\ stage(i).Labels = lab[i]
    BY <1>5, SampleFields
  <2> HIDE DEF stage, stages, lab
  <2>3. stage(i).Name \in N2 /\ Begins(stage(i).Labels, lab[i])
    BY <2>2, BeginsWith
  <2> QED
    BY <2>1, <2>3, RowTuples
<1>8. stages = [i \in DOMAIN ProtocolStages |-> stages[i]]
  OBVIOUS
<1> HIDE DEF stages, lab, N2
<1>9. RowSep(FlattenSeq(stages), N2, l)
  <2> HIDE DEF l
  <2>1. \A i \in DOMAIN ProtocolStages : RowSep(stages[i], N2, lab[i]) /\ IsList(lab[i]) /\ Begins(lab[i], l)
    BY <1>3, <1>5, <1>7
  <2>2. \A i, j \in DOMAIN ProtocolStages : DOMAIN lab[i] = DOMAIN lab[j]
    BY <1>3, <1>5
  <2>3. \A i, j \in DOMAIN ProtocolStages : lab[i] = lab[j] => i = j
    BY <1>3, <1>6
  <2> QED
    BY <1>4, <1>8, <2>1, <2>2, <2>3, EachRowSep
<1>10. N1 \cap N2 = {} /\ N1 \cup N2 = FamilyOf["summary/protocol"]
  BY Families DEF N2
<1> HIDE DEF N1, a, b, l
<1>11. RowSep(<<a, b>> \o FlattenSeq(stages), N1 \cup N2, l)
  BY <1>2, <1>9, <1>10, RowConcat
<1> QED
  BY <1>1, <1>10, <1>11 DEF l

\* A node's health, and its hardware.
HealthMetrics == {"powerscale_node_readonly", "powerscale_node_smartfail", "powerscale_node_drives"}
HardwareMetrics ==
    {"powerscale_node_hardware_info", "powerscale_node_power_supplies",
     "powerscale_node_power_supply_failures", "powerscale_node_temperature_celsius",
     "powerscale_node_fan_speed_rpm"}

\* The samples of one node, of its health
LEMMA NodeHealthSep ==
    \A cl, n : IsFiniteSet(DOMAIN n.DrivesByState) =>
        RowSep(OfNodeHealth(cl, n), HealthMetrics, nodeLabels(cl, n.LNN))
<1> SUFFICES ASSUME NEW cl, NEW n, IsFiniteSet(DOMAIN n.DrivesByState)
             PROVE  RowSep(OfNodeHealth(cl, n), HealthMetrics, nodeLabels(cl, n.LNN))
  OBVIOUS
<1> DEFINE states == SetToSeq(DOMAIN n.DrivesByState)
           l == nodeLabels(cl, n.LNN)
           lab == [i \in DOMAIN states |-> driveLabels(cl, n.LNN, states[i])]
           g(i) == Gauge("powerscale_node_drives", driveLabels(cl, n.LNN, states[i]),
                         n.DrivesByState[states[i]])
           drives == [i \in DOMAIN states |-> <<g(i)>>]
           a == Gauge("powerscale_node_readonly", l, b2f(n.Readonly))
           b == Gauge("powerscale_node_smartfail", l, b2f(n.Smartfail))
           N1 == {"powerscale_node_readonly", "powerscale_node_smartfail"}
           N2 == {"powerscale_node_drives"}
<1>1. OfNodeHealth(cl, n) = <<a, b>> \o FlattenSeq(drives)
  BY DEF OfNodeHealth, Each
<1>2. RowSep(<<a, b>>, N1, l)
  <2>1. /\ a.Name = "powerscale_node_readonly" /\ a.Labels = l
        /\ b.Name = "powerscale_node_smartfail" /\ b.Labels = l
    BY SampleFields
  <2> HIDE DEF a, b, l
  <2>2. a.Name # b.Name /\ Begins(a.Labels, l) /\ Begins(b.Labels, l)
    BY <2>1, BeginsWith
  <2>3. RowSep(<<a, b>>, {a.Name, b.Name}, l)
    BY <2>2, RowTuples
  <2> QED
    BY <2>1, <2>3
<1>3. IsList(states) /\ \A i, j \in DOMAIN states : states[i] = states[j] => i = j
  BY SetToSeqLists DEF IsList
<1> HIDE DEF states
<1>4. \A i \in DOMAIN states : lab[i] = driveLabels(cl, n.LNN, states[i]) /\ drives[i] = <<g(i)>>
  OBVIOUS
<1>5. drives = [i \in DOMAIN states |-> drives[i]]
  OBVIOUS
<1>6. \A i : g(i).Name = "powerscale_node_drives" /\ g(i).Labels = driveLabels(cl, n.LNN, states[i])
  BY SampleFields
<1> HIDE DEF lab, drives, g
<1>7. \A i \in DOMAIN states : /\ IsList(lab[i]) /\ DOMAIN lab[i] = DOMAIN (nodeNames \o <<"state">>)
                               /\ Begins(lab[i], l)
  <2> TAKE i \in DOMAIN states
  <2>1. Labelled(driveLabels(cl, n.LNN, states[i]), nodeNames \o <<"state">>)
    BY LabelSets
  <2>2. Begins(driveLabels(cl, n.LNN, states[i]), l)
    BY LabelsBegin
  <2> QED
    BY <1>4, <2>1, <2>2, LabelledDomain
<1>8. \A i, j \in DOMAIN states : lab[i] = lab[j] => i = j
  BY <1>3, <1>4, NodeLabelsTell
<1>9. \A i \in DOMAIN states : RowSep(drives[i], N2, lab[i])
  <2> TAKE i \in DOMAIN states
  <2>1. g(i).Name \in N2 /\ Begins(g(i).Labels, lab[i])
    BY <1>4, <1>6, BeginsWith
  <2> QED
    BY <1>4, <2>1, RowTuples
<1>10. N1 \cap N2 = {} /\ N1 \cup N2 = HealthMetrics
  BY DEF HealthMetrics
<1> HIDE DEF l, N1, N2, a, b
<1>11. RowSep(FlattenSeq(drives), N2, l)
  <2>1. \A i \in DOMAIN states : RowSep(drives[i], N2, lab[i]) /\ IsList(lab[i]) /\ Begins(lab[i], l)
    BY <1>7, <1>9
  <2>2. \A i, j \in DOMAIN states : DOMAIN lab[i] = DOMAIN lab[j]
    BY <1>7
  <2> QED
    BY <1>3, <1>5, <1>8, <2>1, <2>2, EachRowSep
<1>12. RowSep(<<a, b>> \o FlattenSeq(drives), N1 \cup N2, l)
  BY <1>2, <1>10, <1>11, RowConcat
<1> QED
  BY <1>1, <1>10, <1>12 DEF l

\* The readings of one kind of sensor.
LEMMA ReadingsSep ==
  ASSUME NEW cl, NEW lnn, NEW readings, IsList(readings), NEW name,
         \A i, j \in DOMAIN readings : readings[i].Name = readings[j].Name => i = j,
         NEW ss, ss = [i \in DOMAIN readings |->
                          <<Gauge(name, sensorLabels(cl, lnn, readings[i].Name), readings[i].Value)>>]
  PROVE  RowSep(FlattenSeq(ss), {name}, nodeLabels(cl, lnn))
<1> DEFINE l == nodeLabels(cl, lnn)
           lab == [i \in DOMAIN readings |-> sensorLabels(cl, lnn, readings[i].Name)]
           g(i) == Gauge(name, sensorLabels(cl, lnn, readings[i].Name), readings[i].Value)
<1>1. ss = [i \in DOMAIN readings |-> ss[i]]
  BY Zenon
<1>2. \A i \in DOMAIN readings : ss[i] = <<g(i)>> /\ lab[i] = sensorLabels(cl, lnn, readings[i].Name)
  BY <1>1
<1>3. \A i : g(i).Name = name /\ g(i).Labels = sensorLabels(cl, lnn, readings[i].Name)
  BY SampleFields
<1> HIDE DEF lab, g
<1>4. \A i \in DOMAIN readings : /\ IsList(lab[i]) /\ DOMAIN lab[i] = DOMAIN (nodeNames \o <<"sensor">>)
                                 /\ Begins(lab[i], l)
  <2> TAKE i \in DOMAIN readings
  <2>1. Labelled(sensorLabels(cl, lnn, readings[i].Name), nodeNames \o <<"sensor">>)
    BY LabelSets
  <2>2. Begins(sensorLabels(cl, lnn, readings[i].Name), l)
    BY LabelsBegin
  <2> QED
    BY <1>2, <2>1, <2>2, LabelledDomain
<1>5. \A i, j \in DOMAIN readings : lab[i] = lab[j] => i = j
  <2> SUFFICES ASSUME NEW i \in DOMAIN readings, NEW j \in DOMAIN readings, lab[i] = lab[j] PROVE i = j
    OBVIOUS
  <2>1. sensorLabels(cl, lnn, readings[i].Name) = sensorLabels(cl, lnn, readings[j].Name)
    BY <1>2
  <2>2. readings[i].Name = readings[j].Name
    BY <2>1, NodeLabelsTell
  <2> QED
    BY <2>2
<1>6. \A i \in DOMAIN readings : RowSep(ss[i], {name}, lab[i])
  <2> TAKE i \in DOMAIN readings
  <2>1. g(i).Name \in {name} /\ Begins(g(i).Labels, lab[i])
    BY <1>2, <1>3, BeginsWith
  <2> QED
    BY <1>2, <2>1, RowTuples
<1> DEFINE M == {name}
<1>7. \A i \in DOMAIN readings : RowSep(ss[i], M, lab[i]) /\ IsList(lab[i]) /\ Begins(lab[i], l)
  BY <1>4, <1>6
<1> HIDE DEF l, M
<1>8. \A i, j \in DOMAIN readings : DOMAIN lab[i] = DOMAIN lab[j]
  BY <1>4
<1>9. RowSep(FlattenSeq(ss), M, l)
  BY <1>1, <1>5, <1>7, <1>8, EachRowSep
<1> QED
  BY <1>9 DEF l, M

\* and of its hardware.
LEMMA HardwareSep ==
    \A cl, n : /\ IsList(n.Temperatures) /\ IsList(n.Fans)
               /\ \A i, j \in DOMAIN n.Temperatures :
                     n.Temperatures[i].Name = n.Temperatures[j].Name => i = j
               /\ \A i, j \in DOMAIN n.Fans : n.Fans[i].Name = n.Fans[j].Name => i = j
               => RowSep(OfHardware(cl, n), HardwareMetrics, nodeLabels(cl, n.LNN))
<1> SUFFICES ASSUME NEW cl, NEW n, IsList(n.Temperatures), IsList(n.Fans),
                    \A i, j \in DOMAIN n.Temperatures :
                       n.Temperatures[i].Name = n.Temperatures[j].Name => i = j,
                    \A i, j \in DOMAIN n.Fans : n.Fans[i].Name = n.Fans[j].Name => i = j
             PROVE  RowSep(OfHardware(cl, n), HardwareMetrics, nodeLabels(cl, n.LNN))
  OBVIOUS
<1> DEFINE l == nodeLabels(cl, n.LNN)
           temps == n.Temperatures
           fans == n.Fans
           t == [i \in DOMAIN temps |-> <<Gauge("powerscale_node_temperature_celsius",
                                                sensorLabels(cl, n.LNN, temps[i].Name), temps[i].Value)>>]
           f == [i \in DOMAIN fans |-> <<Gauge("powerscale_node_fan_speed_rpm",
                                               sensorLabels(cl, n.LNN, fans[i].Name), fans[i].Value)>>]
           info == Gauge("powerscale_node_hardware_info", hardwareInfoLabels(cl, n.LNN, n.Hardware), 1)
           supplies == Gauge("powerscale_node_power_supplies", l, n.PowerSupplies)
           failures == Gauge("powerscale_node_power_supply_failures", l, n.PowerSupplyFailures)
           s1 == When(\E x \in DOMAIN n.Hardware : n.Hardware[x] # "", info)
           s2 == When(n.PowerSupplies > 0, supplies)
           s3 == When(n.PowerSupplies > 0, failures)
           N1 == {"powerscale_node_hardware_info"}
           N2 == {"powerscale_node_power_supplies"}
           N3 == {"powerscale_node_power_supply_failures"}
           N4 == {"powerscale_node_temperature_celsius"}
           N5 == {"powerscale_node_fan_speed_rpm"}
<1>1. OfHardware(cl, n) = s1 \o s2 \o s3 \o FlattenSeq(t) \o FlattenSeq(f)
  BY DEF OfHardware, Each
<1>2. /\ info.Name \in N1 /\ Begins(info.Labels, l) /\ supplies.Name \in N2 /\ Begins(supplies.Labels, l)
      /\ failures.Name \in N3 /\ Begins(failures.Labels, l)
  BY SampleFields, LabelsBegin, BeginsWith
<1> HIDE DEF info, supplies, failures
<1>3. RowSep(s1, N1, l) /\ RowSep(s2, N2, l) /\ RowSep(s3, N3, l)
  <2> HIDE DEF N1, N2, N3, l
  <2> QED
    BY <1>2, RowTuples
<1>4. RowSep(FlattenSeq(t), N4, l)
  <2> HIDE DEF t
  <2>1. t = [i \in DOMAIN temps |-> <<Gauge("powerscale_node_temperature_celsius",
                                            sensorLabels(cl, n.LNN, temps[i].Name), temps[i].Value)>>]
    BY DEF t
  <2> HIDE DEF temps
  <2>2. IsList(temps) /\ \A i, j \in DOMAIN temps : temps[i].Name = temps[j].Name => i = j
    BY DEF temps
  <2> QED
    BY <2>1, <2>2, ReadingsSep
<1>5. RowSep(FlattenSeq(f), N5, l)
  <2> HIDE DEF f
  <2>1. f = [i \in DOMAIN fans |-> <<Gauge("powerscale_node_fan_speed_rpm",
                                           sensorLabels(cl, n.LNN, fans[i].Name), fans[i].Value)>>]
    BY DEF f
  <2> HIDE DEF fans
  <2>2. IsList(fans) /\ \A i, j \in DOMAIN fans : fans[i].Name = fans[j].Name => i = j
    BY DEF fans
  <2> QED
    BY <2>1, <2>2, ReadingsSep
<1>6. /\ N1 \cap N2 = {} /\ (N1 \cup N2) \cap N3 = {} /\ (N1 \cup N2 \cup N3) \cap N4 = {}
      /\ (N1 \cup N2 \cup N3 \cup N4) \cap N5 = {}
  OBVIOUS
<1>7. N1 \cup N2 \cup N3 \cup N4 \cup N5 = HardwareMetrics
  BY DEF HardwareMetrics
<1> HIDE DEF s1, s2, s3, t, f, N1, N2, N3, N4, N5, l
<1>8. RowSep(s1 \o s2, N1 \cup N2, l)
  BY <1>3, <1>6, RowConcat
<1>9. RowSep(s1 \o s2 \o s3, N1 \cup N2 \cup N3, l)
  BY <1>3, <1>6, <1>8, RowConcat
<1>10. RowSep(s1 \o s2 \o s3 \o FlattenSeq(t), N1 \cup N2 \cup N3 \cup N4, l)
  BY <1>4, <1>6, <1>9, RowConcat
<1>11. RowSep(s1 \o s2 \o s3 \o FlattenSeq(t) \o FlattenSeq(f), N1 \cup N2 \cup N3 \cup N4 \cup N5, l)
  BY <1>5, <1>6, <1>10, RowConcat
<1> QED
  BY <1>1, <1>7, <1>11 DEF l

\* A policy, a licence, and a row of each of the other summaries.
LEMMA RowsSep ==
    \A cl, x :
       /\ RowSep(OfPolicy(cl, x), FamilyOf["sync/policies"], policyLabels(cl, x.Name))
       /\ RowSep(OfLicense(cl, x), FamilyOf["license/licenses"], licenseLabels(cl, x.Name))
       /\ RowSep(OfDrive(cl, x), FamilyOf["summary/drive"], driveStatLabels(cl, x))
       /\ RowSep(OfClient(cl, x), FamilyOf["summary/client"], clientLabels(cl, x))
       /\ RowSep(OfWorkload(cl, x), FamilyOf["summary/workload"], workloadLabels(cl, x))
<1> TAKE cl, x
<1>1. ASSUME NEW name1, NEW name2, name1 # name2, NEW l, NEW m, NEW k, Begins(l, k), Begins(m, k),
             NEW v, NEW w
      PROVE  RowSep(<<Gauge(name1, l, v), Gauge(name2, m, w)>>, {name1, name2}, k)
  <2> DEFINE a == Gauge(name1, l, v)
             b == Gauge(name2, m, w)
  <2>1. a.Name = name1 /\ a.Labels = l /\ b.Name = name2 /\ b.Labels = m
    BY SampleFields
  <2> HIDE DEF a, b
  <2>2. a.Name # b.Name /\ Begins(a.Labels, k) /\ Begins(b.Labels, k)
    BY <1>1, <2>1
  <2>3. RowSep(<<a, b>>, {a.Name, b.Name}, k)
    BY <2>2, RowTuples
  <2> QED
    BY <2>1, <2>3 DEF a, b
<1>2. RowSep(OfPolicy(cl, x), FamilyOf["sync/policies"], policyLabels(cl, x.Name))
  <2> DEFINE l == policyLabels(cl, x.Name)
             v == b2f(x.Enabled)
             w == b2f(x.LastJobState \in syncFailureStates)
  <2>1. OfPolicy(cl, x) = <<Gauge("powerscale_synciq_policy_enabled", l, v),
                            Gauge("powerscale_synciq_last_run_failed", l, w)>>
    BY DEF OfPolicy
  <2> HIDE DEF l, v, w
  <2>2. "powerscale_synciq_policy_enabled" # "powerscale_synciq_last_run_failed" /\ Begins(l, l)
    BY BeginsWith
  <2>3. RowSep(OfPolicy(cl, x), {"powerscale_synciq_policy_enabled", "powerscale_synciq_last_run_failed"}, l)
    BY <1>1, <2>1, <2>2
  <2> QED
    BY <2>3, Families DEF l
<1>3. RowSep(OfLicense(cl, x), FamilyOf["license/licenses"], licenseLabels(cl, x.Name))
  <2> DEFINE l == licenseLabels(cl, x.Name)
             m == licenseActiveLabels(cl, x.Name, x.Status)
             v == x.Expiration
             w == b2f(x.Status \in ActiveStatus)
  <2>1. OfLicense(cl, x) = <<Gauge("powerscale_license_expiration_timestamp_seconds", l, v),
                             Gauge("powerscale_license_active", m, w)>>
    BY DEF OfLicense
  <2>2. /\ "powerscale_license_expiration_timestamp_seconds" # "powerscale_license_active"
        /\ Begins(l, l) /\ Begins(m, l)
    BY BeginsWith, LabelsBegin
  <2> HIDE DEF l, m, v, w
  <2>3. RowSep(OfLicense(cl, x), {"powerscale_license_expiration_timestamp_seconds",
                                  "powerscale_license_active"}, l)
    BY <1>1, <2>1, <2>2
  <2> QED
    BY <2>3, Families DEF l
<1>4. RowSep(OfDrive(cl, x), FamilyOf["summary/drive"], driveStatLabels(cl, x))
  <2> DEFINE l == driveStatLabels(cl, x)
             v == x.OpsPerSec
             w == x.BusyPercent
  <2>1. OfDrive(cl, x) = <<Gauge("powerscale_drive_operations_per_second", l, v),
                           Gauge("powerscale_drive_busy_percent", l, w)>>
    BY DEF OfDrive
  <2> HIDE DEF l, v, w
  <2>2. "powerscale_drive_operations_per_second" # "powerscale_drive_busy_percent" /\ Begins(l, l)
    BY BeginsWith
  <2>3. RowSep(OfDrive(cl, x), {"powerscale_drive_operations_per_second", "powerscale_drive_busy_percent"}, l)
    BY <1>1, <2>1, <2>2
  <2> QED
    BY <2>3, Families DEF l
<1>5. RowSep(OfClient(cl, x), FamilyOf["summary/client"], clientLabels(cl, x))
  <2> DEFINE l == clientLabels(cl, x)
             a == Gauge("powerscale_client_operations_per_second", l, x.OpsPerSec)
             b == Gauge("powerscale_client_in_bytes_per_second", l, x.InBps)
             c == Gauge("powerscale_client_out_bytes_per_second", l, x.OutBps)
  <2>1. OfClient(cl, x) = <<a, b, c>>
    BY DEF OfClient
  <2>2. /\ a.Name = "powerscale_client_operations_per_second" /\ a.Labels = l
        /\ b.Name = "powerscale_client_in_bytes_per_second" /\ b.Labels = l
        /\ c.Name = "powerscale_client_out_bytes_per_second" /\ c.Labels = l
    BY SampleFields
  <2> HIDE DEF a, b, c, l
  <2>3. /\ a.Name # b.Name /\ a.Name # c.Name /\ b.Name # c.Name
        /\ Begins(a.Labels, l) /\ Begins(b.Labels, l) /\ Begins(c.Labels, l)
    BY <2>2, BeginsWith
  <2>4. RowSep(<<a, b, c>>, {a.Name, b.Name, c.Name}, l)
    BY <2>3, RowTuples
  <2>5. {a.Name, b.Name, c.Name} = FamilyOf["summary/client"]
    BY <2>2, Families
  <2> QED
    BY <2>1, <2>4, <2>5 DEF l
<1>6. RowSep(OfWorkload(cl, x), FamilyOf["summary/workload"], workloadLabels(cl, x))
  <2> DEFINE l == workloadLabels(cl, x)
             a == Gauge("powerscale_workload_operations_per_second", l, x.Ops)
             b == Gauge("powerscale_workload_in_bytes_per_second", l, x.BytesIn)
             c == Gauge("powerscale_workload_out_bytes_per_second", l, x.BytesOut)
             d == Sample("powerscale_workload_cpu_seconds_per_second", l, x.CPUMicros, microsPerSecond)
  <2>1. OfWorkload(cl, x) = <<a, b, c, d>>
    BY DEF OfWorkload
  <2>2. /\ a.Name = "powerscale_workload_operations_per_second" /\ a.Labels = l
        /\ b.Name = "powerscale_workload_in_bytes_per_second" /\ b.Labels = l
        /\ c.Name = "powerscale_workload_out_bytes_per_second" /\ c.Labels = l
        /\ d.Name = "powerscale_workload_cpu_seconds_per_second" /\ d.Labels = l
    BY SampleFields
  <2> HIDE DEF a, b, c, d, l
  <2>3. /\ a.Name # b.Name /\ a.Name # c.Name /\ a.Name # d.Name
        /\ b.Name # c.Name /\ b.Name # d.Name /\ c.Name # d.Name
        /\ Begins(a.Labels, l) /\ Begins(b.Labels, l) /\ Begins(c.Labels, l) /\ Begins(d.Labels, l)
    BY <2>2, BeginsWith
  <2>4. RowSep(<<a, b, c, d>>, {a.Name, b.Name, c.Name, d.Name}, l)
    BY <2>3, RowTuples
  <2>5. {a.Name, b.Name, c.Name, d.Name} = FamilyOf["summary/workload"]
    BY <2>2, Families
  <2> QED
    BY <2>1, <2>4, <2>5 DEF l
<1> QED
  BY <1>2, <1>3, <1>4, <1>5, <1>6

\* A storage pool.
LEMMA PoolSep == \A cl, p : RowSep(OfPool(cl, p), FamilyOf["storagepools"], storagePoolLabels(cl, p))
<1> SUFFICES ASSUME NEW cl, NEW p
             PROVE  RowSep(OfPool(cl, p), FamilyOf["storagepools"], storagePoolLabels(cl, p))
  OBVIOUS
<1> DEFINE l == storagePoolLabels(cl, p)
           P == PoolMetrics
           s == OfPool(cl, p)
<1>1. DOMAIN P = 1..9 /\ \A i, j \in 1..9 : P[i][2] = P[j][2] => i = j
  BY DEF PoolMetrics
<1>2. FamilyOf["storagepools"] = {P[i][2] : i \in DOMAIN P}
  BY Families
<1> HIDE DEF P
<1>3. s = [i \in 1..9 |-> Gauge(P[i][2], l, p.Usage[P[i][1]])]
  BY <1>1 DEF OfPool, P
<1>4. DOMAIN s = 1..9 /\ \A i \in 1..9 : s[i].Name = P[i][2] /\ s[i].Labels = l
  BY <1>3, SampleFields
<1>5. s = [i \in 1..9 |-> s[i]]
  BY <1>3
<1> HIDE DEF s
<1>6. IsList(s)
  BY <1>5, FunctionIsList DEF IsList
<1>7. Apart(s)
  BY <1>1, <1>4, <1>6 DEF Apart, Series
<1>8. \A a \in Range(s) : a.Name \in FamilyOf["storagepools"] /\ Begins(a.Labels, l)
  BY <1>1, <1>2, <1>4, BeginsWith DEF Range
<1> QED
  BY <1>7, <1>8 DEF RowSep, Sep, l, s

-----------------------------------------------------------------------------
(* The families, when their rows are of distinct things.                    *)

\* Nothing is asked of labels that begin with none.
LEMMA BeginsNothing == \A l : Begins(l, <<>>)
  BY EmptyRange DEF Begins

\* Quotas, told apart by their ids;
LEMMA QuotaSamplesSep ==
  ASSUME NEW cl, NEW rows, IsList(rows),
         \A i, j \in DOMAIN rows : rows[i].id = rows[j].id => i = j
  PROVE  Sep(quotaSamples(cl, rows), QuotaMetrics)
<1> DEFINE ss == [i \in DOMAIN rows |-> OfQuota(cl, rows[i])]
           lab == [i \in DOMAIN rows |-> quotaLabels(cl, rows[i])]
           M == QuotaMetrics
<1>1. quotaSamples(cl, rows) = FlattenSeq(ss)
  BY DEF quotaSamples, Each
<1>2. \A i \in DOMAIN rows : ss[i] = OfQuota(cl, rows[i]) /\ lab[i] = quotaLabels(cl, rows[i])
  OBVIOUS
<1>3. ss = [i \in DOMAIN rows |-> ss[i]]
  OBVIOUS
<1> HIDE DEF ss, lab, M
<1>4. \A i \in DOMAIN rows : IsList(lab[i]) /\ DOMAIN lab[i] = DOMAIN (quotaNames)
  <2> TAKE i \in DOMAIN rows
  <2>1. Labelled(quotaLabels(cl, rows[i]), quotaNames)
    BY LabelSets
  <2> QED
    BY <1>2, <2>1, LabelledDomain
<1>5. \A i, j \in DOMAIN rows : lab[i] = lab[j] => i = j
  <2> SUFFICES ASSUME NEW i \in DOMAIN rows, NEW j \in DOMAIN rows, lab[i] = lab[j] PROVE i = j
    OBVIOUS
  <2>1. quotaLabels(cl, rows[i]) = quotaLabels(cl, rows[j])
    BY <1>2
  <2>2. rows[i].id = rows[j].id
    BY <2>1, ClusterLabelsTell
  <2> QED
    BY <2>2
<1>6. \A i \in DOMAIN rows : RowSep(ss[i], M, lab[i])
  BY <1>2, QuotaSep DEF M
<1>7. \A i \in DOMAIN rows : RowSep(ss[i], M, lab[i]) /\ IsList(lab[i]) /\ Begins(lab[i], <<>>)
  BY <1>4, <1>6, BeginsNothing
<1>8. \A i, j \in DOMAIN rows : DOMAIN lab[i] = DOMAIN lab[j]
  BY <1>4
<1>9. RowSep(FlattenSeq(ss), M, <<>>)
  BY <1>3, <1>5, <1>7, <1>8, EachRowSep
<1> QED
  BY <1>1, <1>9 DEF RowSep, M

\* rows of summary/protocol, by node, protocol and operation;
LEMMA ProtoSamplesSep ==
  ASSUME NEW cl, NEW rows, IsList(rows),
         \A i, j \in DOMAIN rows : rows[i].Node = rows[j].Node /\ rows[i].Protocol = rows[j].Protocol /\ rows[i].Operation = rows[j].Operation => i = j
  PROVE  Sep(protoSamples(cl, rows), FamilyOf["summary/protocol"])
<1> DEFINE ss == [i \in DOMAIN rows |-> OfProtocol(cl, rows[i])]
           lab == [i \in DOMAIN rows |-> protocolLabels(cl, rows[i])]
           M == FamilyOf["summary/protocol"]
<1>1. protoSamples(cl, rows) = FlattenSeq(ss)
  BY DEF protoSamples, Each
<1>2. \A i \in DOMAIN rows : ss[i] = OfProtocol(cl, rows[i]) /\ lab[i] = protocolLabels(cl, rows[i])
  OBVIOUS
<1>3. ss = [i \in DOMAIN rows |-> ss[i]]
  OBVIOUS
<1> HIDE DEF ss, lab, M
<1>4. \A i \in DOMAIN rows : IsList(lab[i]) /\ DOMAIN lab[i] = DOMAIN (nodeNames \o <<"protocol", "op">>)
  <2> TAKE i \in DOMAIN rows
  <2>1. Labelled(protocolLabels(cl, rows[i]), nodeNames \o <<"protocol", "op">>)
    BY RowLabelSets
  <2> QED
    BY <1>2, <2>1, LabelledDomain
<1>5. \A i, j \in DOMAIN rows : lab[i] = lab[j] => i = j
  <2> SUFFICES ASSUME NEW i \in DOMAIN rows, NEW j \in DOMAIN rows, lab[i] = lab[j] PROVE i = j
    OBVIOUS
  <2>1. protocolLabels(cl, rows[i]) = protocolLabels(cl, rows[j])
    BY <1>2
  <2>2. rows[i].Node = rows[j].Node /\ rows[i].Protocol = rows[j].Protocol /\ rows[i].Operation = rows[j].Operation
    BY <2>1, NodeLabelsTell
  <2> QED
    BY <2>2
<1>6. \A i \in DOMAIN rows : RowSep(ss[i], M, lab[i])
  BY <1>2, ProtocolSep DEF M
<1>7. \A i \in DOMAIN rows : RowSep(ss[i], M, lab[i]) /\ IsList(lab[i]) /\ Begins(lab[i], <<>>)
  BY <1>4, <1>6, BeginsNothing
<1>8. \A i, j \in DOMAIN rows : DOMAIN lab[i] = DOMAIN lab[j]
  BY <1>4
<1>9. RowSep(FlattenSeq(ss), M, <<>>)
  BY <1>3, <1>5, <1>7, <1>8, EachRowSep
<1> QED
  BY <1>1, <1>9 DEF RowSep, M

\* policies;
LEMMA SyncSamplesSep ==
  ASSUME NEW cl, NEW rows, IsList(rows),
         \A i, j \in DOMAIN rows : rows[i].Name = rows[j].Name => i = j
  PROVE  Sep(syncSamples(cl, rows), FamilyOf["sync/policies"])
<1> DEFINE ss == [i \in DOMAIN rows |-> OfPolicy(cl, rows[i])]
           lab == [i \in DOMAIN rows |-> policyLabels(cl, rows[i].Name)]
           M == FamilyOf["sync/policies"]
<1>1. syncSamples(cl, rows) = FlattenSeq(ss)
  BY DEF syncSamples, Each
<1>2. \A i \in DOMAIN rows : ss[i] = OfPolicy(cl, rows[i]) /\ lab[i] = policyLabels(cl, rows[i].Name)
  OBVIOUS
<1>3. ss = [i \in DOMAIN rows |-> ss[i]]
  OBVIOUS
<1> HIDE DEF ss, lab, M
<1>4. \A i \in DOMAIN rows : IsList(lab[i]) /\ DOMAIN lab[i] = DOMAIN (baseNames \o <<"policy">>)
  <2> TAKE i \in DOMAIN rows
  <2>1. Labelled(policyLabels(cl, rows[i].Name), baseNames \o <<"policy">>)
    BY LabelSets
  <2> QED
    BY <1>2, <2>1, LabelledDomain
<1>5. \A i, j \in DOMAIN rows : lab[i] = lab[j] => i = j
  <2> SUFFICES ASSUME NEW i \in DOMAIN rows, NEW j \in DOMAIN rows, lab[i] = lab[j] PROVE i = j
    OBVIOUS
  <2>1. policyLabels(cl, rows[i].Name) = policyLabels(cl, rows[j].Name)
    BY <1>2
  <2>2. rows[i].Name = rows[j].Name
    BY <2>1, ClusterLabelsTell
  <2> QED
    BY <2>2
<1>6. \A i \in DOMAIN rows : RowSep(ss[i], M, lab[i])
  BY <1>2, RowsSep DEF M
<1>7. \A i \in DOMAIN rows : RowSep(ss[i], M, lab[i]) /\ IsList(lab[i]) /\ Begins(lab[i], <<>>)
  BY <1>4, <1>6, BeginsNothing
<1>8. \A i, j \in DOMAIN rows : DOMAIN lab[i] = DOMAIN lab[j]
  BY <1>4
<1>9. RowSep(FlattenSeq(ss), M, <<>>)
  BY <1>3, <1>5, <1>7, <1>8, EachRowSep
<1> QED
  BY <1>1, <1>9 DEF RowSep, M

\* licences;
LEMMA LicenseSamplesSep ==
  ASSUME NEW cl, NEW rows, IsList(rows),
         \A i, j \in DOMAIN rows : rows[i].Name = rows[j].Name => i = j
  PROVE  Sep(licenseSamples(cl, rows), FamilyOf["license/licenses"])
<1> DEFINE ss == [i \in DOMAIN rows |-> OfLicense(cl, rows[i])]
           lab == [i \in DOMAIN rows |-> licenseLabels(cl, rows[i].Name)]
           M == FamilyOf["license/licenses"]
<1>1. licenseSamples(cl, rows) = FlattenSeq(ss)
  BY DEF licenseSamples, Each
<1>2. \A i \in DOMAIN rows : ss[i] = OfLicense(cl, rows[i]) /\ lab[i] = licenseLabels(cl, rows[i].Name)
  OBVIOUS
<1>3. ss = [i \in DOMAIN rows |-> ss[i]]
  OBVIOUS
<1> HIDE DEF ss, lab, M
<1>4. \A i \in DOMAIN rows : IsList(lab[i]) /\ DOMAIN lab[i] = DOMAIN (baseNames \o <<"name">>)
  <2> TAKE i \in DOMAIN rows
  <2>1. Labelled(licenseLabels(cl, rows[i].Name), baseNames \o <<"name">>)
    BY LabelSets
  <2> QED
    BY <1>2, <2>1, LabelledDomain
<1>5. \A i, j \in DOMAIN rows : lab[i] = lab[j] => i = j
  <2> SUFFICES ASSUME NEW i \in DOMAIN rows, NEW j \in DOMAIN rows, lab[i] = lab[j] PROVE i = j
    OBVIOUS
  <2>1. licenseLabels(cl, rows[i].Name) = licenseLabels(cl, rows[j].Name)
    BY <1>2
  <2>2. rows[i].Name = rows[j].Name
    BY <2>1, ClusterLabelsTell
  <2> QED
    BY <2>2
<1>6. \A i \in DOMAIN rows : RowSep(ss[i], M, lab[i])
  BY <1>2, RowsSep DEF M
<1>7. \A i \in DOMAIN rows : RowSep(ss[i], M, lab[i]) /\ IsList(lab[i]) /\ Begins(lab[i], <<>>)
  BY <1>4, <1>6, BeginsNothing
<1>8. \A i, j \in DOMAIN rows : DOMAIN lab[i] = DOMAIN lab[j]
  BY <1>4
<1>9. RowSep(FlattenSeq(ss), M, <<>>)
  BY <1>3, <1>5, <1>7, <1>8, EachRowSep
<1> QED
  BY <1>1, <1>9 DEF RowSep, M

\* storage pools, by name and type;
LEMMA StoragePoolSamplesSep ==
  ASSUME NEW cl, NEW rows, IsList(rows),
         \A i, j \in DOMAIN rows : rows[i].Name = rows[j].Name /\ rows[i].Type = rows[j].Type => i = j
  PROVE  Sep(storagePoolSamples(cl, rows), FamilyOf["storagepools"])
<1> DEFINE ss == [i \in DOMAIN rows |-> OfPool(cl, rows[i])]
           lab == [i \in DOMAIN rows |-> storagePoolLabels(cl, rows[i])]
           M == FamilyOf["storagepools"]
<1>1. storagePoolSamples(cl, rows) = FlattenSeq(ss)
  BY DEF storagePoolSamples, Each
<1>2. \A i \in DOMAIN rows : ss[i] = OfPool(cl, rows[i]) /\ lab[i] = storagePoolLabels(cl, rows[i])
  OBVIOUS
<1>3. ss = [i \in DOMAIN rows |-> ss[i]]
  OBVIOUS
<1> HIDE DEF ss, lab, M
<1>4. \A i \in DOMAIN rows : IsList(lab[i]) /\ DOMAIN lab[i] = DOMAIN (baseNames \o <<"pool", "type">>)
  <2> TAKE i \in DOMAIN rows
  <2>1. Labelled(storagePoolLabels(cl, rows[i]), baseNames \o <<"pool", "type">>)
    BY LabelSets
  <2> QED
    BY <1>2, <2>1, LabelledDomain
<1>5. \A i, j \in DOMAIN rows : lab[i] = lab[j] => i = j
  <2> SUFFICES ASSUME NEW i \in DOMAIN rows, NEW j \in DOMAIN rows, lab[i] = lab[j] PROVE i = j
    OBVIOUS
  <2>1. storagePoolLabels(cl, rows[i]) = storagePoolLabels(cl, rows[j])
    BY <1>2
  <2>2. rows[i].Name = rows[j].Name /\ rows[i].Type = rows[j].Type
    BY <2>1, ClusterLabelsTell
  <2> QED
    BY <2>2
<1>6. \A i \in DOMAIN rows : RowSep(ss[i], M, lab[i])
  BY <1>2, PoolSep DEF M
<1>7. \A i \in DOMAIN rows : RowSep(ss[i], M, lab[i]) /\ IsList(lab[i]) /\ Begins(lab[i], <<>>)
  BY <1>4, <1>6, BeginsNothing
<1>8. \A i, j \in DOMAIN rows : DOMAIN lab[i] = DOMAIN lab[j]
  BY <1>4
<1>9. RowSep(FlattenSeq(ss), M, <<>>)
  BY <1>3, <1>5, <1>7, <1>8, EachRowSep
<1> QED
  BY <1>1, <1>9 DEF RowSep, M

\* drives, by node and bay;
LEMMA DriveSamplesSep ==
  ASSUME NEW cl, NEW rows, IsList(rows),
         \A i, j \in DOMAIN rows : rows[i].Node = rows[j].Node /\ rows[i].Bay = rows[j].Bay => i = j
  PROVE  Sep(driveSamples(cl, rows), FamilyOf["summary/drive"])
<1> DEFINE ss == [i \in DOMAIN rows |-> OfDrive(cl, rows[i])]
           lab == [i \in DOMAIN rows |-> driveStatLabels(cl, rows[i])]
           M == FamilyOf["summary/drive"]
<1>1. driveSamples(cl, rows) = FlattenSeq(ss)
  BY DEF driveSamples, Each
<1>2. \A i \in DOMAIN rows : ss[i] = OfDrive(cl, rows[i]) /\ lab[i] = driveStatLabels(cl, rows[i])
  OBVIOUS
<1>3. ss = [i \in DOMAIN rows |-> ss[i]]
  OBVIOUS
<1> HIDE DEF ss, lab, M
<1>4. \A i \in DOMAIN rows : IsList(lab[i]) /\ DOMAIN lab[i] = DOMAIN (nodeNames \o <<"bay", "type">>)
  <2> TAKE i \in DOMAIN rows
  <2>1. Labelled(driveStatLabels(cl, rows[i]), nodeNames \o <<"bay", "type">>)
    BY RowLabelSets
  <2> QED
    BY <1>2, <2>1, LabelledDomain
<1>5. \A i, j \in DOMAIN rows : lab[i] = lab[j] => i = j
  <2> SUFFICES ASSUME NEW i \in DOMAIN rows, NEW j \in DOMAIN rows, lab[i] = lab[j] PROVE i = j
    OBVIOUS
  <2>1. driveStatLabels(cl, rows[i]) = driveStatLabels(cl, rows[j])
    BY <1>2
  <2>2. rows[i].Node = rows[j].Node /\ rows[i].Bay = rows[j].Bay
    BY <2>1, NodeLabelsTell
  <2> QED
    BY <2>2
<1>6. \A i \in DOMAIN rows : RowSep(ss[i], M, lab[i])
  BY <1>2, RowsSep DEF M
<1>7. \A i \in DOMAIN rows : RowSep(ss[i], M, lab[i]) /\ IsList(lab[i]) /\ Begins(lab[i], <<>>)
  BY <1>4, <1>6, BeginsNothing
<1>8. \A i, j \in DOMAIN rows : DOMAIN lab[i] = DOMAIN lab[j]
  BY <1>4
<1>9. RowSep(FlattenSeq(ss), M, <<>>)
  BY <1>3, <1>5, <1>7, <1>8, EachRowSep
<1> QED
  BY <1>1, <1>9 DEF RowSep, M

\* clients, by node, protocol and class.
LEMMA ClientSamplesSep ==
  ASSUME NEW cl, NEW rows, IsList(rows),
         \A i, j \in DOMAIN rows : rows[i].Node = rows[j].Node /\ rows[i].Protocol = rows[j].Protocol /\ rows[i].Class = rows[j].Class => i = j
  PROVE  Sep(clientSamples(cl, rows), FamilyOf["summary/client"])
<1> DEFINE ss == [i \in DOMAIN rows |-> OfClient(cl, rows[i])]
           lab == [i \in DOMAIN rows |-> clientLabels(cl, rows[i])]
           M == FamilyOf["summary/client"]
<1>1. clientSamples(cl, rows) = FlattenSeq(ss)
  BY DEF clientSamples, Each
<1>2. \A i \in DOMAIN rows : ss[i] = OfClient(cl, rows[i]) /\ lab[i] = clientLabels(cl, rows[i])
  OBVIOUS
<1>3. ss = [i \in DOMAIN rows |-> ss[i]]
  OBVIOUS
<1> HIDE DEF ss, lab, M
<1>4. \A i \in DOMAIN rows : IsList(lab[i]) /\ DOMAIN lab[i] = DOMAIN (nodeNames \o <<"protocol", "class">>)
  <2> TAKE i \in DOMAIN rows
  <2>1. Labelled(clientLabels(cl, rows[i]), nodeNames \o <<"protocol", "class">>)
    BY RowLabelSets
  <2> QED
    BY <1>2, <2>1, LabelledDomain
<1>5. \A i, j \in DOMAIN rows : lab[i] = lab[j] => i = j
  <2> SUFFICES ASSUME NEW i \in DOMAIN rows, NEW j \in DOMAIN rows, lab[i] = lab[j] PROVE i = j
    OBVIOUS
  <2>1. clientLabels(cl, rows[i]) = clientLabels(cl, rows[j])
    BY <1>2
  <2>2. rows[i].Node = rows[j].Node /\ rows[i].Protocol = rows[j].Protocol /\ rows[i].Class = rows[j].Class
    BY <2>1, NodeLabelsTell
  <2> QED
    BY <2>2
<1>6. \A i \in DOMAIN rows : RowSep(ss[i], M, lab[i])
  BY <1>2, RowsSep DEF M
<1>7. \A i \in DOMAIN rows : RowSep(ss[i], M, lab[i]) /\ IsList(lab[i]) /\ Begins(lab[i], <<>>)
  BY <1>4, <1>6, BeginsNothing
<1>8. \A i, j \in DOMAIN rows : DOMAIN lab[i] = DOMAIN lab[j]
  BY <1>4
<1>9. RowSep(FlattenSeq(ss), M, <<>>)
  BY <1>3, <1>5, <1>7, <1>8, EachRowSep
<1> QED
  BY <1>1, <1>9 DEF RowSep, M

\* Nodes, by their numbers: health
LEMMA NodeHealthSamplesSep ==
  ASSUME NEW cl, NEW rows, IsList(rows),
         \A i \in DOMAIN rows : NodeOK(rows[i]),
         \A i, j \in DOMAIN rows : rows[i].LNN = rows[j].LNN => i = j
  PROVE  Sep(nodeHealthSamples(cl, rows), HealthMetrics)
<1> DEFINE ss == [i \in DOMAIN rows |-> OfNodeHealth(cl, rows[i])]
           lab == [i \in DOMAIN rows |-> nodeLabels(cl, rows[i].LNN)]
           M == HealthMetrics
<1>1. nodeHealthSamples(cl, rows) = FlattenSeq(ss)
  BY DEF nodeHealthSamples, Each
<1>2. \A i \in DOMAIN rows : ss[i] = OfNodeHealth(cl, rows[i]) /\ lab[i] = nodeLabels(cl, rows[i].LNN)
  OBVIOUS
<1>3. ss = [i \in DOMAIN rows |-> ss[i]]
  OBVIOUS
<1> HIDE DEF ss, lab, M
<1>4. \A i \in DOMAIN rows : IsList(lab[i]) /\ DOMAIN lab[i] = DOMAIN (nodeNames)
  <2> TAKE i \in DOMAIN rows
  <2>1. Labelled(nodeLabels(cl, rows[i].LNN), nodeNames)
    BY LabelSets
  <2> QED
    BY <1>2, <2>1, LabelledDomain
<1>5. \A i, j \in DOMAIN rows : lab[i] = lab[j] => i = j
  <2> SUFFICES ASSUME NEW i \in DOMAIN rows, NEW j \in DOMAIN rows, lab[i] = lab[j] PROVE i = j
    OBVIOUS
  <2>1. nodeLabels(cl, rows[i].LNN) = nodeLabels(cl, rows[j].LNN)
    BY <1>2
  <2>2. rows[i].LNN = rows[j].LNN
    BY <2>1, NodeLabelsTell
  <2> QED
    BY <2>2
<1>6. \A i \in DOMAIN rows : RowSep(ss[i], M, lab[i])
  <2> TAKE i \in DOMAIN rows
  <2>1. IsFiniteSet(DOMAIN rows[i].DrivesByState)
    BY DEF NodeOK
  <2> QED
    BY <1>2, <2>1, NodeHealthSep DEF M
<1>7. \A i \in DOMAIN rows : RowSep(ss[i], M, lab[i]) /\ IsList(lab[i]) /\ Begins(lab[i], <<>>)
  BY <1>4, <1>6, BeginsNothing
<1>8. \A i, j \in DOMAIN rows : DOMAIN lab[i] = DOMAIN lab[j]
  BY <1>4
<1>9. RowSep(FlattenSeq(ss), M, <<>>)
  BY <1>3, <1>5, <1>7, <1>8, EachRowSep
<1> QED
  BY <1>1, <1>9 DEF RowSep, M

\* and hardware, when no reading is there twice.
LEMMA HardwareSamplesSep ==
  ASSUME NEW cl, NEW rows, IsList(rows),
         \A i \in DOMAIN rows : NodeOK(rows[i]),
         \A n \in Range(rows) : /\ Distinct(LAMBDA t : t.Name, n.Temperatures)
                               /\ Distinct(LAMBDA f : f.Name, n.Fans),
         \A i, j \in DOMAIN rows : rows[i].LNN = rows[j].LNN => i = j
  PROVE  Sep(hardwareSamples(cl, rows), HardwareMetrics)
<1> DEFINE ss == [i \in DOMAIN rows |-> OfHardware(cl, rows[i])]
           lab == [i \in DOMAIN rows |-> nodeLabels(cl, rows[i].LNN)]
           M == HardwareMetrics
<1>1. hardwareSamples(cl, rows) = FlattenSeq(ss)
  BY DEF hardwareSamples, Each
<1>2. \A i \in DOMAIN rows : ss[i] = OfHardware(cl, rows[i]) /\ lab[i] = nodeLabels(cl, rows[i].LNN)
  OBVIOUS
<1>3. ss = [i \in DOMAIN rows |-> ss[i]]
  OBVIOUS
<1> HIDE DEF ss, lab, M
<1>4. \A i \in DOMAIN rows : IsList(lab[i]) /\ DOMAIN lab[i] = DOMAIN (nodeNames)
  <2> TAKE i \in DOMAIN rows
  <2>1. Labelled(nodeLabels(cl, rows[i].LNN), nodeNames)
    BY LabelSets
  <2> QED
    BY <1>2, <2>1, LabelledDomain
<1>5. \A i, j \in DOMAIN rows : lab[i] = lab[j] => i = j
  <2> SUFFICES ASSUME NEW i \in DOMAIN rows, NEW j \in DOMAIN rows, lab[i] = lab[j] PROVE i = j
    OBVIOUS
  <2>1. nodeLabels(cl, rows[i].LNN) = nodeLabels(cl, rows[j].LNN)
    BY <1>2
  <2>2. rows[i].LNN = rows[j].LNN
    BY <2>1, NodeLabelsTell
  <2> QED
    BY <2>2
<1>6. \A i \in DOMAIN rows : RowSep(ss[i], M, lab[i])
  <2> TAKE i \in DOMAIN rows
  <2> DEFINE n == rows[i]
  <2>1. n \in Range(rows) /\ NodeOK(n)
    BY DEF Range
  <2> HIDE DEF n
  <2>2. /\ \A x, y \in DOMAIN n.Temperatures : n.Temperatures[x].Name = n.Temperatures[y].Name => x = y
        /\ \A x, y \in DOMAIN n.Fans : n.Fans[x].Name = n.Fans[y].Name => x = y
    BY <2>1 DEF Distinct
  <2>3. RowSep(OfHardware(cl, n), M, nodeLabels(cl, n.LNN))
    BY <2>1, <2>2, HardwareSep DEF M, NodeOK
  <2> QED
    BY <1>2, <2>3 DEF n
<1>7. \A i \in DOMAIN rows : RowSep(ss[i], M, lab[i]) /\ IsList(lab[i]) /\ Begins(lab[i], <<>>)
  BY <1>4, <1>6, BeginsNothing
<1>8. \A i, j \in DOMAIN rows : DOMAIN lab[i] = DOMAIN lab[j]
  BY <1>4
<1>9. RowSep(FlattenSeq(ss), M, <<>>)
  BY <1>3, <1>5, <1>7, <1>8, EachRowSep
<1> QED
  BY <1>1, <1>9 DEF RowSep, M

\* Workloads, by node and identity.
LEMMA WorkloadSamplesSep ==
  ASSUME NEW cl, NEW rows, IsList(rows),
         \A i, j \in DOMAIN rows :
            /\ rows[i].Node = rows[j].Node
            /\ [k \in DOMAIN WorkloadDimensions |-> rows[i].ID[WorkloadDimensions[k]]]
                  = [k \in DOMAIN WorkloadDimensions |-> rows[j].ID[WorkloadDimensions[k]]]
            => i = j
  PROVE  Sep(workloadSamples(cl, rows), FamilyOf["summary/workload"])
<1> DEFINE ss == [i \in DOMAIN rows |-> OfWorkload(cl, rows[i])]
           lab == [i \in DOMAIN rows |-> workloadLabels(cl, rows[i])]
           M == FamilyOf["summary/workload"]
<1>1. workloadSamples(cl, rows) = FlattenSeq(ss)
  BY DEF workloadSamples, Each
<1>2. \A i \in DOMAIN rows : ss[i] = OfWorkload(cl, rows[i]) /\ lab[i] = workloadLabels(cl, rows[i])
  OBVIOUS
<1>3. ss = [i \in DOMAIN rows |-> ss[i]]
  OBVIOUS
<1> HIDE DEF ss, lab, M
<1>4. \A i \in DOMAIN rows : IsList(lab[i]) /\ DOMAIN lab[i] = DOMAIN (nodeNames \o WorkloadDimensions)
  <2> TAKE i \in DOMAIN rows
  <2>1. Labelled(workloadLabels(cl, rows[i]), nodeNames \o WorkloadDimensions)
    BY RowLabelSets
  <2> QED
    BY <1>2, <2>1, LabelledDomain
<1>5. \A i, j \in DOMAIN rows : lab[i] = lab[j] => i = j
  <2> SUFFICES ASSUME NEW i \in DOMAIN rows, NEW j \in DOMAIN rows, lab[i] = lab[j] PROVE i = j
    OBVIOUS
  <2>1. workloadLabels(cl, rows[i]) = workloadLabels(cl, rows[j])
    BY <1>2
  <2>2. /\ rows[i].Node = rows[j].Node
        /\ [k \in DOMAIN WorkloadDimensions |-> rows[i].ID[WorkloadDimensions[k]]]
              = [k \in DOMAIN WorkloadDimensions |-> rows[j].ID[WorkloadDimensions[k]]]
    BY <2>1, NodeLabelsTell
  <2> QED
    BY <2>2
<1>6. \A i \in DOMAIN rows : RowSep(ss[i], M, lab[i])
  BY <1>2, RowsSep DEF M
<1>7. \A i \in DOMAIN rows : RowSep(ss[i], M, lab[i]) /\ IsList(lab[i]) /\ Begins(lab[i], <<>>)
  BY <1>4, <1>6, BeginsNothing
<1>8. \A i, j \in DOMAIN rows : DOMAIN lab[i] = DOMAIN lab[j]
  BY <1>4
<1>9. RowSep(FlattenSeq(ss), M, <<>>)
  BY <1>3, <1>5, <1>7, <1>8, EachRowSep
<1> QED
  BY <1>1, <1>9 DEF RowSep, M

\* The severities of the unresolved events.
LEMMA EventSamplesSep ==
  ASSUME NEW cl, NEW events, IsFiniteSet(DOMAIN events)
  PROVE  Sep(eventSamples(cl, events), FamilyOf["eventgroup-occurrences"])
<1> DEFINE rows == SetToSeq(DOMAIN events)
           g(i) == Gauge("powerscale_active_events", severityLabels(cl, rows[i]), events[rows[i]])
           ss == [i \in DOMAIN rows |-> <<g(i)>>]
           lab == [i \in DOMAIN rows |-> severityLabels(cl, rows[i])]
           M == FamilyOf["eventgroup-occurrences"]
<1>1. eventSamples(cl, events) = FlattenSeq(ss)
  BY DEF eventSamples, Each
<1>2. IsList(rows) /\ \A i, j \in DOMAIN rows : rows[i] = rows[j] => i = j
  BY SetToSeqLists DEF IsList
<1> HIDE DEF rows
<1>3. \A i \in DOMAIN rows : ss[i] = <<g(i)>> /\ lab[i] = severityLabels(cl, rows[i])
  OBVIOUS
<1>4. \A i : g(i).Name = "powerscale_active_events" /\ g(i).Labels = severityLabels(cl, rows[i])
  BY SampleFields
<1>5. ss = [i \in DOMAIN rows |-> ss[i]]
  OBVIOUS
<1>6. "powerscale_active_events" \in M
  BY Families
<1> HIDE DEF ss, lab, M, g
<1>7. \A i \in DOMAIN rows : IsList(lab[i]) /\ DOMAIN lab[i] = DOMAIN (baseNames \o <<"severity">>)
  <2> TAKE i \in DOMAIN rows
  <2>1. Labelled(severityLabels(cl, rows[i]), baseNames \o <<"severity">>)
    BY LabelSets
  <2> QED
    BY <1>3, <2>1, LabelledDomain
<1>8. \A i, j \in DOMAIN rows : lab[i] = lab[j] => i = j
  BY <1>2, <1>3, ClusterLabelsTell
<1>9. \A i \in DOMAIN rows : RowSep(ss[i], M, lab[i]) /\ IsList(lab[i]) /\ Begins(lab[i], <<>>)
  <2> TAKE i \in DOMAIN rows
  <2>1. g(i).Name \in M /\ Begins(g(i).Labels, lab[i])
    BY <1>3, <1>4, <1>6, BeginsWith
  <2>2. RowSep(ss[i], M, lab[i])
    BY <1>3, <2>1, RowTuples
  <2> QED
    BY <1>7, <2>2, BeginsNothing
<1>10. \A i, j \in DOMAIN rows : DOMAIN lab[i] = DOMAIN lab[j]
  BY <1>7
<1>11. RowSep(FlattenSeq(ss), M, <<>>)
  BY <1>2, <1>5, <1>8, <1>9, <1>10, EachRowSep
<1> QED
  BY <1>1, <1>11 DEF RowSep, M

\* The counts and sums of the cluster.
LEMMA CountsSep ==
  ASSUME NEW cl
  PROVE  /\ \A counts : Sep(countSamples(cl, counts), {"powerscale_nfs_exports", "powerscale_smb_shares",
                                                     "powerscale_snapshots"})
         /\ \A used : Sep(snapshotSamples(cl, used), FamilyOf["snapshots-summary"])
         /\ \A d : Sep(dedupeSamples(cl, d), FamilyOf["dedupe-summary"])
<1> DEFINE l == baseLabels(cl)
<1>1. ASSUME NEW counts
      PROVE  Sep(countSamples(cl, counts), {"powerscale_nfs_exports", "powerscale_smb_shares",
                                            "powerscale_snapshots"})
  <2> DEFINE a == Gauge("powerscale_nfs_exports", l, counts.NFSExports)
             b == Gauge("powerscale_smb_shares", l, counts.SMBShares)
             c == Gauge("powerscale_snapshots", l, counts.Snapshots)
  <2>1. countSamples(cl, counts) = <<a, b, c>>
    BY DEF countSamples
  <2>2. /\ a.Name = "powerscale_nfs_exports" /\ b.Name = "powerscale_smb_shares"
        /\ c.Name = "powerscale_snapshots"
    BY SampleFields
  <2> HIDE DEF a, b, c
  <2>3. a.Name # b.Name /\ a.Name # c.Name /\ b.Name # c.Name
    BY <2>2
  <2>4. Sep(<<a, b, c>>, {a.Name, b.Name, c.Name})
    BY <2>3, SepTuples
  <2> QED
    BY <2>1, <2>2, <2>4
<1>2. ASSUME NEW used PROVE Sep(snapshotSamples(cl, used), FamilyOf["snapshots-summary"])
  <2> DEFINE a == Gauge("powerscale_snapshot_used_bytes", l, used)
  <2>1. snapshotSamples(cl, used) = <<a>>
    BY DEF snapshotSamples
  <2>2. a.Name \in FamilyOf["snapshots-summary"]
    BY SampleFields, Families
  <2> HIDE DEF a
  <2> QED
    BY <2>1, <2>2, SepTuples
<1>3. ASSUME NEW d PROVE Sep(dedupeSamples(cl, d), FamilyOf["dedupe-summary"])
  <2> DEFINE a == Gauge("powerscale_dedupe_logical_saved_bytes", l, d.LogicalSaved)
             b == Gauge("powerscale_dedupe_deduplicated_bytes", l, d.Deduplicated)
  <2>1. dedupeSamples(cl, d) = <<a, b>>
    BY DEF dedupeSamples
  <2>2. a.Name = "powerscale_dedupe_logical_saved_bytes" /\ b.Name = "powerscale_dedupe_deduplicated_bytes"
    BY SampleFields
  <2> HIDE DEF a, b
  <2>3. a.Name # b.Name
    BY <2>2
  <2>4. Sep(<<a, b>>, {a.Name, b.Name})
    BY <2>3, SepTuples
  <2>5. {a.Name, b.Name} = FamilyOf["dedupe-summary"]
    BY <2>2, Families
  <2> QED
    BY <2>1, <2>4, <2>5
<1> QED
  BY <1>1, <1>2, <1>3

-----------------------------------------------------------------------------
(* Where a filter takes its rows from.                                      *)

\* s is the rows at the places I, each once.
Picks(s, rows, I) ==
    \E g : g \in Bijection(DOMAIN s, I) /\ \A k \in DOMAIN s : s[k] = rows[g[k]]

\* A loop that appends the rows of T picks them.
LEMMA FilterPicks ==
  ASSUME NEW rows, IsList(rows), NEW T
  PROVE  Picks(FlattenSeq([i \in DOMAIN rows |-> When(rows[i] \in T, rows[i])]), rows,
               {i \in DOMAIN rows : rows[i] \in T})
<1> DEFINE ss == [i \in DOMAIN rows |-> When(rows[i] \in T, rows[i])]
           s == FlattenSeq(ss)
           I == {i \in DOMAIN rows : rows[i] \in T}
<1>1. PICK n \in Nat : DOMAIN rows = 1..n
  BY ListDomain DEF IsList
<1>2. \A i \in 1..n : /\ ss[i] = When(rows[i] \in T, rows[i])
                      /\ ss[i] \in Seq(Range(ss[i]))
  <2>1. \A i \in 1..n : ss[i] = When(rows[i] \in T, rows[i])
    BY <1>1
  <2> HIDE DEF ss
  <2> QED
    BY <2>1, Tuples DEF When
<1>3. ss = [i \in 1..n |-> ss[i]]
  BY <1>1
<1> HIDE DEF ss, s
<1>4. PICK h : Unfolds(s, n, ss, h)
  BY <1>2, <1>3, FlattenIndices DEF s
<1>5. \A i \in 1..n : \A x : x \in DOMAIN ss[i] <=> i \in I /\ x = 1
  <2> TAKE i \in 1..n
  <2>1. \A a : DOMAIN <<a>> = {1}
    OBVIOUS
  <2> QED
    BY <1>1, <1>2, <2>1, EmptyRange DEF When
<1>6. \A i \in I : i \in 1..n /\ ss[i] = <<rows[i]>> /\ ss[i][1] = rows[i]
  <2> TAKE i \in I
  <2>1. i \in 1..n /\ rows[i] \in T
    BY <1>1
  <2>2. ss[i] = When(rows[i] \in T, rows[i])
    BY <1>2, <2>1
  <2>3. ss[i] = <<rows[i]>>
    BY <2>1, <2>2 DEF When
  <2>4. \A a : <<a>>[1] = a
    OBVIOUS
  <2> QED
    BY <2>1, <2>3, <2>4
<1>7. IndexPairs(n, ss) = {<<i, 1>> : i \in I}
  <2>1. \A p \in IndexPairs(n, ss) : p \in {<<i, 1>> : i \in I}
    BY <1>5 DEF IndexPairs
  <2>2. \A i \in I : <<i, 1>> \in IndexPairs(n, ss)
    BY <1>5, <1>6 DEF IndexPairs
  <2> QED
    BY <2>1, <2>2
<1>8. /\ h \in [DOMAIN s -> {<<i, 1>> : i \in I}]
      /\ \A i, j \in DOMAIN s : h[i] = h[j] => i = j
      /\ \A p \in {<<i, 1>> : i \in I} : \E k \in DOMAIN s : h[k] = p
      /\ \A i \in DOMAIN s : s[i] = ss[h[i][1]][h[i][2]]
  BY <1>4, <1>7, Fun_BijectionProperties DEF Unfolds
<1> DEFINE g == [k \in DOMAIN s |-> h[k][1]]
<1> HIDE DEF I
<1>9. \A k \in DOMAIN s : g[k] \in I /\ h[k] = <<g[k], 1>>
  BY <1>8
<1>10. g \in [DOMAIN s -> I]
  BY <1>9
<1>11. \A j, k \in DOMAIN s : g[j] = g[k] => j = k
  <2> HIDE DEF g
  <2> QED
    BY <1>8, <1>9
<1>12. \A i \in I : \E k \in DOMAIN s : g[k] = i
  <2> TAKE i \in I
  <2>1. PICK k \in DOMAIN s : h[k] = <<i, 1>>
    BY <1>8
  <2>2. <<g[k], 1>> = <<i, 1>>
    BY <1>9, <2>1
  <2> HIDE DEF g
  <2>3. g[k] = i
    BY <2>2
  <2> QED
    BY <2>3
<1>13. \A k \in DOMAIN s : s[k] = rows[g[k]]
  <2> TAKE k \in DOMAIN s
  <2>1. g[k] \in I /\ h[k] = <<g[k], 1>>
    BY <1>9
  <2> HIDE DEF g
  <2>2. h[k][1] = g[k] /\ h[k][2] = 1
    BY <2>1
  <2> QED
    BY <1>6, <1>8, <2>1, <2>2
<1> HIDE DEF g
<1>14. g \in Bijection(DOMAIN s, I)
  BY <1>10, <1>11, <1>12, Fun_IsBij
<1> QED
  BY <1>13, <1>14 DEF Picks, s, ss, I

\* The filters of the parsers.
LEMMA OnlyPicks ==
  ASSUME NEW rows, IsList(rows)
  PROVE  /\ Picks(Only(Usable, rows), rows, {i \in DOMAIN rows : Usable(rows[i])})
         /\ Picks(Only(HasSpec, rows), rows, {i \in DOMAIN rows : HasSpec(rows[i])})
         /\ Picks(Only(Installed, rows), rows, {i \in DOMAIN rows : Installed(rows[i])})
         /\ Picks(Only(Unresolved, rows), rows, {i \in DOMAIN rows : Unresolved(rows[i])})
<1>1. Picks(Only(Usable, rows), rows, {i \in DOMAIN rows : Usable(rows[i])})
  <2> DEFINE T == {x \in Range(rows) : Usable(x)}
  <2>1. Only(Usable, rows) = FlattenSeq([i \in DOMAIN rows |-> When(rows[i] \in T, rows[i])])
    BY DEF Only, Each, When, Range
  <2>2. {i \in DOMAIN rows : rows[i] \in T} = {i \in DOMAIN rows : Usable(rows[i])}
    BY DEF Range
  <2> HIDE DEF T
  <2> QED
    BY <2>1, <2>2, FilterPicks
<1>2. Picks(Only(HasSpec, rows), rows, {i \in DOMAIN rows : HasSpec(rows[i])})
  <2> DEFINE T == {x \in Range(rows) : HasSpec(x)}
  <2>1. Only(HasSpec, rows) = FlattenSeq([i \in DOMAIN rows |-> When(rows[i] \in T, rows[i])])
    BY DEF Only, Each, When, Range
  <2>2. {i \in DOMAIN rows : rows[i] \in T} = {i \in DOMAIN rows : HasSpec(rows[i])}
    BY DEF Range
  <2> HIDE DEF T
  <2> QED
    BY <2>1, <2>2, FilterPicks
<1>3. Picks(Only(Installed, rows), rows, {i \in DOMAIN rows : Installed(rows[i])})
  <2> DEFINE T == {x \in Range(rows) : Installed(x)}
  <2>1. Only(Installed, rows) = FlattenSeq([i \in DOMAIN rows |-> When(rows[i] \in T, rows[i])])
    BY DEF Only, Each, When, Range
  <2>2. {i \in DOMAIN rows : rows[i] \in T} = {i \in DOMAIN rows : Installed(rows[i])}
    BY DEF Range
  <2> HIDE DEF T
  <2> QED
    BY <2>1, <2>2, FilterPicks
<1>4. Picks(Only(Unresolved, rows), rows, {i \in DOMAIN rows : Unresolved(rows[i])})
  <2> DEFINE T == {x \in Range(rows) : Unresolved(x)}
  <2>1. Only(Unresolved, rows) = FlattenSeq([i \in DOMAIN rows |-> When(rows[i] \in T, rows[i])])
    BY DEF Only, Each, When, Range
  <2>2. {i \in DOMAIN rows : rows[i] \in T} = {i \in DOMAIN rows : Unresolved(rows[i])}
    BY DEF Range
  <2> HIDE DEF T
  <2> QED
    BY <2>1, <2>2, FilterPicks
<1> QED
  BY <1>1, <1>2, <1>3, <1>4

-----------------------------------------------------------------------------
(* The statistics.                                                          *)

\* Two rows are of one statistic: of one key and, unless it is the cluster's, one device.
SameStat(k, d, l, e) == k = l /\ (ClusterWide(k) \/ d = e)

\* The rows that are left of distinct ones are distinct.
LEMMA StatRowsDistinct ==
  ASSUME NEW rows, IsList(rows),
         \A i, j \in DOMAIN rows :
            SameStat(rows[i].key, rows[i].devid, rows[j].key, rows[j].devid) => i = j
  PROVE  LET s == Only(HasSpec, ParseStatCurrent(rows))
         IN  /\ IsList(s) /\ \A i \in DOMAIN s : HasSpec(s[i])
             /\ \A i, j \in DOMAIN s : SameStat(s[i].Key, s[i].DevID, s[j].Key, s[j].DevID) => i = j
<1> DEFINE u == Only(Usable, rows)
           I == {i \in DOMAIN rows : Usable(rows[i])}
           p == ParseStatCurrent(rows)
           J == {i \in DOMAIN p : HasSpec(p[i])}
           s == Only(HasSpec, p)
<1>1. PICK g : g \in Bijection(DOMAIN u, I) /\ \A k \in DOMAIN u : u[k] = rows[g[k]]
  BY OnlyPicks DEF Picks
<1>2. DOMAIN p = DOMAIN u /\ \A k \in DOMAIN u : p[k].Key = u[k].key /\ p[k].DevID = u[k].devid
  BY DEF ParseStatCurrent
<1>3. IsList(p)
  BY ParsedStatistics
<1> HIDE DEF u, p
<1>4. PICK h : h \in Bijection(DOMAIN s, J) /\ \A k \in DOMAIN s : s[k] = p[h[k]]
  BY <1>3, OnlyPicks DEF Picks
<1>5. IsList(s)
  BY <1>3, OnlyHasSpec, HoldsList
<1> HIDE DEF s
<1>6. /\ \A k \in DOMAIN u : g[k] \in I
      /\ \A j, k \in DOMAIN u : g[j] = g[k] => j = k
  BY <1>1, Fun_BijectionProperties
<1>7. /\ \A k \in DOMAIN s : h[k] \in J
      /\ \A j, k \in DOMAIN s : h[j] = h[k] => j = k
  BY <1>4, Fun_BijectionProperties
<1>8. \A k \in DOMAIN s : HasSpec(s[k])
  BY <1>4, <1>7
<1>9. \A k \in DOMAIN s : /\ h[k] \in DOMAIN u /\ g[h[k]] \in DOMAIN rows
                          /\ s[k].Key = rows[g[h[k]]].key /\ s[k].DevID = rows[g[h[k]]].devid
  BY <1>1, <1>2, <1>4, <1>6, <1>7
<1>10. \A i, j \in DOMAIN s : SameStat(s[i].Key, s[i].DevID, s[j].Key, s[j].DevID) => i = j
  <2> TAKE i, j \in DOMAIN s
  <2> HAVE SameStat(s[i].Key, s[i].DevID, s[j].Key, s[j].DevID)
  <2>1. g[h[i]] = g[h[j]]
    BY <1>9
  <2>2. h[i] = h[j]
    BY <1>6, <1>9, <2>1
  <2> QED
    BY <1>7, <2>2
<1> QED
  BY <1>5, <1>8, <1>10 DEF s, p

\* What a row's sample tells of the row.
LEMMA StatSampleTells ==
  ASSUME NEW cl, NEW p, NEW lnn, HasSpec(p)
  PROVE  /\ Apart(StatSample(cl, p, lnn))
         /\ \A a \in Range(StatSample(cl, p, lnn)) :
               /\ a.Name = SpecOf(p).metric
               /\ SpecOf(p).scope # "node" => a.Labels = baseLabels(cl)
               /\ SpecOf(p).scope = "node" =>
                     p.DevID \in DOMAIN lnn /\ a.Labels = nodeLabels(cl, lnn[p.DevID])
<1> DEFINE spec == SpecOf(p)
           x == Scaled(spec, baseLabels(cl), p.Value)
           y == Scaled(spec, nodeLabels(cl, lnn[p.DevID]), p.Value)
<1>1. /\ x.Name = spec.metric /\ x.Labels = baseLabels(cl)
      /\ y.Name = spec.metric /\ y.Labels = nodeLabels(cl, lnn[p.DevID])
  BY SampleFields DEF Scaled
<1>2. StatSample(cl, p, lnn) = IF spec.scope # "node" THEN <<x>> ELSE When(p.DevID \in DOMAIN lnn, y)
  BY DEF StatSample
<1> HIDE DEF x, y, spec
<1>3. Range(<<x>>) = {x} /\ Range(<<y>>) = {y} /\ Range(<<>>) = {}
  BY Tuples
<1>4. Apart(<<x>>) /\ \A q : Apart(When(q, y))
  BY SepTuples DEF Sep
<1>5. CASE spec.scope # "node"
  <2>1. StatSample(cl, p, lnn) = <<x>>
    BY <1>2, <1>5
  <2> QED
    BY <1>1, <1>3, <1>4, <1>5, <2>1 DEF spec
<1>6. CASE spec.scope = "node"
  <2>1. StatSample(cl, p, lnn) = When(p.DevID \in DOMAIN lnn, y)
    BY <1>2, <1>6
  <2>2. Apart(StatSample(cl, p, lnn))
    BY <1>4, <2>1
  <2>3. \A a \in Range(StatSample(cl, p, lnn)) : p.DevID \in DOMAIN lnn /\ a = y
    BY <1>3, <2>1 DEF When
  <2> QED
    BY <1>1, <1>6, <2>2, <2>3 DEF spec
<1> QED
  BY <1>5, <1>6

\* A statistic has one sample for the cluster, or one for each of its nodes.
LEMMA StatSamplesSep ==
  ASSUME NEW cl, NEW rows, IsList(rows), NEW nodes, IsList(nodes),
         \A i, j \in DOMAIN rows :
            SameStat(rows[i].key, rows[i].devid, rows[j].key, rows[j].devid) => i = j,
         \A i, j \in DOMAIN nodes : nodes[i].id = nodes[j].id => i = j,
         \A i, j \in DOMAIN nodes : nodes[i].lnn = nodes[j].lnn => i = j
  PROVE  Sep(statSamples(cl, ParseStatCurrent(rows), ParseNodes(nodes)), StatMetrics)
<1> DEFINE s == Only(HasSpec, ParseStatCurrent(rows))
           lnn == lnnByDevID(ParseNodes(nodes))
           ss == [i \in DOMAIN s |-> StatSample(cl, s[i], lnn)]
<1>1. statSamples(cl, ParseStatCurrent(rows), ParseNodes(nodes)) = FlattenSeq(ss)
  BY DEF statSamples, Each, StatSample
<1>2. \A a \in Range(statSamples(cl, ParseStatCurrent(rows), ParseNodes(nodes))) : a.Name \in StatMetrics
  <2>1. IsList(ParseStatCurrent(rows))
    BY ParsedStatistics
  <2> QED
    BY <2>1, StatSamples DEF Fits, SampleFits
<1>3. /\ IsList(s) /\ \A i \in DOMAIN s : HasSpec(s[i])
      /\ \A i, j \in DOMAIN s : SameStat(s[i].Key, s[i].DevID, s[j].Key, s[j].DevID) => i = j
  BY StatRowsDistinct
<1>4. \A d, e \in DOMAIN lnn : lnn[d] = lnn[e] => d = e
  <2>1. /\ DOMAIN lnn = {n.id : n \in Range(nodes)}
        /\ \A n \in Range(nodes) : lnn[n.id] = n.lnn
    BY NodeNumbers
  <2> HIDE DEF lnn
  <2>2. \A m, n \in Range(nodes) : m.lnn = n.lnn => m = n
    BY DEF Range
  <2> QED
    BY <2>1, <2>2
<1>5. ss = [i \in DOMAIN s |-> ss[i]]
  OBVIOUS
<1>6. \A i \in DOMAIN s : ss[i] = StatSample(cl, s[i], lnn)
  OBVIOUS
<1> HIDE DEF s, ss, lnn
<1>7. \A i \in DOMAIN s : Apart(ss[i])
  BY <1>3, <1>6, StatSampleTells
<1>8. ASSUME NEW i \in DOMAIN s, NEW j \in DOMAIN s, NEW a \in Range(ss[i]), NEW b \in Range(ss[j]),
             Series(a) = Series(b)
      PROVE  i = j
  <2>1. a.Name = b.Name /\ a.Labels = b.Labels
    BY <1>8 DEF Series
  <2>2. HasSpec(s[i]) /\ HasSpec(s[j])
    BY <1>3
  <2>3. /\ a.Name = SpecOf(s[i]).metric
        /\ SpecOf(s[i]).scope = "node" =>
              s[i].DevID \in DOMAIN lnn /\ a.Labels = nodeLabels(cl, lnn[s[i].DevID])
    BY <1>6, <2>2, StatSampleTells
  <2>4. /\ b.Name = SpecOf(s[j]).metric
        /\ SpecOf(s[j]).scope = "node" =>
              s[j].DevID \in DOMAIN lnn /\ b.Labels = nodeLabels(cl, lnn[s[j].DevID])
    BY <1>6, <2>2, StatSampleTells
  <2>5. SpecOf(s[i]) = SpecOf(s[j]) /\ s[i].Key = s[j].Key
    <3>1. /\ SpecOf(s[i]) \in Range(StatKeySpecs) /\ SpecOf(s[i]).key = s[i].Key
          /\ SpecOf(s[j]) \in Range(StatKeySpecs) /\ SpecOf(s[j]).key = s[j].Key
      BY <2>2, SpecFound
    <3>2. SpecOf(s[i]).metric = SpecOf(s[j]).metric
      BY <2>1, <2>3, <2>4
    <3>3. SpecOf(s[i]) = SpecOf(s[j])
      BY <3>1, <3>2, SpecFound
    <3> QED
      BY <3>1, <3>3
  <2>6. CASE SpecOf(s[i]).scope = "node"
    <3>1. nodeLabels(cl, lnn[s[i].DevID]) = nodeLabels(cl, lnn[s[j].DevID])
      BY <2>1, <2>3, <2>4, <2>5, <2>6
    <3>2. lnn[s[i].DevID] = lnn[s[j].DevID]
      BY <3>1, NodeLabelsTell
    <3>3. s[i].DevID = s[j].DevID
      BY <1>4, <2>3, <2>4, <2>5, <2>6, <3>2
    <3> QED
      BY <1>3, <2>5, <3>3 DEF SameStat
  <2>7. CASE SpecOf(s[i]).scope # "node"
    <3>1. HasSpec([Key |-> s[i].Key]) /\ SpecOf([Key |-> s[i].Key]) = SpecOf(s[i])
      BY <2>2 DEF HasSpec, SpecOf
    <3>2. ClusterWide(s[i].Key)
      BY <2>7, <3>1 DEF ClusterWide
    <3> QED
      BY <1>3, <2>5, <3>2 DEF SameStat
  <2> QED
    BY <2>6, <2>7
<1>9. Apart(FlattenSeq(ss))
  BY <1>3, <1>5, <1>7, <1>8, EachApart
<1> QED
  BY <1>1, <1>2, <1>9 DEF Sep

-----------------------------------------------------------------------------
(* The samples of a cluster whose rows are of distinct things.              *)

\* What DistinctRows says of the replies of the endpoints.
LEMMA RowsAreDistinct ==
  ASSUME NEW r, DistinctRows(r), \A ep \in RequiredListed : r[ep] # Failed
  PROVE  LET nodes == r["cluster/nodes"]
             quotas == r["quota/quotas"]
             stats == r["statistics/current"]
             policies == r["sync/policies"]
             licenses == r["license/licenses"]
             pools == r["storagepools"]
             clients == r["summary/client"]
             proto == Listed(r, "summary/protocol", ParseProtocolSummary)
             drives == Listed(r, "summary/drive", ParseDriveSummary)
             loads == Listed(r, "summary/workload", ParseWorkloadSummary)
         IN  /\ \A i, j \in DOMAIN nodes : nodes[i].id = nodes[j].id => i = j
             /\ \A i, j \in DOMAIN nodes : nodes[i].lnn = nodes[j].lnn => i = j
             /\ \A n \in Range(ParseNodes(nodes)) :
                   Distinct(LAMBDA t : t.Name, n.Temperatures) /\ Distinct(LAMBDA f : f.Name, n.Fans)
             /\ \A i, j \in DOMAIN quotas : quotas[i].id = quotas[j].id => i = j
             /\ \A i, j \in DOMAIN stats :
                   SameStat(stats[i].key, stats[i].devid, stats[j].key, stats[j].devid) => i = j
             /\ policies # Failed =>
                   \A i, j \in DOMAIN policies : policies[i].name = policies[j].name => i = j
             /\ licenses # Failed =>
                   \A i, j \in DOMAIN licenses : licenses[i].name = licenses[j].name => i = j
             /\ pools # Failed => \A i, j \in DOMAIN pools :
                   pools[i].name = pools[j].name /\ pools[i].type = pools[j].type => i = j
             /\ clients # Failed => \A i, j \in DOMAIN clients :
                   /\ clients[i].node = clients[j].node /\ clients[i].protocol = clients[j].protocol
                   /\ clients[i].class = clients[j].class
                   => i = j
             /\ \A i, j \in DOMAIN proto :
                   /\ proto[i].Node = proto[j].Node /\ proto[i].Protocol = proto[j].Protocol
                   /\ proto[i].Operation = proto[j].Operation
                   => i = j
             /\ \A i, j \in DOMAIN drives :
                   drives[i].Node = drives[j].Node /\ drives[i].Bay = drives[j].Bay => i = j
             /\ \A i, j \in DOMAIN loads :
                   /\ loads[i].Node = loads[j].Node
                   /\ [k \in DOMAIN WorkloadDimensions |-> loads[i].ID[WorkloadDimensions[k]]]
                         = [k \in DOMAIN WorkloadDimensions |-> loads[j].ID[WorkloadDimensions[k]]]
                   => i = j
<1> DEFINE nodes == r["cluster/nodes"]
           quotas == r["quota/quotas"]
           stats == r["statistics/current"]
           policies == r["sync/policies"]
           licenses == r["license/licenses"]
           pools == r["storagepools"]
           clients == r["summary/client"]
           proto == Listed(r, "summary/protocol", ParseProtocolSummary)
           drives == Listed(r, "summary/drive", ParseDriveSummary)
           loads == Listed(r, "summary/workload", ParseWorkloadSummary)
<1>1. nodes # Failed /\ quotas # Failed /\ stats # Failed
  BY DEF RequiredListed
<1>2. \A i, j \in DOMAIN nodes : nodes[i].id = nodes[j].id => i = j
  BY <1>1 DEF DistinctRows, Distinct
<1>3. \A i, j \in DOMAIN nodes : nodes[i].lnn = nodes[j].lnn => i = j
  BY <1>1 DEF DistinctRows, Distinct
<1>4. \A n \in Range(ParseNodes(nodes)) :
         Distinct(LAMBDA t : t.Name, n.Temperatures) /\ Distinct(LAMBDA f : f.Name, n.Fans)
  BY DEF DistinctRows
<1>5. \A i, j \in DOMAIN quotas : quotas[i].id = quotas[j].id => i = j
  BY <1>1 DEF DistinctRows, Distinct
<1>6. \A i, j \in DOMAIN stats :
         SameStat(stats[i].key, stats[i].devid, stats[j].key, stats[j].devid) => i = j
  <2> DEFINE K(s) == IF ClusterWide(s.key) THEN <<s.key>> ELSE <<s.key, s.devid>>
  <2>1. \A i, j \in DOMAIN stats : K(stats[i]) = K(stats[j]) => i = j
    BY <1>1 DEF DistinctRows, Distinct
  <2>2. \A s, t : SameStat(s.key, s.devid, t.key, t.devid) => K(s) = K(t)
    BY DEF SameStat
  <2> HIDE DEF K
  <2> QED
    BY <2>1, <2>2
<1>7. policies # Failed =>
         \A i, j \in DOMAIN policies : policies[i].name = policies[j].name => i = j
  BY DEF DistinctRows, Distinct
<1>8. licenses # Failed =>
         \A i, j \in DOMAIN licenses : licenses[i].name = licenses[j].name => i = j
  BY DEF DistinctRows, Distinct
<1>9. pools # Failed => \A i, j \in DOMAIN pools :
         pools[i].name = pools[j].name /\ pools[i].type = pools[j].type => i = j
  BY DEF DistinctRows, Distinct
<1>10. clients # Failed => \A i, j \in DOMAIN clients :
          /\ clients[i].node = clients[j].node /\ clients[i].protocol = clients[j].protocol
          /\ clients[i].class = clients[j].class
          => i = j
  BY DEF DistinctRows, Distinct
<1>11. \A i, j \in DOMAIN proto :
          /\ proto[i].Node = proto[j].Node /\ proto[i].Protocol = proto[j].Protocol
          /\ proto[i].Operation = proto[j].Operation
          => i = j
  BY DEF DistinctRows, Distinct
<1>12. \A i, j \in DOMAIN drives :
          drives[i].Node = drives[j].Node /\ drives[i].Bay = drives[j].Bay => i = j
  BY DEF DistinctRows, Distinct
<1>13. \A i, j \in DOMAIN loads :
          /\ loads[i].Node = loads[j].Node
          /\ [k \in DOMAIN WorkloadDimensions |-> loads[i].ID[WorkloadDimensions[k]]]
                = [k \in DOMAIN WorkloadDimensions |-> loads[j].ID[WorkloadDimensions[k]]]
          => i = j
  BY DEF DistinctRows, Distinct
<1> HIDE DEF nodes, quotas, stats, policies, licenses, pools, clients, proto, drives, loads
<1> QED
  BY <1>2, <1>3, <1>4, <1>5, <1>6, <1>7, <1>8, <1>9, <1>10, <1>11, <1>12, <1>13
     DEF nodes, quotas, stats, policies, licenses, pools, clients, proto, drives, loads


\* What an answered list becomes, and what its failure.
LEMMA ListedRows ==
  ASSUME NEW r \in Reply
  PROVE  /\ IsList(Listed(r, "sync/policies", ParseSyncPolicies))
         /\ IsList(Listed(r, "license/licenses", ParseLicenses))
         /\ IsList(Listed(r, "storagepools", ParseStoragePools))
         /\ IsList(Listed(r, "summary/protocol", ParseProtocolSummary))
         /\ IsList(Listed(r, "summary/drive", ParseDriveSummary))
         /\ IsList(Listed(r, "summary/client", ParseClientSummary))
         /\ IsList(Listed(r, "summary/workload", ParseWorkloadSummary))
         /\ IsFiniteSet(DOMAIN Listed(r, "eventgroup-occurrences", ParseEventOccurrences))
<1>1. IsList(Listed(r, "sync/policies", ParseSyncPolicies))
  <2>1. r["sync/policies"] # Failed => IsList(r["sync/policies"])
    BY ReplyLists DEF ListEndpoints
  <2>2. Listed(r, "sync/policies", ParseSyncPolicies)
          = IF r["sync/policies"] = Failed THEN <<>> ELSE ParseSyncPolicies(r["sync/policies"])
    BY DEF Listed, Fetched
  <2>3. IsList(<<>>)
    BY Tuples DEF IsList
  <2>4. r["sync/policies"] # Failed => IsList(ParseSyncPolicies(r["sync/policies"]))
    BY <2>1, ParsedRows
  <2> QED
    BY <2>2, <2>3, <2>4
<1>2. IsList(Listed(r, "license/licenses", ParseLicenses))
  <2>1. r["license/licenses"] # Failed => IsList(r["license/licenses"])
    BY ReplyLists DEF ListEndpoints
  <2>2. Listed(r, "license/licenses", ParseLicenses)
          = IF r["license/licenses"] = Failed THEN <<>> ELSE ParseLicenses(r["license/licenses"])
    BY DEF Listed, Fetched
  <2>3. IsList(<<>>)
    BY Tuples DEF IsList
  <2>4. r["license/licenses"] # Failed => IsList(ParseLicenses(r["license/licenses"]))
    BY <2>1, ParsedRows
  <2> QED
    BY <2>2, <2>3, <2>4
<1>3. IsList(Listed(r, "storagepools", ParseStoragePools))
  <2>1. r["storagepools"] # Failed => IsList(r["storagepools"])
    BY ReplyLists DEF ListEndpoints
  <2>2. Listed(r, "storagepools", ParseStoragePools)
          = IF r["storagepools"] = Failed THEN <<>> ELSE ParseStoragePools(r["storagepools"])
    BY DEF Listed, Fetched
  <2>3. IsList(<<>>)
    BY Tuples DEF IsList
  <2>4. r["storagepools"] # Failed => IsList(ParseStoragePools(r["storagepools"]))
    BY <2>1, ParsedRows
  <2> QED
    BY <2>2, <2>3, <2>4
<1>4. IsList(Listed(r, "summary/protocol", ParseProtocolSummary))
  <2>1. r["summary/protocol"] # Failed => IsList(r["summary/protocol"])
    BY ReplyLists DEF ListEndpoints
  <2>2. Listed(r, "summary/protocol", ParseProtocolSummary)
          = IF r["summary/protocol"] = Failed THEN <<>> ELSE ParseProtocolSummary(r["summary/protocol"])
    BY DEF Listed, Fetched
  <2>3. IsList(<<>>)
    BY Tuples DEF IsList
  <2>4. r["summary/protocol"] # Failed => IsList(ParseProtocolSummary(r["summary/protocol"]))
    BY <2>1, ParsedRows
  <2> QED
    BY <2>2, <2>3, <2>4
<1>5. IsList(Listed(r, "summary/drive", ParseDriveSummary))
  <2>1. r["summary/drive"] # Failed => IsList(r["summary/drive"])
    BY ReplyLists DEF ListEndpoints
  <2>2. Listed(r, "summary/drive", ParseDriveSummary)
          = IF r["summary/drive"] = Failed THEN <<>> ELSE ParseDriveSummary(r["summary/drive"])
    BY DEF Listed, Fetched
  <2>3. IsList(<<>>)
    BY Tuples DEF IsList
  <2>4. r["summary/drive"] # Failed => IsList(ParseDriveSummary(r["summary/drive"]))
    BY <2>1, ParsedDrives
  <2> QED
    BY <2>2, <2>3, <2>4
<1>6. IsList(Listed(r, "summary/client", ParseClientSummary))
  <2>1. r["summary/client"] # Failed => IsList(r["summary/client"])
    BY ReplyLists DEF ListEndpoints
  <2>2. Listed(r, "summary/client", ParseClientSummary)
          = IF r["summary/client"] = Failed THEN <<>> ELSE ParseClientSummary(r["summary/client"])
    BY DEF Listed, Fetched
  <2>3. IsList(<<>>)
    BY Tuples DEF IsList
  <2>4. r["summary/client"] # Failed => IsList(ParseClientSummary(r["summary/client"]))
    BY <2>1, ParsedRows
  <2> QED
    BY <2>2, <2>3, <2>4
<1>7. IsList(Listed(r, "summary/workload", ParseWorkloadSummary))
  <2>1. r["summary/workload"] # Failed => IsList(r["summary/workload"])
    BY ReplyLists DEF ListEndpoints
  <2>2. Listed(r, "summary/workload", ParseWorkloadSummary)
          = IF r["summary/workload"] = Failed THEN <<>> ELSE ParseWorkloadSummary(r["summary/workload"])
    BY DEF Listed, Fetched
  <2>3. IsList(<<>>)
    BY Tuples DEF IsList
  <2>4. r["summary/workload"] # Failed => IsList(ParseWorkloadSummary(r["summary/workload"]))
    BY <2>1, ParsedRows
  <2> QED
    BY <2>2, <2>3, <2>4
<1>8. IsFiniteSet(DOMAIN Listed(r, "eventgroup-occurrences", ParseEventOccurrences))
  <2> DEFINE p == r["eventgroup-occurrences"]
  <2>1. Listed(r, "eventgroup-occurrences", ParseEventOccurrences)
          = IF p = Failed THEN <<>> ELSE ParseEventOccurrences(p)
    BY DEF Listed, Fetched
  <2>2. p # Failed => IsList(p)
    BY ReplyLists DEF ListEndpoints
  <2>3. IsFiniteSet(DOMAIN <<>>)
    BY EmptyRange, FS_EmptySet
  <2> HIDE DEF p
  <2>4. p # Failed => IsFiniteSet(DOMAIN ParseEventOccurrences(p))
    BY <2>2, OnlyUnresolved, CountedKeys DEF ParseEventOccurrences
  <2> QED
    BY <2>1, <2>3, <2>4
<1> QED
  BY <1>1, <1>2, <1>3, <1>4, <1>5, <1>6, <1>7, <1>8

\* The lists of the best-effort requests.
LEMMA ListedSep ==
  ASSUME NEW cl, NEW r \in Reply, DistinctRows(r), \A ep \in RequiredListed : r[ep] # Failed
  PROVE  /\ Sep(syncSamples(cl, Listed(r, "sync/policies", ParseSyncPolicies)), FamilyOf["sync/policies"])
         /\ Sep(licenseSamples(cl, Listed(r, "license/licenses", ParseLicenses)), FamilyOf["license/licenses"])
         /\ Sep(storagePoolSamples(cl, Listed(r, "storagepools", ParseStoragePools)), FamilyOf["storagepools"])
         /\ Sep(protoSamples(cl, Listed(r, "summary/protocol", ParseProtocolSummary)),
                FamilyOf["summary/protocol"])
         /\ Sep(driveSamples(cl, Listed(r, "summary/drive", ParseDriveSummary)), FamilyOf["summary/drive"])
         /\ Sep(clientSamples(cl, Listed(r, "summary/client", ParseClientSummary)), FamilyOf["summary/client"])
         /\ Sep(workloadSamples(cl, Listed(r, "summary/workload", ParseWorkloadSummary)),
                FamilyOf["summary/workload"])
         /\ Sep(eventSamples(cl, Listed(r, "eventgroup-occurrences", ParseEventOccurrences)),
                FamilyOf["eventgroup-occurrences"])
<1>1. Sep(syncSamples(cl, Listed(r, "sync/policies", ParseSyncPolicies)), FamilyOf["sync/policies"])
  <2> DEFINE p == r["sync/policies"]
             rows == Listed(r, "sync/policies", ParseSyncPolicies)
  <2>1. rows = IF p = Failed THEN <<>> ELSE ParseSyncPolicies(p)
    BY DEF Listed, Fetched
  <2>2. IsList(rows)
    BY ListedRows
  <2>3. p # Failed => \A i, j \in DOMAIN p :
           p[i].name = p[j].name => i = j
    BY RowsAreDistinct
  <2> HIDE DEF p, rows
  <2>4. p # Failed => DOMAIN rows = DOMAIN p /\ \A i \in DOMAIN p : rows[i].Name = p[i].name
    BY <2>1 DEF ParseSyncPolicies
  <2>5. \A i, j \in DOMAIN rows :
           rows[i].Name = rows[j].Name => i = j
    BY <2>1, <2>3, <2>4, EmptyRange
  <2>6. Sep(syncSamples(cl, rows), FamilyOf["sync/policies"])
    BY <2>2, <2>5, SyncSamplesSep
  <2> QED
    BY <2>6 DEF rows
<1>2. Sep(licenseSamples(cl, Listed(r, "license/licenses", ParseLicenses)), FamilyOf["license/licenses"])
  <2> DEFINE p == r["license/licenses"]
             rows == Listed(r, "license/licenses", ParseLicenses)
  <2>1. rows = IF p = Failed THEN <<>> ELSE ParseLicenses(p)
    BY DEF Listed, Fetched
  <2>2. IsList(rows)
    BY ListedRows
  <2>3. p # Failed => \A i, j \in DOMAIN p :
           p[i].name = p[j].name => i = j
    BY RowsAreDistinct
  <2> HIDE DEF p, rows
  <2>4. p # Failed => DOMAIN rows = DOMAIN p /\ \A i \in DOMAIN p : rows[i].Name = p[i].name
    BY <2>1 DEF ParseLicenses
  <2>5. \A i, j \in DOMAIN rows :
           rows[i].Name = rows[j].Name => i = j
    BY <2>1, <2>3, <2>4, EmptyRange
  <2>6. Sep(licenseSamples(cl, rows), FamilyOf["license/licenses"])
    BY <2>2, <2>5, LicenseSamplesSep
  <2> QED
    BY <2>6 DEF rows
<1>3. Sep(storagePoolSamples(cl, Listed(r, "storagepools", ParseStoragePools)), FamilyOf["storagepools"])
  <2> DEFINE p == r["storagepools"]
             rows == Listed(r, "storagepools", ParseStoragePools)
  <2>1. rows = IF p = Failed THEN <<>> ELSE ParseStoragePools(p)
    BY DEF Listed, Fetched
  <2>2. IsList(rows)
    BY ListedRows
  <2>3. p # Failed => \A i, j \in DOMAIN p :
           p[i].name = p[j].name /\ p[i].type = p[j].type => i = j
    BY RowsAreDistinct
  <2> HIDE DEF p, rows
  <2>4. p # Failed => DOMAIN rows = DOMAIN p /\ \A i \in DOMAIN p : rows[i].Name = p[i].name /\ rows[i].Type = p[i].type
    BY <2>1 DEF ParseStoragePools
  <2>5. \A i, j \in DOMAIN rows :
           rows[i].Name = rows[j].Name /\ rows[i].Type = rows[j].Type => i = j
    BY <2>1, <2>3, <2>4, EmptyRange
  <2>6. Sep(storagePoolSamples(cl, rows), FamilyOf["storagepools"])
    BY <2>2, <2>5, StoragePoolSamplesSep
  <2> QED
    BY <2>6 DEF rows
<1>4. Sep(clientSamples(cl, Listed(r, "summary/client", ParseClientSummary)), FamilyOf["summary/client"])
  <2> DEFINE p == r["summary/client"]
             rows == Listed(r, "summary/client", ParseClientSummary)
  <2>1. rows = IF p = Failed THEN <<>> ELSE ParseClientSummary(p)
    BY DEF Listed, Fetched
  <2>2. IsList(rows)
    BY ListedRows
  <2>3. p # Failed => \A i, j \in DOMAIN p :
           p[i].node = p[j].node /\ p[i].protocol = p[j].protocol /\ p[i].class = p[j].class => i = j
    BY RowsAreDistinct
  <2> HIDE DEF p, rows
  <2>4. p # Failed => DOMAIN rows = DOMAIN p /\ \A i \in DOMAIN p : rows[i].Node = p[i].node /\ rows[i].Protocol = p[i].protocol /\ rows[i].Class = p[i].class
    BY <2>1 DEF ParseClientSummary
  <2>5. \A i, j \in DOMAIN rows :
           rows[i].Node = rows[j].Node /\ rows[i].Protocol = rows[j].Protocol /\ rows[i].Class = rows[j].Class => i = j
    BY <2>1, <2>3, <2>4, EmptyRange
  <2>6. Sep(clientSamples(cl, rows), FamilyOf["summary/client"])
    BY <2>2, <2>5, ClientSamplesSep
  <2> QED
    BY <2>6 DEF rows
<1>5. Sep(protoSamples(cl, Listed(r, "summary/protocol", ParseProtocolSummary)), FamilyOf["summary/protocol"])
  <2> DEFINE rows == Listed(r, "summary/protocol", ParseProtocolSummary)
  <2>1. IsList(rows)
    BY ListedRows
  <2>2. \A i, j \in DOMAIN rows :
           /\ rows[i].Node = rows[j].Node /\ rows[i].Protocol = rows[j].Protocol
           /\ rows[i].Operation = rows[j].Operation
           => i = j
    BY RowsAreDistinct
  <2> HIDE DEF rows
  <2>3. Sep(protoSamples(cl, rows), FamilyOf["summary/protocol"])
    BY <2>1, <2>2, ProtoSamplesSep
  <2> QED
    BY <2>3 DEF rows
<1>6. Sep(driveSamples(cl, Listed(r, "summary/drive", ParseDriveSummary)), FamilyOf["summary/drive"])
  <2> DEFINE rows == Listed(r, "summary/drive", ParseDriveSummary)
  <2>1. IsList(rows)
    BY ListedRows
  <2>2. \A i, j \in DOMAIN rows :
           rows[i].Node = rows[j].Node /\ rows[i].Bay = rows[j].Bay => i = j
    BY RowsAreDistinct
  <2> HIDE DEF rows
  <2>3. Sep(driveSamples(cl, rows), FamilyOf["summary/drive"])
    BY <2>1, <2>2, DriveSamplesSep
  <2> QED
    BY <2>3 DEF rows
<1>7. Sep(workloadSamples(cl, Listed(r, "summary/workload", ParseWorkloadSummary)), FamilyOf["summary/workload"])
  <2> DEFINE rows == Listed(r, "summary/workload", ParseWorkloadSummary)
  <2>1. IsList(rows)
    BY ListedRows
  <2>2. \A i, j \in DOMAIN rows :
           /\ rows[i].Node = rows[j].Node
           /\ [k \in DOMAIN WorkloadDimensions |-> rows[i].ID[WorkloadDimensions[k]]]
                 = [k \in DOMAIN WorkloadDimensions |-> rows[j].ID[WorkloadDimensions[k]]]
           => i = j
    BY RowsAreDistinct
  <2> HIDE DEF rows
  <2>3. Sep(workloadSamples(cl, rows), FamilyOf["summary/workload"])
    BY <2>1, <2>2, WorkloadSamplesSep
  <2> QED
    BY <2>3 DEF rows
<1>8. Sep(eventSamples(cl, Listed(r, "eventgroup-occurrences", ParseEventOccurrences)),
          FamilyOf["eventgroup-occurrences"])
  BY ListedRows, EventSamplesSep
<1> QED
  BY <1>1, <1>2, <1>3, <1>4, <1>5, <1>6, <1>7, <1>8

\* The lists of the required requests.
LEMMA RequiredSep ==
  ASSUME NEW cl, NEW r \in Reply, DistinctRows(r), \A ep \in RequiredListed : r[ep] # Failed
  PROVE  LET nodes == ParseNodes(r["cluster/nodes"])
         IN  /\ Sep(statSamples(cl, ParseStatCurrent(r["statistics/current"]), nodes), StatMetrics)
             /\ Sep(quotaSamples(cl, ParseQuotas(r["quota/quotas"])), QuotaMetrics)
             /\ Sep(nodeHealthSamples(cl, nodes), HealthMetrics)
             /\ Sep(hardwareSamples(cl, nodes), HardwareMetrics)
<1> DEFINE n == r["cluster/nodes"]
           q == r["quota/quotas"]
           s == r["statistics/current"]
           nodes == ParseNodes(n)
           quotas == ParseQuotas(q)
<1>1. IsList(n) /\ IsList(q) /\ IsList(s)
  BY ReplyLists DEF RequiredListed, ListEndpoints
<1>2. IsList(nodes) /\ \A i \in DOMAIN nodes : NodeOK(nodes[i])
  BY ReplyLists DEF RequiredListed
<1>3. /\ \A i, j \in DOMAIN n : n[i].id = n[j].id => i = j
      /\ \A i, j \in DOMAIN n : n[i].lnn = n[j].lnn => i = j
      /\ \A m \in Range(nodes) :
            Distinct(LAMBDA t : t.Name, m.Temperatures) /\ Distinct(LAMBDA f : f.Name, m.Fans)
      /\ \A i, j \in DOMAIN q : q[i].id = q[j].id => i = j
      /\ \A i, j \in DOMAIN s : SameStat(s[i].key, s[i].devid, s[j].key, s[j].devid) => i = j
  BY RowsAreDistinct
<1>4. DOMAIN nodes = DOMAIN n /\ \A i \in DOMAIN n : nodes[i].LNN = n[i].lnn
  BY DEF ParseNodes, ParseNode
<1>5. DOMAIN quotas = DOMAIN q /\ \A i \in DOMAIN q : quotas[i].id = q[i].id
  BY DEF ParseQuotas, ParseQuota
<1>6. IsList(quotas)
  BY <1>1, ParsedRows
<1> HIDE DEF n, q, s
<1>7. Sep(statSamples(cl, ParseStatCurrent(s), nodes), StatMetrics)
  BY <1>1, <1>3, StatSamplesSep
<1> HIDE DEF nodes, quotas
<1>8. Sep(quotaSamples(cl, quotas), QuotaMetrics)
  BY <1>3, <1>5, <1>6, QuotaSamplesSep
<1>9. \A i, j \in DOMAIN nodes : nodes[i].LNN = nodes[j].LNN => i = j
  BY <1>3, <1>4
<1>10. Sep(nodeHealthSamples(cl, nodes), HealthMetrics)
  BY <1>2, <1>9, NodeHealthSamplesSep
<1>11. Sep(hardwareSamples(cl, nodes), HardwareMetrics)
  BY <1>2, <1>3, <1>9, HardwareSamplesSep
<1> QED
  BY <1>7, <1>8, <1>10, <1>11 DEF n, q, s, nodes, quotas


\* The metrics of the best-effort requests E.
FamiliesOf(E) == UNION {FamilyOf[e] : e \in E}
RequiredMetrics == StatMetrics \cup QuotaMetrics \cup NodeMetrics

\* The metrics of a node are of two lists.
LEMMA NodeMetricsSplit ==
    NodeMetrics = HealthMetrics \cup HardwareMetrics /\ HealthMetrics \cap HardwareMetrics = {}
  BY DEF NodeMetrics, HealthMetrics, HardwareMetrics

\* The list of one more best-effort request.
LEMMA OneMoreFamily ==
  ASSUME NEW a, NEW R, R \subseteq RequiredMetrics, NEW E, E \subseteq BestEffortListed,
         Sep(a, R \cup FamiliesOf(E)),
         NEW ep \in BestEffortListed, ep \notin E, NEW s, Sep(s, FamilyOf[ep])
  PROVE  Sep(a \o s, R \cup FamiliesOf(E \cup {ep}))
<1>1. \A e \in E : FamilyOf[e] \cap FamilyOf[ep] = {}
  BY FamiliesDisjoint
<1>2. R \cap FamilyOf[ep] = {}
  BY FamiliesDisjoint DEF RequiredMetrics
<1>3. (R \cup FamiliesOf(E)) \cap FamilyOf[ep] = {}
  BY <1>1, <1>2 DEF FamiliesOf
<1>4. Sep(a \o s, (R \cup FamiliesOf(E)) \cup FamilyOf[ep])
  BY <1>3, ConcatSep
<1>5. (R \cup FamiliesOf(E)) \cup FamilyOf[ep] = R \cup FamiliesOf(E \cup {ep})
  BY DEF FamiliesOf
<1> QED
  BY <1>4, <1>5

\* The list of more of the required requests.
LEMMA MoreRequired ==
  ASSUME NEW a, NEW R, NEW E, E \subseteq BestEffortListed, Sep(a, R \cup FamiliesOf(E)),
         NEW T, T \subseteq RequiredMetrics, T \cap R = {}, NEW s, Sep(s, T)
  PROVE  Sep(a \o s, (R \cup T) \cup FamiliesOf(E))
<1>1. \A e \in E : FamilyOf[e] \cap T = {}
  BY FamiliesDisjoint DEF RequiredMetrics
<1>2. (R \cup FamiliesOf(E)) \cap T = {}
  BY <1>1 DEF FamiliesOf
<1>3. Sep(a \o s, (R \cup FamiliesOf(E)) \cup T)
  BY <1>2, ConcatSep
<1>4. (R \cup FamiliesOf(E)) \cup T = (R \cup T) \cup FamiliesOf(E)
  OBVIOUS
<1> QED
  BY <1>3, <1>4

\* No two samples of a cluster whose rows are of distinct things have one series.
LEMMA ClusterApart ==
  ASSUME NEW c, NEW r \in Reply, DistinctRows(r), \A ep \in RequiredListed : r[ep] # Failed
  PROVE  Apart(CollectCluster(c, r).Samples)
<1> DEFINE cl == ClusterOf(c, r)
           nodes == ParseNodes(r["cluster/nodes"])
           s1 == statSamples(cl, ParseStatCurrent(r["statistics/current"]), nodes)
           s2 == quotaSamples(cl, ParseQuotas(r["quota/quotas"]))
           s3 == countSamples(cl, inventoryCounts(r))
           s4 == protoSamples(cl, Listed(r, "summary/protocol", ParseProtocolSummary))
           s5 == nodeHealthSamples(cl, nodes)
           s6 == hardwareSamples(cl, nodes)
           s7 == snapshotSamples(cl, Fetched(r, "snapshots-summary", ParseSnapshotSummary, 0))
           s8 == syncSamples(cl, Listed(r, "sync/policies", ParseSyncPolicies))
           s9 == eventSamples(cl, Listed(r, "eventgroup-occurrences", ParseEventOccurrences))
           s10 == dedupeSamples(cl, Fetched(r, "dedupe-summary", ParseDedupeSummary, NoDedupe))
           s11 == licenseSamples(cl, Listed(r, "license/licenses", ParseLicenses))
           s12 == storagePoolSamples(cl, Listed(r, "storagepools", ParseStoragePools))
           s13 == driveSamples(cl, Listed(r, "summary/drive", ParseDriveSummary))
           s14 == clientSamples(cl, Listed(r, "summary/client", ParseClientSummary))
           s15 == workloadSamples(cl, Listed(r, "summary/workload", ParseWorkloadSummary))
           samples == s1 \o s2 \o s3 \o s4 \o s5 \o s6 \o s7 \o s8 \o s9 \o s10 \o s11 \o s12 \o s13 \o s14 \o s15
<1>1. CollectCluster(c, r) =
        [Up |-> TRUE, Samples |-> BuildSamples(c, GetInventory(r), GetStatistics(r))]
  BY EndpointsListed DEF CollectCluster
<1>2. BuildSamples(c, GetInventory(r), GetStatistics(r)) = samples
  BY FetchedFields DEF BuildSamples, ClusterOf
<1>3. /\ Sep(s1, StatMetrics) /\ Sep(s2, QuotaMetrics)
      /\ Sep(s5, HealthMetrics) /\ Sep(s6, HardwareMetrics)
  BY RequiredSep
<1>4. /\ Sep(s3, {"powerscale_nfs_exports", "powerscale_smb_shares", "powerscale_snapshots"})
      /\ Sep(s7, FamilyOf["snapshots-summary"]) /\ Sep(s10, FamilyOf["dedupe-summary"])
  BY CountsSep
<1>5. /\ Sep(s4, FamilyOf["summary/protocol"]) /\ Sep(s8, FamilyOf["sync/policies"])
      /\ Sep(s9, FamilyOf["eventgroup-occurrences"]) /\ Sep(s11, FamilyOf["license/licenses"])
      /\ Sep(s12, FamilyOf["storagepools"]) /\ Sep(s13, FamilyOf["summary/drive"])
      /\ Sep(s14, FamilyOf["summary/client"]) /\ Sep(s15, FamilyOf["summary/workload"])
  BY ListedSep
<1>6. CollectCluster(c, r).Samples = samples
  <2> DEFINE bs == BuildSamples(c, GetInventory(r), GetStatistics(r))
  <2>1. bs = samples
    BY <1>2
  <2>2. CollectCluster(c, r) = [Up |-> TRUE, Samples |-> bs]
    BY <1>1
  <2> HIDE DEF bs, samples
  <2> QED
    BY <2>1, <2>2
<1> HIDE DEF cl, nodes, s1, s2, s3, s4, s5, s6, s7, s8, s9, s10, s11, s12, s13, s14, s15
<1> DEFINE E3 == {"nfs/exports", "smb/shares", "snapshot/snapshots"}
           E4 == E3 \cup {"summary/protocol"}
           E7 == E4 \cup {"snapshots-summary"}
           E8 == E7 \cup {"sync/policies"}
           E9 == E8 \cup {"eventgroup-occurrences"}
           E10 == E9 \cup {"dedupe-summary"}
           E11 == E10 \cup {"license/licenses"}
           E12 == E11 \cup {"storagepools"}
           E13 == E12 \cup {"summary/drive"}
           E14 == E13 \cup {"summary/client"}
           E15 == E14 \cup {"summary/workload"}
           Q == StatMetrics \cup QuotaMetrics
           a2 == s1 \o s2
           a3 == a2 \o s3
           a4 == a3 \o s4
           a5 == a4 \o s5
           a6 == a5 \o s6
           a7 == a6 \o s7
           a8 == a7 \o s8
           a9 == a8 \o s9
           a10 == a9 \o s10
           a11 == a10 \o s11
           a12 == a11 \o s12
           a13 == a12 \o s13
           a14 == a13 \o s14
           a15 == a14 \o s15
<1>7. /\ E3 \subseteq BestEffortListed /\ E4 \subseteq BestEffortListed /\ E7 \subseteq BestEffortListed
      /\ E8 \subseteq BestEffortListed /\ E9 \subseteq BestEffortListed /\ E10 \subseteq BestEffortListed
      /\ E11 \subseteq BestEffortListed /\ E12 \subseteq BestEffortListed
      /\ E13 \subseteq BestEffortListed /\ E14 \subseteq BestEffortListed
  BY DEF BestEffortListed
<1>8. /\ "summary/protocol" \in BestEffortListed \ E3 /\ "snapshots-summary" \in BestEffortListed \ E4
      /\ "sync/policies" \in BestEffortListed \ E7 /\ "eventgroup-occurrences" \in BestEffortListed \ E8
      /\ "dedupe-summary" \in BestEffortListed \ E9 /\ "license/licenses" \in BestEffortListed \ E10
      /\ "storagepools" \in BestEffortListed \ E11 /\ "summary/drive" \in BestEffortListed \ E12
      /\ "summary/client" \in BestEffortListed \ E13 /\ "summary/workload" \in BestEffortListed \ E14
  BY DEF BestEffortListed
<1>9. /\ Q \subseteq RequiredMetrics /\ StatMetrics \cap QuotaMetrics = {}
      /\ HealthMetrics \subseteq RequiredMetrics /\ HealthMetrics \cap Q = {}
      /\ HardwareMetrics \subseteq RequiredMetrics /\ HardwareMetrics \cap (Q \cup HealthMetrics) = {}
      /\ (Q \cup HealthMetrics) \cup HardwareMetrics = RequiredMetrics
  BY RequiredDisjoint, NodeMetricsSplit DEF RequiredMetrics
<1>10. Sep(a2, Q)
  BY <1>3, <1>9, ConcatSep
<1>11. Sep(a3, Q \cup FamiliesOf(E3))
  <2> DEFINE M == {"powerscale_nfs_exports", "powerscale_smb_shares", "powerscale_snapshots"}
  <2>1. M = FamiliesOf(E3)
    BY Families DEF FamiliesOf
  <2> HIDE DEF M
  <2>2. Sep(s3, FamiliesOf(E3))
    BY <1>4, <2>1 DEF M
  <2>3. \A e \in E3 : Q \cap FamilyOf[e] = {}
    BY <1>7, <1>9, FamiliesDisjoint DEF RequiredMetrics
  <2> HIDE DEF E3, Q, a2
  <2>4. Q \cap FamiliesOf(E3) = {}
    BY <2>3 DEF FamiliesOf
  <2>5. Sep(a2 \o s3, Q \cup FamiliesOf(E3))
    BY <1>10, <2>2, <2>4, ConcatSep
  <2> QED
    BY <2>5
<1> HIDE DEF a2, a3, a4, a5, a6, a7, a8, a9, a10, a11, a12, a13, a14, a15
<1> HIDE DEF Q, E3, E4, E7, E8, E9, E10, E11, E12, E13, E14, E15
<1>12. Sep(a4, Q \cup FamiliesOf(E4))
  BY <1>5, <1>7, <1>8, <1>9, <1>11, OneMoreFamily DEF a4, E4
<1>13. Sep(a5, (Q \cup HealthMetrics) \cup FamiliesOf(E4))
  BY <1>3, <1>7, <1>9, <1>12, MoreRequired DEF a5
<1>14. Sep(a6, RequiredMetrics \cup FamiliesOf(E4))
  <2>1. Sep(a6, ((Q \cup HealthMetrics) \cup HardwareMetrics) \cup FamiliesOf(E4))
    BY <1>3, <1>7, <1>9, <1>13, MoreRequired DEF a6
  <2> QED
    BY <1>9, <2>1
<1>15. Sep(a7, RequiredMetrics \cup FamiliesOf(E7))
  BY <1>4, <1>7, <1>8, <1>14, OneMoreFamily DEF a7, E7
<1>16. Sep(a8, RequiredMetrics \cup FamiliesOf(E8))
  BY <1>5, <1>7, <1>8, <1>15, OneMoreFamily DEF a8, E8
<1>17. Sep(a9, RequiredMetrics \cup FamiliesOf(E9))
  BY <1>5, <1>7, <1>8, <1>16, OneMoreFamily DEF a9, E9
<1>18. Sep(a10, RequiredMetrics \cup FamiliesOf(E10))
  BY <1>4, <1>7, <1>8, <1>17, OneMoreFamily DEF a10, E10
<1>19. Sep(a11, RequiredMetrics \cup FamiliesOf(E11))
  BY <1>5, <1>7, <1>8, <1>18, OneMoreFamily DEF a11, E11
<1>20. Sep(a12, RequiredMetrics \cup FamiliesOf(E12))
  BY <1>5, <1>7, <1>8, <1>19, OneMoreFamily DEF a12, E12
<1>21. Sep(a13, RequiredMetrics \cup FamiliesOf(E13))
  BY <1>5, <1>7, <1>8, <1>20, OneMoreFamily DEF a13, E13
<1>22. Sep(a14, RequiredMetrics \cup FamiliesOf(E14))
  BY <1>5, <1>7, <1>8, <1>21, OneMoreFamily DEF a14, E14
<1>23. Sep(a15, RequiredMetrics \cup FamiliesOf(E15))
  BY <1>5, <1>7, <1>8, <1>22, OneMoreFamily DEF a15, E15
<1>24. samples = a15
  BY DEF a2, a3, a4, a5, a6, a7, a8, a9, a10, a11, a12, a13, a14, a15
<1> HIDE DEF samples
<1> QED
  BY <1>6, <1>23, <1>24 DEF Sep

-----------------------------------------------------------------------------
(* The values of the samples, and the cluster they name.                    *)

Typed(x, c) == First(x.Labels, c) /\ x.Value[1] \in Int /\ x.Value[2] \in Nat \ {0}
AllTyped(s, c) == IsList(s) /\ \A x \in Range(s) : Typed(x, c)

\* A sample of the cluster c with an integer for its value.
LEMMA TypedSample ==
    \A name, labels, v, d, c : First(labels, c) /\ v \in Int =>
        /\ Typed(Gauge(name, labels, v), c)
        /\ d \in Nat \ {0} => Typed(Sample(name, labels, v, d), c)
<1> TAKE name, labels, v, d, c
<1> HAVE First(labels, c) /\ v \in Int
<1> DEFINE x == Sample(name, labels, v, d)
           y == Gauge(name, labels, v)
<1>1. x.Labels = labels /\ y.Labels = labels /\ x.Value = <<v, d>> /\ y.Value = <<v, 1>>
  BY SampleFields
<1> HIDE DEF x, y
<1>2. x.Value[1] = v /\ x.Value[2] = d /\ y.Value[1] = v /\ y.Value[2] = 1
  BY <1>1
<1> QED
  BY <1>1, <1>2 DEF Typed, x, y

\* Lists of a few samples,
LEMMA TypedTuples ==
    /\ \A c : AllTyped(<<>>, c)
    /\ \A p, a, c : (p => Typed(a, c)) => AllTyped(When(p, a), c)
    /\ \A a, c : Typed(a, c) => AllTyped(<<a>>, c)
    /\ \A a, b, c : Typed(a, c) /\ Typed(b, c) => AllTyped(<<a, b>>, c)
    /\ \A a1, a2, a3, c : Typed(a1, c) /\ Typed(a2, c) /\ Typed(a3, c) => AllTyped(<<a1, a2, a3>>, c)
    /\ \A a1, a2, a3, a4, c : Typed(a1, c) /\ Typed(a2, c) /\ Typed(a3, c) /\ Typed(a4, c) =>
          AllTyped(<<a1, a2, a3, a4>>, c)
<1>1. \A c : AllTyped(<<>>, c)
  BY Tuples DEF AllTyped, IsList
<1>2. \A a, c : Typed(a, c) => AllTyped(<<a>>, c)
  BY Tuples DEF AllTyped, IsList
<1>3. \A p, a, c : (p => Typed(a, c)) => AllTyped(When(p, a), c)
  BY <1>1, <1>2 DEF When
<1>4. \A a, b, c : Typed(a, c) /\ Typed(b, c) => AllTyped(<<a, b>>, c)
  <2> TAKE a, b, c
  <2> HAVE Typed(a, c) /\ Typed(b, c)
  <2> DEFINE s == <<a, b>>
  <2>1. IsList(s) /\ Range(s) = {a, b}
    BY Tuples DEF IsList
  <2> HIDE DEF s
  <2> QED
    BY <2>1 DEF AllTyped, s
<1>5. \A a1, a2, a3, c : Typed(a1, c) /\ Typed(a2, c) /\ Typed(a3, c) => AllTyped(<<a1, a2, a3>>, c)
  <2> TAKE a1, a2, a3, c
  <2> HAVE Typed(a1, c) /\ Typed(a2, c) /\ Typed(a3, c)
  <2> DEFINE s == <<a1, a2, a3>>
  <2>1. IsList(s) /\ Range(s) = {a1, a2, a3}
    BY Tuples DEF IsList
  <2> HIDE DEF s
  <2> QED
    BY <2>1 DEF AllTyped, s
<1>6. \A a1, a2, a3, a4, c : Typed(a1, c) /\ Typed(a2, c) /\ Typed(a3, c) /\ Typed(a4, c) =>
          AllTyped(<<a1, a2, a3, a4>>, c)
  <2> TAKE a1, a2, a3, a4, c
  <2> HAVE Typed(a1, c) /\ Typed(a2, c) /\ Typed(a3, c) /\ Typed(a4, c)
  <2> DEFINE s == <<a1, a2, a3, a4>>
  <2>1. IsList(s) /\ Range(s) = {a1, a2, a3, a4}
    BY Tuples DEF IsList
  <2> HIDE DEF s
  <2> QED
    BY <2>1 DEF AllTyped, s
<1> QED
  BY <1>1, <1>2, <1>3, <1>4, <1>5, <1>6

\* concatenations
LEMMA TypedConcat == \A s, t, c : AllTyped(s, c) /\ AllTyped(t, c) => AllTyped(s \o t, c)
<1> SUFFICES ASSUME NEW s, NEW t, NEW c, AllTyped(s, c), AllTyped(t, c) PROVE AllTyped(s \o t, c)
  OBVIOUS
<1> DEFINE u == s \o t
<1>1. IsList(u) /\ Range(u) = Range(s) \cup Range(t)
  BY ConcatLists DEF AllTyped, IsList
<1> HIDE DEF u
<1> QED
  BY <1>1 DEF AllTyped, u

\* and loops over rows.
LEMMA TypedEach ==
  ASSUME NEW rows, IsList(rows), NEW ss, ss = [i \in DOMAIN rows |-> ss[i]],
         NEW c, \A i \in DOMAIN rows : AllTyped(ss[i], c)
  PROVE  AllTyped(FlattenSeq(ss), c)
<1>1. \A i \in DOMAIN rows : IsList(ss[i])
  BY DEF AllTyped
<1>2. Holds(FlattenSeq(ss), UNION {Range(ss[i]) : i \in DOMAIN rows})
  BY <1>1, EachLists
<1>3. IsList(FlattenSeq(ss)) /\ Range(FlattenSeq(ss)) = UNION {Range(ss[i]) : i \in DOMAIN rows}
  BY <1>2, HoldsList
<1> QED
  BY <1>3 DEF AllTyped

\* A quota.
LEMMA QuotaTyped ==
  ASSUME NEW cl, NEW q, q.usage \in Int, q.app \in Int, q.physical \in Int, q.ratio \in Int,
         q.hard \in Int, q.soft \in Int, q.advisory \in Int
  PROVE  AllTyped(OfQuota(cl, q), cl.name)
<1> DEFINE l == quotaLabels(cl, q)
           G(name, v) == Gauge(name, l, v)
           s1 == <<G("powerscale_quota_usage_bytes", q.usage),
                   G("powerscale_quota_application_usage_bytes", q.app)>>
           s2 == When(q.physical > 0, G("powerscale_quota_physical_usage_bytes", q.physical))
           s3 == When(q.ratio > 0, G("powerscale_quota_reduction_ratio", q.ratio))
           s4 == When(q.hard > 0, G("powerscale_quota_hard_threshold_bytes", q.hard))
           s5 == When(q.soft > 0, G("powerscale_quota_soft_threshold_bytes", q.soft))
           s6 == When(q.advisory > 0, G("powerscale_quota_advisory_threshold_bytes", q.advisory))
<1>1. \A name, v : v \in Int => Typed(G(name, v), cl.name)
  BY TypedSample, ClusterFirst
<1>2. OfQuota(cl, q) = s1 \o s2 \o s3 \o s4 \o s5 \o s6
  BY DEF OfQuota, QuotaThreshold
<1> HIDE DEF G, l
<1>3. /\ AllTyped(s1, cl.name) /\ AllTyped(s2, cl.name) /\ AllTyped(s3, cl.name)
      /\ AllTyped(s4, cl.name) /\ AllTyped(s5, cl.name) /\ AllTyped(s6, cl.name)
  BY <1>1, TypedTuples
<1> HIDE DEF s1, s2, s3, s4, s5, s6
<1>4. AllTyped(s1 \o s2 \o s3, cl.name)
  BY <1>3, TypedConcat
<1>5. AllTyped(s1 \o s2 \o s3 \o s4 \o s5 \o s6, cl.name)
  BY <1>3, <1>4, TypedConcat
<1> QED
  BY <1>2, <1>5

\* A row of summary/protocol.
LEMMA ProtocolTyped ==
  ASSUME NEW cl, NEW p, p.OperationRate \in Int, p.LatencyAvg \in Int,
         \A s \in DOMAIN p.StageAvg : p.StageAvg[s] \in Int
  PROVE  AllTyped(OfProtocol(cl, p), cl.name)
<1> DEFINE l == protocolLabels(cl, p)
           stage(i) == Sample("powerscale_protocol_latency_stage_seconds",
                              l \o << <<"stage", ProtocolStages[i]>> >>,
                              p.StageAvg[ProtocolStages[i]], microsPerSecond)
           stages == [i \in DOMAIN ProtocolStages |->
                        When(ProtocolStages[i] \in DOMAIN p.StageAvg, stage(i))]
           a == Gauge("powerscale_protocol_operations_per_second", l, p.OperationRate)
           b == Sample("powerscale_protocol_latency_seconds", l, p.LatencyAvg, microsPerSecond)
<1>1. OfProtocol(cl, p) = <<a, b>> \o FlattenSeq(stages)
  BY DEF OfProtocol, Each
<1>2. microsPerSecond \in Nat \ {0}
  BY DEF microsPerSecond
<1>3. Typed(a, cl.name) /\ Typed(b, cl.name)
  BY <1>2, TypedSample, ClusterFirst
<1>4. IsList(ProtocolStages)
  <2>1. ProtocolStages = [i \in 1..7 |-> ProtocolStages[i]]
    BY DEF ProtocolStages
  <2> QED
    BY <2>1, FunctionIsList DEF IsList
<1>5. \A i : ProtocolStages[i] \in DOMAIN p.StageAvg => Typed(stage(i), cl.name)
  <2> TAKE i
  <2> HAVE ProtocolStages[i] \in DOMAIN p.StageAvg
  <2>1. p.StageAvg[ProtocolStages[i]] \in Int
    OBVIOUS
  <2>2. First(l \o << <<"stage", ProtocolStages[i]>> >>, cl.name)
    BY ClusterFirst
  <2> QED
    BY <1>2, <2>1, <2>2, TypedSample
<1> HIDE DEF stage
<1>6. \A i \in DOMAIN ProtocolStages : AllTyped(stages[i], cl.name)
  <2> TAKE i \in DOMAIN ProtocolStages
  <2>1. stages[i] = When(ProtocolStages[i] \in DOMAIN p.StageAvg, stage(i))
    OBVIOUS
  <2> QED
    BY <1>5, <2>1, TypedTuples
<1>7. stages = [i \in DOMAIN ProtocolStages |-> stages[i]]
  OBVIOUS
<1> HIDE DEF stages, a, b
<1>8. AllTyped(FlattenSeq(stages), cl.name)
  BY <1>4, <1>6, <1>7, TypedEach
<1>9. AllTyped(<<a, b>>, cl.name)
  BY <1>3, TypedTuples
<1> QED
  BY <1>1, <1>8, <1>9, TypedConcat

\* A node's health.
LEMMA NodeHealthTyped ==
  ASSUME NEW cl, NEW n, IsFiniteSet(DOMAIN n.DrivesByState),
         \A s \in DOMAIN n.DrivesByState : n.DrivesByState[s] \in Int
  PROVE  AllTyped(OfNodeHealth(cl, n), cl.name)
<1> DEFINE states == SetToSeq(DOMAIN n.DrivesByState)
           l == nodeLabels(cl, n.LNN)
           g(i) == Gauge("powerscale_node_drives", driveLabels(cl, n.LNN, states[i]),
                         n.DrivesByState[states[i]])
           drives == [i \in DOMAIN states |-> <<g(i)>>]
           a == Gauge("powerscale_node_readonly", l, b2f(n.Readonly))
           b == Gauge("powerscale_node_smartfail", l, b2f(n.Smartfail))
<1>1. OfNodeHealth(cl, n) = <<a, b>> \o FlattenSeq(drives)
  BY DEF OfNodeHealth, Each
<1>2. \A x : b2f(x) \in Int
  BY DEF b2f
<1>3. Typed(a, cl.name) /\ Typed(b, cl.name)
  BY <1>2, TypedSample, ClusterFirst
<1>4. IsList(states) /\ Range(states) = DOMAIN n.DrivesByState
  BY SetToSeqLists DEF IsList
<1> HIDE DEF states
<1>5. \A i \in DOMAIN states : Typed(g(i), cl.name)
  <2> TAKE i \in DOMAIN states
  <2>1. n.DrivesByState[states[i]] \in Int
    BY <1>4 DEF Range
  <2>2. First(driveLabels(cl, n.LNN, states[i]), cl.name)
    BY ClusterFirst
  <2> QED
    BY <2>1, <2>2, TypedSample
<1>6. \A i \in DOMAIN states : drives[i] = <<g(i)>>
  OBVIOUS
<1>7. drives = [i \in DOMAIN states |-> drives[i]]
  OBVIOUS
<1> HIDE DEF drives, a, b, g
<1>8. \A i \in DOMAIN states : AllTyped(drives[i], cl.name)
  BY <1>5, <1>6, TypedTuples
<1>9. AllTyped(FlattenSeq(drives), cl.name)
  BY <1>4, <1>7, <1>8, TypedEach
<1>10. AllTyped(<<a, b>>, cl.name)
  BY <1>3, TypedTuples
<1> QED
  BY <1>1, <1>9, <1>10, TypedConcat

\* A node's hardware.
LEMMA HardwareTyped ==
  ASSUME NEW cl, NEW n, IsList(n.Temperatures), IsList(n.Fans), n.PowerSupplies \in Int,
         n.PowerSupplyFailures \in Int,
         \A t \in Range(n.Temperatures) : t.Value \in Int, \A f \in Range(n.Fans) : f.Value \in Int
  PROVE  AllTyped(OfHardware(cl, n), cl.name)
<1> DEFINE l == nodeLabels(cl, n.LNN)
           temps == n.Temperatures
           fans == n.Fans
           t == [i \in DOMAIN temps |-> <<Gauge("powerscale_node_temperature_celsius",
                                                sensorLabels(cl, n.LNN, temps[i].Name), temps[i].Value)>>]
           f == [i \in DOMAIN fans |-> <<Gauge("powerscale_node_fan_speed_rpm",
                                               sensorLabels(cl, n.LNN, fans[i].Name), fans[i].Value)>>]
           info == Gauge("powerscale_node_hardware_info", hardwareInfoLabels(cl, n.LNN, n.Hardware), 1)
           supplies == Gauge("powerscale_node_power_supplies", l, n.PowerSupplies)
           failures == Gauge("powerscale_node_power_supply_failures", l, n.PowerSupplyFailures)
           s1 == When(\E x \in DOMAIN n.Hardware : n.Hardware[x] # "", info)
           s2 == When(n.PowerSupplies > 0, supplies)
           s3 == When(n.PowerSupplies > 0, failures)
<1>1. OfHardware(cl, n) = s1 \o s2 \o s3 \o FlattenSeq(t) \o FlattenSeq(f)
  BY DEF OfHardware, Each
<1>2. Typed(info, cl.name) /\ Typed(supplies, cl.name) /\ Typed(failures, cl.name)
  <2>1. First(l, cl.name) /\ First(hardwareInfoLabels(cl, n.LNN, n.Hardware), cl.name)
    BY ClusterFirst
  <2>2. 1 \in Int
    OBVIOUS
  <2> HIDE DEF l
  <2> QED
    BY <2>1, <2>2, TypedSample
<1> HIDE DEF info, supplies, failures
<1>3. AllTyped(s1, cl.name) /\ AllTyped(s2, cl.name) /\ AllTyped(s3, cl.name)
  BY <1>2, TypedTuples
<1>4. ASSUME NEW readings, IsList(readings), \A x \in Range(readings) : x.Value \in Int, NEW name,
             NEW ss, ss = [i \in DOMAIN readings |->
                             <<Gauge(name, sensorLabels(cl, n.LNN, readings[i].Name), readings[i].Value)>>]
      PROVE  AllTyped(FlattenSeq(ss), cl.name)
  <2> DEFINE g(i) == Gauge(name, sensorLabels(cl, n.LNN, readings[i].Name), readings[i].Value)
  <2>1. ss = [i \in DOMAIN readings |-> ss[i]]
    BY <1>4, Zenon
  <2>2. \A i \in DOMAIN readings : ss[i] = <<g(i)>>
    BY <1>4
  <2>3. \A i \in DOMAIN readings : Typed(g(i), cl.name)
    <3> TAKE i \in DOMAIN readings
    <3>1. readings[i].Value \in Int
      BY <1>4 DEF Range
    <3>2. First(sensorLabels(cl, n.LNN, readings[i].Name), cl.name)
      BY ClusterFirst
    <3> QED
      BY <3>1, <3>2, TypedSample
  <2> HIDE DEF g
  <2>4. \A i \in DOMAIN readings : AllTyped(ss[i], cl.name)
    BY <2>2, <2>3, TypedTuples
  <2> QED
    BY <1>4, <2>1, <2>4, TypedEach
<1>5. AllTyped(FlattenSeq(t), cl.name) /\ AllTyped(FlattenSeq(f), cl.name)
  BY <1>4
<1> HIDE DEF s1, s2, s3, t, f
<1>6. AllTyped(s1 \o s2 \o s3, cl.name)
  BY <1>3, TypedConcat
<1>7. AllTyped(s1 \o s2 \o s3 \o FlattenSeq(t) \o FlattenSeq(f), cl.name)
  BY <1>5, <1>6, TypedConcat
<1> QED
  BY <1>1, <1>7

\* The rows of the other lists.
LEMMA RowsTyped ==
  ASSUME NEW cl, NEW x
  PROVE  /\ AllTyped(OfPolicy(cl, x), cl.name)
         /\ x.Expiration \in Int => AllTyped(OfLicense(cl, x), cl.name)
         /\ x.OpsPerSec \in Int /\ x.BusyPercent \in Int => AllTyped(OfDrive(cl, x), cl.name)
         /\ x.OpsPerSec \in Int /\ x.InBps \in Int /\ x.OutBps \in Int =>
               AllTyped(OfClient(cl, x), cl.name)
         /\ x.Ops \in Int /\ x.BytesIn \in Int /\ x.BytesOut \in Int /\ x.CPUMicros \in Int =>
               AllTyped(OfWorkload(cl, x), cl.name)
         /\ (\A f \in PoolFields : x.Usage[f] \in Int) => AllTyped(OfPool(cl, x), cl.name)
<1>1. \A b : b2f(b) \in Int
  BY DEF b2f
<1>2. microsPerSecond \in Nat \ {0}
  BY DEF microsPerSecond
<1>3. AllTyped(OfPolicy(cl, x), cl.name)
  <2> DEFINE a == Gauge("powerscale_synciq_policy_enabled", policyLabels(cl, x.Name), b2f(x.Enabled))
             b == Gauge("powerscale_synciq_last_run_failed", policyLabels(cl, x.Name),
                        b2f(x.LastJobState \in syncFailureStates))
  <2>1. OfPolicy(cl, x) = <<a, b>>
    BY DEF OfPolicy
  <2>2. Typed(a, cl.name) /\ Typed(b, cl.name)
    BY <1>1, TypedSample, ClusterFirst
  <2> HIDE DEF a, b
  <2> QED
    BY <2>1, <2>2, TypedTuples
<1>4. ASSUME x.Expiration \in Int PROVE AllTyped(OfLicense(cl, x), cl.name)
  <2> DEFINE a == Gauge("powerscale_license_expiration_timestamp_seconds", licenseLabels(cl, x.Name),
                        x.Expiration)
             b == Gauge("powerscale_license_active", licenseActiveLabels(cl, x.Name, x.Status),
                        b2f(x.Status \in ActiveStatus))
  <2>1. OfLicense(cl, x) = <<a, b>>
    BY DEF OfLicense
  <2>2. Typed(a, cl.name) /\ Typed(b, cl.name)
    BY <1>1, <1>4, TypedSample, ClusterFirst
  <2> HIDE DEF a, b
  <2> QED
    BY <2>1, <2>2, TypedTuples
<1>5. ASSUME x.OpsPerSec \in Int, x.BusyPercent \in Int PROVE AllTyped(OfDrive(cl, x), cl.name)
  <2> DEFINE a == Gauge("powerscale_drive_operations_per_second", driveStatLabels(cl, x), x.OpsPerSec)
             b == Gauge("powerscale_drive_busy_percent", driveStatLabels(cl, x), x.BusyPercent)
  <2>1. OfDrive(cl, x) = <<a, b>>
    BY DEF OfDrive
  <2>2. Typed(a, cl.name) /\ Typed(b, cl.name)
    BY <1>5, TypedSample, ClusterFirst
  <2> HIDE DEF a, b
  <2> QED
    BY <2>1, <2>2, TypedTuples
<1>6. ASSUME x.OpsPerSec \in Int, x.InBps \in Int, x.OutBps \in Int
      PROVE  AllTyped(OfClient(cl, x), cl.name)
  <2> DEFINE l == clientLabels(cl, x)
             a1 == Gauge("powerscale_client_operations_per_second", l, x.OpsPerSec)
             a2 == Gauge("powerscale_client_in_bytes_per_second", l, x.InBps)
             a3 == Gauge("powerscale_client_out_bytes_per_second", l, x.OutBps)
  <2>1. OfClient(cl, x) = <<a1, a2, a3>>
    BY DEF OfClient
  <2>2. Typed(a1, cl.name) /\ Typed(a2, cl.name) /\ Typed(a3, cl.name)
    BY <1>6, TypedSample, ClusterFirst
  <2> HIDE DEF a1, a2, a3
  <2> QED
    BY <2>1, <2>2, TypedTuples
<1>7. ASSUME x.Ops \in Int, x.BytesIn \in Int, x.BytesOut \in Int, x.CPUMicros \in Int
      PROVE  AllTyped(OfWorkload(cl, x), cl.name)
  <2> DEFINE l == workloadLabels(cl, x)
             a1 == Gauge("powerscale_workload_operations_per_second", l, x.Ops)
             a2 == Gauge("powerscale_workload_in_bytes_per_second", l, x.BytesIn)
             a3 == Gauge("powerscale_workload_out_bytes_per_second", l, x.BytesOut)
             a4 == Sample("powerscale_workload_cpu_seconds_per_second", l, x.CPUMicros, microsPerSecond)
  <2>1. OfWorkload(cl, x) = <<a1, a2, a3, a4>>
    BY DEF OfWorkload
  <2>2. Typed(a1, cl.name) /\ Typed(a2, cl.name) /\ Typed(a3, cl.name) /\ Typed(a4, cl.name)
    BY <1>2, <1>7, TypedSample, ClusterFirst
  <2> HIDE DEF a1, a2, a3, a4
  <2> QED
    BY <2>1, <2>2, TypedTuples
<1>8. ASSUME \A f \in PoolFields : x.Usage[f] \in Int PROVE AllTyped(OfPool(cl, x), cl.name)
  <2> DEFINE P == PoolMetrics
             s == OfPool(cl, x)
  <2>1. DOMAIN P = 1..9 /\ \A i \in 1..9 : x.Usage[P[i][1]] \in Int
    <3>1. DOMAIN P = 1..9
      BY DEF PoolMetrics
    <3>2. \A i \in 1..9 : P[i][1] \in PoolFields
      BY <3>1 DEF PoolFields
    <3> QED
      BY <1>8, <3>1, <3>2
  <2> HIDE DEF P
  <2>2. s = [i \in 1..9 |-> Gauge(P[i][2], storagePoolLabels(cl, x), x.Usage[P[i][1]])]
    BY <2>1 DEF OfPool, P
  <2>3. DOMAIN s = 1..9 /\ s = [i \in 1..9 |-> s[i]]
    BY <2>2
  <2>4. \A i \in 1..9 : s[i] = Gauge(P[i][2], storagePoolLabels(cl, x), x.Usage[P[i][1]])
    BY <2>2
  <2> HIDE DEF s
  <2>5. \A i \in 1..9 : Typed(s[i], cl.name)
    <3>1. First(storagePoolLabels(cl, x), cl.name)
      BY ClusterFirst
    <3>2. \A i \in 1..9 : Typed(Gauge(P[i][2], storagePoolLabels(cl, x), x.Usage[P[i][1]]), cl.name)
      BY <2>1, <3>1, TypedSample
    <3> QED
      BY <2>4, <3>2
  <2>6. IsList(s)
    BY <2>3, FunctionIsList DEF IsList
  <2> QED
    BY <2>3, <2>5, <2>6 DEF AllTyped, Range, s
<1> QED
  BY <1>3, <1>4, <1>5, <1>6, <1>7, <1>8

\* The rows of a request, none when it has failed.
RowsOf(r, ep) == IF r[ep] = Failed THEN {} ELSE Range(r[ep])
Flexible(v) == v \in {Null, Other} \/ v[2] \in Int

\* The numbers of a reply.
LEMMA Numbers ==
  ASSUME NEW r \in Reply
  PROVE  /\ \A n \in RowsOf(r, "cluster/nodes") :
               /\ n.supplies \in Int /\ n.failures \in Int
               /\ \A g \in Range(SensorGroups(n.sensors)) : \A v \in Range(g.values) : Flexible(v.value)
         /\ \A q \in RowsOf(r, "quota/quotas") :
               /\ q.usage \in Int /\ q.app \in Int /\ q.physical \in Int
               /\ q.ratio \in Int \cup {Null} /\ q.hard \in Int \cup {Null}
               /\ q.soft \in Int \cup {Null} /\ q.advisory \in Int \cup {Null}
         /\ \A ep \in {"nfs/exports", "smb/shares", "snapshot/snapshots"} :
               r[ep] # Failed => r[ep].total \in Int \cup {Null}
         /\ r["snapshots-summary"] # Failed =>
               /\ r["snapshots-summary"].active_size \in Int \cup {Null}
               /\ r["snapshots-summary"].size \in Int \cup {Null}
         /\ r["dedupe-summary"] # Failed =>
               /\ r["dedupe-summary"].saved_logical_blocks \in Int \cup {Null}
               /\ r["dedupe-summary"].logical_blocks \in Int \cup {Null}
               /\ r["dedupe-summary"].block_size \in Int \cup {Null}
         /\ \A l \in RowsOf(r, "license/licenses") : l.expiration \in Int \cup {Null, Other}
         /\ \A p \in RowsOf(r, "storagepools") :
               PoolFields \subseteq DOMAIN p.usage /\ \A f \in PoolFields : Flexible(p.usage[f])
         /\ \A s \in RowsOf(r, "statistics/current") : s.value \in Int \cup {Null, Other}
         /\ \A p \in RowsOf(r, "summary/protocol") :
               /\ p.operation_rate \in Int \cup {Null, Other} /\ p.time_avg \in Int \cup {Null, Other}
               /\ \A s \in DOMAIN p.stages : p.stages[s] \in Int \cup {Null, Other}
         /\ \A d \in RowsOf(r, "summary/drive") :
               d.xfers_in \in Int /\ d.xfers_out \in Int /\ d.busy \in Int
         /\ \A c \in RowsOf(r, "summary/client") :
               c.operation_rate \in Int /\ c.in \in Int /\ c.out \in Int
         /\ \A w \in RowsOf(r, "summary/workload") :
               w.ops \in Int /\ w.bytes_in \in Int /\ w.bytes_out \in Int /\ w.cpu \in Int
<1>1. \A n \in RowsOf(r, "cluster/nodes") :
         /\ n.supplies \in Int /\ n.failures \in Int
         /\ \A g \in Range(SensorGroups(n.sensors)) : \A v \in Range(g.values) : Flexible(v.value)
  BY NumberAssumption DEF RowsOf, Flexible
<1>2. \A q \in RowsOf(r, "quota/quotas") :
         /\ q.usage \in Int /\ q.app \in Int /\ q.physical \in Int
         /\ q.ratio \in Int \cup {Null} /\ q.hard \in Int \cup {Null}
         /\ q.soft \in Int \cup {Null} /\ q.advisory \in Int \cup {Null}
  BY NumberAssumption DEF RowsOf
<1>3. \A ep \in {"nfs/exports", "smb/shares", "snapshot/snapshots"} :
         r[ep] # Failed => r[ep].total \in Int \cup {Null}
  BY NumberAssumption
<1>4. r["snapshots-summary"] # Failed =>
         /\ r["snapshots-summary"].active_size \in Int \cup {Null}
         /\ r["snapshots-summary"].size \in Int \cup {Null}
  BY NumberAssumption
<1>5. r["dedupe-summary"] # Failed =>
         /\ r["dedupe-summary"].saved_logical_blocks \in Int \cup {Null}
         /\ r["dedupe-summary"].logical_blocks \in Int \cup {Null}
         /\ r["dedupe-summary"].block_size \in Int \cup {Null}
  BY NumberAssumption
<1>6. \A l \in RowsOf(r, "license/licenses") : l.expiration \in Int \cup {Null, Other}
  BY NumberAssumption DEF RowsOf
<1>7. \A p \in RowsOf(r, "storagepools") :
         PoolFields \subseteq DOMAIN p.usage /\ \A f \in PoolFields : Flexible(p.usage[f])
  BY NumberAssumption DEF RowsOf, Flexible
<1>8. \A s \in RowsOf(r, "statistics/current") : s.value \in Int \cup {Null, Other}
  BY NumberAssumption DEF RowsOf
<1>9. \A p \in RowsOf(r, "summary/protocol") :
         /\ p.operation_rate \in Int \cup {Null, Other} /\ p.time_avg \in Int \cup {Null, Other}
         /\ \A s \in DOMAIN p.stages : p.stages[s] \in Int \cup {Null, Other}
  BY NumberAssumption DEF RowsOf
<1>10. \A d \in RowsOf(r, "summary/drive") :
          d.xfers_in \in Int /\ d.xfers_out \in Int /\ d.busy \in Int
  BY NumberAssumption DEF RowsOf
<1>11. \A c \in RowsOf(r, "summary/client") :
          c.operation_rate \in Int /\ c.in \in Int /\ c.out \in Int
  BY NumberAssumption DEF RowsOf
<1>12. \A w \in RowsOf(r, "summary/workload") :
          w.ops \in Int /\ w.bytes_in \in Int /\ w.bytes_out \in Int /\ w.cpu \in Int
  BY NumberAssumption DEF RowsOf
<1> QED
  BY <1>1, <1>2, <1>3, <1>4, <1>5, <1>6, <1>7, <1>8, <1>9, <1>10, <1>11, <1>12

\* What the parsers make of what may be no number is one.
LEMMA ReadNumbers ==
    /\ \A v \in Int \cup {Null} : Deref(v) \in Int
    /\ \A v \in Int \cup {Null, Other} : NumberOr0(v) \in Int /\ ExpirationUnix(v) \in Int
    /\ \A v \in Int \cup {Null, Other} : v # Other => Deref(v) \in Int
    /\ \A v : Flexible(v) => Flex(v) \in Int
  BY DEF Deref, NumberOr0, ExpirationUnix, Flexible, Flex

\* A count is a number.
LEMMA CountsAreNumbers ==
  ASSUME NEW rows, IsList(rows)
  PROVE  /\ \A s \in DOMAIN CountBy(DriveState, rows) : CountBy(DriveState, rows)[s] \in Int
         /\ \A s \in DOMAIN CountBy(Severity, rows) : CountBy(Severity, rows)[s] \in Int
<1>1. IsFiniteSet(DOMAIN rows)
  BY ListIsFinite DEF IsList
<1>2. \A T \in SUBSET DOMAIN rows : Cardinality(T) \in Int
  <2> TAKE T \in SUBSET DOMAIN rows
  <2>1. IsFiniteSet(T)
    BY <1>1, FS_Subset
  <2> QED
    BY <2>1, FS_CardinalityType
<1>3. \A s \in DOMAIN CountBy(DriveState, rows) : CountBy(DriveState, rows)[s] \in Int
  <2> TAKE s \in DOMAIN CountBy(DriveState, rows)
  <2>1. CountBy(DriveState, rows)[s] = Cardinality({i \in DOMAIN rows : DriveState(rows[i]) = s})
    BY DEF CountBy
  <2>2. {i \in DOMAIN rows : DriveState(rows[i]) = s} \in SUBSET DOMAIN rows
    OBVIOUS
  <2> QED
    BY <1>2, <2>1, <2>2
<1>4. \A s \in DOMAIN CountBy(Severity, rows) : CountBy(Severity, rows)[s] \in Int
  <2> TAKE s \in DOMAIN CountBy(Severity, rows)
  <2>1. CountBy(Severity, rows)[s] = Cardinality({i \in DOMAIN rows : Severity(rows[i]) = s})
    BY DEF CountBy
  <2>2. {i \in DOMAIN rows : Severity(rows[i]) = s} \in SUBSET DOMAIN rows
    OBVIOUS
  <2> QED
    BY <1>2, <2>1, <2>2
<1> QED
  BY <1>3, <1>4

\* The readings of the sensors are numbers.
LEMMA ReadingsAreNumbers ==
  ASSUME NEW s, IsList(SensorGroups(s)), NEW names,
         \A g \in Range(SensorGroups(s)) :
            IsList(g.values) /\ \A v \in Range(g.values) : Flexible(v.value)
  PROVE  \A x \in Range(Readings(s, names)) : x.Value \in Int
<1> DEFINE groups == SensorGroups(s)
           of(g) == IF g.name \in names
                    THEN [j \in DOMAIN g.values |->
                            [Name |-> g.values[j].name, Value |-> Flex(g.values[j].value)]]
                    ELSE <<>>
           ss == [i \in DOMAIN groups |-> of(groups[i])]
<1>1. Readings(s, names) = FlattenSeq(ss)
  BY DEF Readings, Each
<1>2. \A g \in Range(groups) : IsList(of(g)) /\ \A x \in Range(of(g)) : x.Value \in Int
  <2> TAKE g \in Range(groups)
  <2>1. CASE g.name \in names
    <3> DEFINE f == [j \in DOMAIN g.values |->
                       [Name |-> g.values[j].name, Value |-> Flex(g.values[j].value)]]
    <3>1. \A j \in DOMAIN g.values : Flexible(g.values[j].value)
      BY DEF Range
    <3>2. \A j \in DOMAIN g.values : f[j].Value \in Int
      BY <3>1, ReadNumbers
    <3>3. DOMAIN f = DOMAIN g.values /\ f = [j \in DOMAIN g.values |-> f[j]]
      OBVIOUS
    <3>4. of(g) = f
      BY <2>1
    <3> HIDE DEF f, of
    <3>5. IsList(f)
      BY <3>3, MappedIsList
    <3>6. \A x \in Range(f) : x.Value \in Int
      BY <3>2, <3>3 DEF Range
    <3> QED
      BY <3>4, <3>5, <3>6
  <2>2. CASE g.name \notin names
    <3>1. of(g) = <<>>
      BY <2>2
    <3> HIDE DEF of
    <3> QED
      BY <3>1, Tuples DEF IsList
  <2> QED
    BY <2>1, <2>2
<1>3. ss = [i \in DOMAIN groups |-> ss[i]] /\ \A i \in DOMAIN groups : ss[i] = of(groups[i])
  OBVIOUS
<1>4. \A i \in DOMAIN groups : groups[i] \in Range(groups)
  BY DEF Range
<1> HIDE DEF ss, of, groups
<1>5. \A i \in DOMAIN groups : IsList(ss[i]) /\ \A x \in Range(ss[i]) : x.Value \in Int
  BY <1>2, <1>3, <1>4
<1>6. Holds(FlattenSeq(ss), UNION {Range(ss[i]) : i \in DOMAIN groups})
  BY <1>3, <1>5, EachLists DEF groups
<1>7. Range(FlattenSeq(ss)) = UNION {Range(ss[i]) : i \in DOMAIN groups}
  BY <1>6, HoldsList
<1> QED
  BY <1>1, <1>5, <1>7


\* A list of rows with numbers becomes one of samples with numbers.
LEMMA FamiliesTyped ==
  ASSUME NEW cl, NEW rows, IsList(rows)
  PROVE  /\ (\A i \in DOMAIN rows :
              /\ rows[i].usage \in Int /\ rows[i].app \in Int /\ rows[i].physical \in Int /\ rows[i].ratio \in Int
              /\ rows[i].hard \in Int /\ rows[i].soft \in Int /\ rows[i].advisory \in Int)
            => AllTyped(quotaSamples(cl, rows), cl.name)
         /\ (\A i \in DOMAIN rows :
              rows[i].Expiration \in Int)
            => AllTyped(licenseSamples(cl, rows), cl.name)
         /\ (\A i \in DOMAIN rows :
              rows[i].OpsPerSec \in Int /\ rows[i].BusyPercent \in Int)
            => AllTyped(driveSamples(cl, rows), cl.name)
         /\ (\A i \in DOMAIN rows :
              rows[i].OpsPerSec \in Int /\ rows[i].InBps \in Int /\ rows[i].OutBps \in Int)
            => AllTyped(clientSamples(cl, rows), cl.name)
         /\ (\A i \in DOMAIN rows :
              rows[i].Ops \in Int /\ rows[i].BytesIn \in Int /\ rows[i].BytesOut \in Int /\ rows[i].CPUMicros \in Int)
            => AllTyped(workloadSamples(cl, rows), cl.name)
         /\ AllTyped(syncSamples(cl, rows), cl.name)
         /\ (\A i \in DOMAIN rows :
              \A f \in PoolFields : rows[i].Usage[f] \in Int)
            => AllTyped(storagePoolSamples(cl, rows), cl.name)
         /\ (\A i \in DOMAIN rows :
              /\ rows[i].OperationRate \in Int /\ rows[i].LatencyAvg \in Int
              /\ \A s \in DOMAIN rows[i].StageAvg : rows[i].StageAvg[s] \in Int)
            => AllTyped(protoSamples(cl, rows), cl.name)
<1>1. ASSUME \A i \in DOMAIN rows :
              /\ rows[i].usage \in Int /\ rows[i].app \in Int /\ rows[i].physical \in Int /\ rows[i].ratio \in Int
              /\ rows[i].hard \in Int /\ rows[i].soft \in Int /\ rows[i].advisory \in Int
      PROVE  AllTyped(quotaSamples(cl, rows), cl.name)
  <2> DEFINE ss == [i \in DOMAIN rows |-> OfQuota(cl, rows[i])]
  <2>1. quotaSamples(cl, rows) = FlattenSeq(ss)
    BY DEF quotaSamples, Each
  <2>2. ss = [i \in DOMAIN rows |-> ss[i]] /\ \A i \in DOMAIN rows : ss[i] = OfQuota(cl, rows[i])
    OBVIOUS
  <2>3. \A i \in DOMAIN rows : AllTyped(OfQuota(cl, rows[i]), cl.name)
    BY <1>1, QuotaTyped
  <2> HIDE DEF ss
  <2>4. \A i \in DOMAIN rows : AllTyped(ss[i], cl.name)
    BY <2>2, <2>3
  <2> QED
    BY <2>1, <2>2, <2>4, TypedEach
<1>2. ASSUME \A i \in DOMAIN rows :
              rows[i].Expiration \in Int
      PROVE  AllTyped(licenseSamples(cl, rows), cl.name)
  <2> DEFINE ss == [i \in DOMAIN rows |-> OfLicense(cl, rows[i])]
  <2>1. licenseSamples(cl, rows) = FlattenSeq(ss)
    BY DEF licenseSamples, Each
  <2>2. ss = [i \in DOMAIN rows |-> ss[i]] /\ \A i \in DOMAIN rows : ss[i] = OfLicense(cl, rows[i])
    OBVIOUS
  <2>3. \A i \in DOMAIN rows : AllTyped(OfLicense(cl, rows[i]), cl.name)
    BY <1>2, RowsTyped
  <2> HIDE DEF ss
  <2>4. \A i \in DOMAIN rows : AllTyped(ss[i], cl.name)
    BY <2>2, <2>3
  <2> QED
    BY <2>1, <2>2, <2>4, TypedEach
<1>3. ASSUME \A i \in DOMAIN rows :
              rows[i].OpsPerSec \in Int /\ rows[i].BusyPercent \in Int
      PROVE  AllTyped(driveSamples(cl, rows), cl.name)
  <2> DEFINE ss == [i \in DOMAIN rows |-> OfDrive(cl, rows[i])]
  <2>1. driveSamples(cl, rows) = FlattenSeq(ss)
    BY DEF driveSamples, Each
  <2>2. ss = [i \in DOMAIN rows |-> ss[i]] /\ \A i \in DOMAIN rows : ss[i] = OfDrive(cl, rows[i])
    OBVIOUS
  <2>3. \A i \in DOMAIN rows : AllTyped(OfDrive(cl, rows[i]), cl.name)
    BY <1>3, RowsTyped
  <2> HIDE DEF ss
  <2>4. \A i \in DOMAIN rows : AllTyped(ss[i], cl.name)
    BY <2>2, <2>3
  <2> QED
    BY <2>1, <2>2, <2>4, TypedEach
<1>4. ASSUME \A i \in DOMAIN rows :
              rows[i].OpsPerSec \in Int /\ rows[i].InBps \in Int /\ rows[i].OutBps \in Int
      PROVE  AllTyped(clientSamples(cl, rows), cl.name)
  <2> DEFINE ss == [i \in DOMAIN rows |-> OfClient(cl, rows[i])]
  <2>1. clientSamples(cl, rows) = FlattenSeq(ss)
    BY DEF clientSamples, Each
  <2>2. ss = [i \in DOMAIN rows |-> ss[i]] /\ \A i \in DOMAIN rows : ss[i] = OfClient(cl, rows[i])
    OBVIOUS
  <2>3. \A i \in DOMAIN rows : AllTyped(OfClient(cl, rows[i]), cl.name)
    BY <1>4, RowsTyped
  <2> HIDE DEF ss
  <2>4. \A i \in DOMAIN rows : AllTyped(ss[i], cl.name)
    BY <2>2, <2>3
  <2> QED
    BY <2>1, <2>2, <2>4, TypedEach
<1>5. ASSUME \A i \in DOMAIN rows :
              rows[i].Ops \in Int /\ rows[i].BytesIn \in Int /\ rows[i].BytesOut \in Int /\ rows[i].CPUMicros \in Int
      PROVE  AllTyped(workloadSamples(cl, rows), cl.name)
  <2> DEFINE ss == [i \in DOMAIN rows |-> OfWorkload(cl, rows[i])]
  <2>1. workloadSamples(cl, rows) = FlattenSeq(ss)
    BY DEF workloadSamples, Each
  <2>2. ss = [i \in DOMAIN rows |-> ss[i]] /\ \A i \in DOMAIN rows : ss[i] = OfWorkload(cl, rows[i])
    OBVIOUS
  <2>3. \A i \in DOMAIN rows : AllTyped(OfWorkload(cl, rows[i]), cl.name)
    BY <1>5, RowsTyped
  <2> HIDE DEF ss
  <2>4. \A i \in DOMAIN rows : AllTyped(ss[i], cl.name)
    BY <2>2, <2>3
  <2> QED
    BY <2>1, <2>2, <2>4, TypedEach
<1>6. AllTyped(syncSamples(cl, rows), cl.name)
  <2> DEFINE ss == [i \in DOMAIN rows |-> OfPolicy(cl, rows[i])]
  <2>1. syncSamples(cl, rows) = FlattenSeq(ss)
    BY DEF syncSamples, Each
  <2>2. ss = [i \in DOMAIN rows |-> ss[i]] /\ \A i \in DOMAIN rows : ss[i] = OfPolicy(cl, rows[i])
    OBVIOUS
  <2>3. \A i \in DOMAIN rows : AllTyped(OfPolicy(cl, rows[i]), cl.name)
    BY RowsTyped
  <2> HIDE DEF ss
  <2>4. \A i \in DOMAIN rows : AllTyped(ss[i], cl.name)
    BY <2>2, <2>3
  <2> QED
    BY <2>1, <2>2, <2>4, TypedEach
<1>7. ASSUME \A i \in DOMAIN rows :
              \A f \in PoolFields : rows[i].Usage[f] \in Int
      PROVE  AllTyped(storagePoolSamples(cl, rows), cl.name)
  <2> DEFINE ss == [i \in DOMAIN rows |-> OfPool(cl, rows[i])]
  <2>1. storagePoolSamples(cl, rows) = FlattenSeq(ss)
    BY DEF storagePoolSamples, Each
  <2>2. ss = [i \in DOMAIN rows |-> ss[i]] /\ \A i \in DOMAIN rows : ss[i] = OfPool(cl, rows[i])
    OBVIOUS
  <2>3. \A i \in DOMAIN rows : AllTyped(OfPool(cl, rows[i]), cl.name)
    BY <1>7, RowsTyped
  <2> HIDE DEF ss
  <2>4. \A i \in DOMAIN rows : AllTyped(ss[i], cl.name)
    BY <2>2, <2>3
  <2> QED
    BY <2>1, <2>2, <2>4, TypedEach
<1>8. ASSUME \A i \in DOMAIN rows :
              /\ rows[i].OperationRate \in Int /\ rows[i].LatencyAvg \in Int
              /\ \A s \in DOMAIN rows[i].StageAvg : rows[i].StageAvg[s] \in Int
      PROVE  AllTyped(protoSamples(cl, rows), cl.name)
  <2> DEFINE ss == [i \in DOMAIN rows |-> OfProtocol(cl, rows[i])]
  <2>1. protoSamples(cl, rows) = FlattenSeq(ss)
    BY DEF protoSamples, Each
  <2>2. ss = [i \in DOMAIN rows |-> ss[i]] /\ \A i \in DOMAIN rows : ss[i] = OfProtocol(cl, rows[i])
    OBVIOUS
  <2>3. \A i \in DOMAIN rows : AllTyped(OfProtocol(cl, rows[i]), cl.name)
    BY <1>8, ProtocolTyped
  <2> HIDE DEF ss
  <2>4. \A i \in DOMAIN rows : AllTyped(ss[i], cl.name)
    BY <2>2, <2>3
  <2> QED
    BY <2>1, <2>2, <2>4, TypedEach
<1> QED
  BY <1>1, <1>2, <1>3, <1>4, <1>5, <1>6, <1>7, <1>8

\* The statistics.
LEMMA StatisticsTyped ==
  ASSUME NEW cl, NEW current, IsList(current), NEW nodes,
         \A p \in Range(current) : p.Value \in Int
  PROVE  AllTyped(statSamples(cl, current, nodes), cl.name)
<1> DEFINE lnn == lnnByDevID(nodes)
<1>1. /\ Fits(statSamples(cl, current, nodes), StatMetrics)
      /\ Range(statSamples(cl, current, nodes)) =
            UNION {Range(StatSample(cl, p, lnn)) : p \in {x \in Range(current) : HasSpec(x)}}
  BY StatSamples
<1> HIDE DEF lnn
<1>2. ASSUME NEW p \in Range(current), HasSpec(p) PROVE AllTyped(StatSample(cl, p, lnn), cl.name)
  <2> DEFINE spec == SpecOf(p)
             d == IF spec.divisor = 0 THEN 1 ELSE spec.divisor
  <2>1. d \in Nat \ {0}
    <3>1. spec \in Range(StatKeySpecs)
      BY <1>2, SpecFound
    <3>2. \A i \in DOMAIN StatKeySpecs : StatKeySpecs[i].divisor \in Nat
      BY StatKeyAssumption
    <3>3. spec.divisor \in Nat
      <4> HIDE DEF spec
      <4> QED
        BY <3>1, <3>2 DEF Range
    <3> HIDE DEF spec
    <3> QED
      BY <3>3
  <2>2. \A l : Scaled(spec, l, p.Value) = Sample(spec.metric, l, p.Value, d)
    BY DEF Scaled
  <2> HIDE DEF d, spec
  <2>3. \A l : First(l, cl.name) => Typed(Scaled(spec, l, p.Value), cl.name)
    BY <2>1, <2>2, TypedSample
  <2>4. /\ Typed(Scaled(spec, baseLabels(cl), p.Value), cl.name)
        /\ Typed(Scaled(spec, nodeLabels(cl, lnn[p.DevID]), p.Value), cl.name)
    BY <2>3, ClusterFirst
  <2>5. /\ AllTyped(<<Scaled(spec, baseLabels(cl), p.Value)>>, cl.name)
        /\ AllTyped(When(p.DevID \in DOMAIN lnn,
                         Scaled(spec, nodeLabels(cl, lnn[p.DevID]), p.Value)), cl.name)
    BY <2>4, TypedTuples
  <2> QED
    BY <2>5 DEF StatSample, spec
<1> QED
  BY <1>1, <1>2 DEF AllTyped, Fits

\* The lists of a node's parts.
LEMMA NodeListsTyped ==
  ASSUME NEW cl, NEW nodes, IsList(nodes), \A i \in DOMAIN nodes : NodeOK(nodes[i]),
         \A i \in DOMAIN nodes :
            /\ \A s \in DOMAIN nodes[i].DrivesByState : nodes[i].DrivesByState[s] \in Int
            /\ nodes[i].PowerSupplies \in Int /\ nodes[i].PowerSupplyFailures \in Int
            /\ \A t \in Range(nodes[i].Temperatures) : t.Value \in Int
            /\ \A f \in Range(nodes[i].Fans) : f.Value \in Int
  PROVE  /\ AllTyped(nodeHealthSamples(cl, nodes), cl.name)
         /\ AllTyped(hardwareSamples(cl, nodes), cl.name)
<1>1. AllTyped(nodeHealthSamples(cl, nodes), cl.name)
  <2> DEFINE ss == [i \in DOMAIN nodes |-> OfNodeHealth(cl, nodes[i])]
  <2>1. nodeHealthSamples(cl, nodes) = FlattenSeq(ss)
    BY DEF nodeHealthSamples, Each
  <2>2. ss = [i \in DOMAIN nodes |-> ss[i]] /\ \A i \in DOMAIN nodes : ss[i] = OfNodeHealth(cl, nodes[i])
    OBVIOUS
  <2>3. \A i \in DOMAIN nodes : AllTyped(OfNodeHealth(cl, nodes[i]), cl.name)
    BY NodeHealthTyped DEF NodeOK
  <2> HIDE DEF ss
  <2>4. \A i \in DOMAIN nodes : AllTyped(ss[i], cl.name)
    BY <2>2, <2>3
  <2> QED
    BY <2>1, <2>2, <2>4, TypedEach
<1>2. AllTyped(hardwareSamples(cl, nodes), cl.name)
  <2> DEFINE ss == [i \in DOMAIN nodes |-> OfHardware(cl, nodes[i])]
  <2>1. hardwareSamples(cl, nodes) = FlattenSeq(ss)
    BY DEF hardwareSamples, Each
  <2>2. ss = [i \in DOMAIN nodes |-> ss[i]] /\ \A i \in DOMAIN nodes : ss[i] = OfHardware(cl, nodes[i])
    OBVIOUS
  <2>3. \A i \in DOMAIN nodes : AllTyped(OfHardware(cl, nodes[i]), cl.name)
    BY HardwareTyped DEF NodeOK
  <2> HIDE DEF ss
  <2>4. \A i \in DOMAIN nodes : AllTyped(ss[i], cl.name)
    BY <2>2, <2>3
  <2> QED
    BY <2>1, <2>2, <2>4, TypedEach
<1> QED
  BY <1>1, <1>2

\* The counts of the events.
LEMMA EventsTyped ==
  ASSUME NEW cl, NEW events, IsFiniteSet(DOMAIN events), \A s \in DOMAIN events : events[s] \in Int
  PROVE  AllTyped(eventSamples(cl, events), cl.name)
<1> DEFINE severities == SetToSeq(DOMAIN events)
           g(i) == Gauge("powerscale_active_events", severityLabels(cl, severities[i]),
                         events[severities[i]])
           ss == [i \in DOMAIN severities |-> <<g(i)>>]
<1>1. eventSamples(cl, events) = FlattenSeq(ss)
  BY DEF eventSamples, Each
<1>2. IsList(severities) /\ Range(severities) = DOMAIN events
  BY SetToSeqLists DEF IsList
<1> HIDE DEF severities
<1>3. \A i \in DOMAIN severities : Typed(g(i), cl.name)
  <2> TAKE i \in DOMAIN severities
  <2>1. events[severities[i]] \in Int
    BY <1>2 DEF Range
  <2>2. First(severityLabels(cl, severities[i]), cl.name)
    BY ClusterFirst
  <2> QED
    BY <2>1, <2>2, TypedSample
<1>4. ss = [i \in DOMAIN severities |-> ss[i]] /\ \A i \in DOMAIN severities : ss[i] = <<g(i)>>
  OBVIOUS
<1> HIDE DEF ss, g
<1>5. \A i \in DOMAIN severities : AllTyped(ss[i], cl.name)
  BY <1>3, <1>4, TypedTuples
<1> QED
  BY <1>1, <1>2, <1>4, <1>5, TypedEach


\* The lists of the required requests.
LEMMA RequiredTyped ==
  ASSUME NEW cl, NEW r \in Reply, \A ep \in RequiredListed : r[ep] # Failed
  PROVE  LET nodes == ParseNodes(r["cluster/nodes"])
         IN  /\ AllTyped(statSamples(cl, ParseStatCurrent(r["statistics/current"]), nodes), cl.name)
             /\ AllTyped(quotaSamples(cl, ParseQuotas(r["quota/quotas"])), cl.name)
             /\ AllTyped(nodeHealthSamples(cl, nodes), cl.name)
             /\ AllTyped(hardwareSamples(cl, nodes), cl.name)
<1> DEFINE n == r["cluster/nodes"]
           q == r["quota/quotas"]
           s == r["statistics/current"]
           nodes == ParseNodes(n)
           quotas == ParseQuotas(q)
           current == ParseStatCurrent(s)
<1>1. IsList(n) /\ IsList(q) /\ IsList(s)
  BY ReplyLists DEF RequiredListed, ListEndpoints
<1>2. IsList(nodes) /\ \A i \in DOMAIN nodes : NodeOK(nodes[i])
  BY ReplyLists DEF RequiredListed
<1>3. /\ RowsOf(r, "cluster/nodes") = Range(n) /\ RowsOf(r, "quota/quotas") = Range(q)
      /\ RowsOf(r, "statistics/current") = Range(s)
  BY DEF RowsOf, RequiredListed
<1>4. \A m \in Range(n) : /\ IsList(m.drives) /\ IsList(SensorGroups(m.sensors))
                          /\ \A g \in Range(SensorGroups(m.sensors)) : IsList(g.values)
  BY ReplyAssumption DEF RequiredListed
<1>5. \A m \in Range(n) :
         /\ m.supplies \in Int /\ m.failures \in Int
         /\ \A g \in Range(SensorGroups(m.sensors)) : \A v \in Range(g.values) : Flexible(v.value)
  BY <1>3, Numbers
<1>6. \A x \in Range(q) :
         /\ x.usage \in Int /\ x.app \in Int /\ x.physical \in Int
         /\ x.ratio \in Int \cup {Null} /\ x.hard \in Int \cup {Null}
         /\ x.soft \in Int \cup {Null} /\ x.advisory \in Int \cup {Null}
  BY <1>3, Numbers
<1>7. \A x \in Range(s) : x.value \in Int \cup {Null, Other}
  BY <1>3, Numbers
<1>8. DOMAIN nodes = DOMAIN n /\ \A i \in DOMAIN n : nodes[i] = ParseNode(n[i])
  BY DEF ParseNodes
<1>9. DOMAIN quotas = DOMAIN q /\ \A i \in DOMAIN q : quotas[i] = ParseQuota(q[i])
  BY DEF ParseQuotas
<1>10. IsList(quotas) /\ IsList(current)
  BY <1>1, ParsedRows, ParsedStatistics
<1>11. Range(current) = {[Key |-> x.key, DevID |-> x.devid, Value |-> Deref(x.value)] :
                            x \in {y \in Range(s) : Usable(y)}}
  BY <1>1, ParsedStatistics
<1>12. /\ \A i \in DOMAIN n : n[i] \in Range(n)
       /\ \A i \in DOMAIN q : q[i] \in Range(q)
  BY DEF Range
<1> HIDE DEF n, q, s, nodes, quotas, current
<1>13. \A p \in Range(current) : p.Value \in Int
  <2> TAKE p \in Range(current)
  <2>1. PICK x \in Range(s) : Usable(x) /\ p.Value = Deref(x.value)
    BY <1>11
  <2>2. x.value \in Int \cup {Null, Other} /\ x.value # Other
    BY <1>7, <2>1 DEF Usable
  <2> QED
    BY <2>1, <2>2, ReadNumbers
<1>14. \A i \in DOMAIN quotas :
          /\ quotas[i].usage \in Int /\ quotas[i].app \in Int /\ quotas[i].physical \in Int
          /\ quotas[i].ratio \in Int /\ quotas[i].hard \in Int /\ quotas[i].soft \in Int
          /\ quotas[i].advisory \in Int
  <2> TAKE i \in DOMAIN quotas
  <2> DEFINE x == q[i]
  <2>1. x \in Range(q) /\ quotas[i] = ParseQuota(x)
    BY <1>9, <1>12
  <2> HIDE DEF x
  <2>2. /\ Deref(x.ratio) \in Int /\ Deref(x.hard) \in Int /\ Deref(x.soft) \in Int
        /\ Deref(x.advisory) \in Int
    BY <1>6, <2>1, ReadNumbers
  <2>3. x.usage \in Int /\ x.app \in Int /\ x.physical \in Int
    BY <1>6, <2>1
  <2> QED
    BY <2>1, <2>2, <2>3 DEF ParseQuota
<1>15. \A i \in DOMAIN nodes :
          /\ \A d \in DOMAIN nodes[i].DrivesByState : nodes[i].DrivesByState[d] \in Int
          /\ nodes[i].PowerSupplies \in Int /\ nodes[i].PowerSupplyFailures \in Int
          /\ \A t \in Range(nodes[i].Temperatures) : t.Value \in Int
          /\ \A f \in Range(nodes[i].Fans) : f.Value \in Int
  <2> TAKE i \in DOMAIN nodes
  <2> DEFINE m == n[i]
             drives == CountBy(DriveState, Only(Installed, m.drives))
             temps == Readings(m.sensors, TempGroup)
             fans == Readings(m.sensors, FanGroup \ TempGroup)
  <2>1. m \in Range(n) /\ nodes[i] = ParseNode(m)
    BY <1>8, <1>12
  <2>2. ParseNode(m) =
          [ID |-> m.id, LNN |-> m.lnn, Readonly |-> m.readonly, Smartfail |-> m.smartfailed,
           DrivesByState |-> drives, PowerSupplies |-> m.supplies,
           PowerSupplyFailures |-> m.failures, Temperatures |-> temps, Fans |-> fans,
           Hardware |-> m.hardware]
    BY DEF ParseNode
  <2> HIDE DEF m
  <2>3. IsList(Only(Installed, m.drives))
    BY <1>4, <2>1, OnlyInstalled
  <2>4. \A d \in DOMAIN drives : drives[d] \in Int
    BY <2>3, CountsAreNumbers
  <2>5. (\A t \in Range(temps) : t.Value \in Int) /\ \A f \in Range(fans) : f.Value \in Int
    BY <1>4, <1>5, <2>1, ReadingsAreNumbers
  <2>6. m.supplies \in Int /\ m.failures \in Int
    BY <1>5, <2>1
  <2> HIDE DEF drives, temps, fans
  <2>7. /\ nodes[i].DrivesByState = drives /\ nodes[i].PowerSupplies = m.supplies
        /\ nodes[i].PowerSupplyFailures = m.failures /\ nodes[i].Temperatures = temps
        /\ nodes[i].Fans = fans
    BY <2>1, <2>2
  <2> QED
    BY <2>4, <2>5, <2>6, <2>7
<1>16. AllTyped(statSamples(cl, current, nodes), cl.name)
  BY <1>10, <1>13, StatisticsTyped
<1>17. AllTyped(quotaSamples(cl, quotas), cl.name)
  BY <1>10, <1>14, FamiliesTyped
<1>18. AllTyped(nodeHealthSamples(cl, nodes), cl.name) /\ AllTyped(hardwareSamples(cl, nodes), cl.name)
  BY <1>2, <1>15, NodeListsTyped
<1> QED
  BY <1>16, <1>17, <1>18 DEF n, q, s, nodes, quotas, current

\* The totals.
LEMMA TotalsTyped ==
  ASSUME NEW cl, NEW r \in Reply
  PROVE  /\ AllTyped(countSamples(cl, inventoryCounts(r)), cl.name)
         /\ AllTyped(snapshotSamples(cl, Fetched(r, "snapshots-summary", ParseSnapshotSummary, 0)), cl.name)
         /\ AllTyped(dedupeSamples(cl, Fetched(r, "dedupe-summary", ParseDedupeSummary, NoDedupe)), cl.name)
<1> DEFINE n == Fetched(r, "nfs/exports", ParseTotal, 0)
           m == Fetched(r, "smb/shares", ParseTotal, 0)
           k == Fetched(r, "snapshot/snapshots", ParseTotal, 0)
           u == Fetched(r, "snapshots-summary", ParseSnapshotSummary, 0)
           d == Fetched(r, "dedupe-summary", ParseDedupeSummary, NoDedupe)
           counts == inventoryCounts(r)
<1>1. counts = [NFSExports |-> n, SMBShares |-> m, Snapshots |-> k]
  BY DEF inventoryCounts
<1>2. n \in Int /\ m \in Int /\ k \in Int
  <2>1. \A ep \in {"nfs/exports", "smb/shares", "snapshot/snapshots"} :
           r[ep] # Failed => ParseTotal(r[ep]) \in Int
    BY Numbers, ReadNumbers DEF ParseTotal
  <2> QED
    BY <2>1 DEF Fetched
<1>3. u \in Int
  <2> DEFINE p == r["snapshots-summary"]
  <2>1. p # Failed => p.active_size \in Int \cup {Null} /\ p.size \in Int \cup {Null}
    BY Numbers
  <2>2. u = IF p = Failed THEN 0 ELSE ParseSnapshotSummary(p)
    BY DEF Fetched
  <2> HIDE DEF p, u
  <2>3. p # Failed => ParseSnapshotSummary(p) \in Int
    BY <2>1, ReadNumbers DEF ParseSnapshotSummary
  <2> QED
    BY <2>2, <2>3
<1>4. d.LogicalSaved \in Int /\ d.Deduplicated \in Int
  <2> DEFINE p == r["dedupe-summary"]
             x == Deref(p.saved_logical_blocks)
             y == Deref(p.logical_blocks)
             z == Deref(p.block_size)
  <2>1. p # Failed => x \in Int /\ y \in Int /\ z \in Int
    BY Numbers, ReadNumbers
  <2>2. d = IF p = Failed THEN NoDedupe ELSE ParseDedupeSummary(p)
    BY DEF Fetched
  <2>3. ParseDedupeSummary(p) = [LogicalSaved |-> x * z, Deduplicated |-> y * z]
    BY DEF ParseDedupeSummary
  <2> HIDE DEF p, d, x, y, z
  <2>4. p # Failed => x * z \in Int /\ y * z \in Int
    BY <2>1
  <2> QED
    BY <2>2, <2>3, <2>4 DEF NoDedupe
<1> HIDE DEF n, m, k, u, d, counts
<1>5. counts.NFSExports = n /\ counts.SMBShares = m /\ counts.Snapshots = k
  BY <1>1
<1>6. First(baseLabels(cl), cl.name)
  BY ClusterFirst
<1>7. AllTyped(countSamples(cl, counts), cl.name)
  <2> DEFINE a1 == Gauge("powerscale_nfs_exports", baseLabels(cl), n)
             a2 == Gauge("powerscale_smb_shares", baseLabels(cl), m)
             a3 == Gauge("powerscale_snapshots", baseLabels(cl), k)
  <2>1. countSamples(cl, counts) = <<a1, a2, a3>>
    BY <1>5 DEF countSamples
  <2>2. Typed(a1, cl.name) /\ Typed(a2, cl.name) /\ Typed(a3, cl.name)
    BY <1>2, <1>6, TypedSample
  <2> HIDE DEF a1, a2, a3
  <2> QED
    BY <2>1, <2>2, TypedTuples
<1>8. AllTyped(snapshotSamples(cl, u), cl.name)
  <2> DEFINE a == Gauge("powerscale_snapshot_used_bytes", baseLabels(cl), u)
  <2>1. snapshotSamples(cl, u) = <<a>>
    BY DEF snapshotSamples
  <2>2. Typed(a, cl.name)
    BY <1>3, <1>6, TypedSample
  <2> HIDE DEF a
  <2> QED
    BY <2>1, <2>2, TypedTuples
<1>9. AllTyped(dedupeSamples(cl, d), cl.name)
  <2> DEFINE a == Gauge("powerscale_dedupe_logical_saved_bytes", baseLabels(cl), d.LogicalSaved)
             b == Gauge("powerscale_dedupe_deduplicated_bytes", baseLabels(cl), d.Deduplicated)
  <2>1. dedupeSamples(cl, d) = <<a, b>>
    BY DEF dedupeSamples
  <2>2. Typed(a, cl.name) /\ Typed(b, cl.name)
    BY <1>4, <1>6, TypedSample
  <2> HIDE DEF a, b
  <2> QED
    BY <2>1, <2>2, TypedTuples
<1> QED
  BY <1>7, <1>8, <1>9 DEF n, m, k, u, d, counts

\* The lists of the best-effort requests.
LEMMA ListedTyped ==
  ASSUME NEW cl, NEW r \in Reply
  PROVE  /\ AllTyped(syncSamples(cl, Listed(r, "sync/policies", ParseSyncPolicies)), cl.name)
         /\ AllTyped(licenseSamples(cl, Listed(r, "license/licenses", ParseLicenses)), cl.name)
         /\ AllTyped(storagePoolSamples(cl, Listed(r, "storagepools", ParseStoragePools)), cl.name)
         /\ AllTyped(protoSamples(cl, Listed(r, "summary/protocol", ParseProtocolSummary)), cl.name)
         /\ AllTyped(driveSamples(cl, Listed(r, "summary/drive", ParseDriveSummary)), cl.name)
         /\ AllTyped(clientSamples(cl, Listed(r, "summary/client", ParseClientSummary)), cl.name)
         /\ AllTyped(workloadSamples(cl, Listed(r, "summary/workload", ParseWorkloadSummary)), cl.name)
         /\ AllTyped(eventSamples(cl, Listed(r, "eventgroup-occurrences", ParseEventOccurrences)), cl.name)
<1>1. AllTyped(syncSamples(cl, Listed(r, "sync/policies", ParseSyncPolicies)), cl.name)
  <2>1. IsList(Listed(r, "sync/policies", ParseSyncPolicies))
    BY ListedRows
  <2> QED
    BY <2>1, FamiliesTyped
<1>2. AllTyped(licenseSamples(cl, Listed(r, "license/licenses", ParseLicenses)), cl.name)
  <2> DEFINE p == r["license/licenses"]
             rows == Listed(r, "license/licenses", ParseLicenses)
  <2>1. rows = IF p = Failed THEN <<>> ELSE ParseLicenses(p)
    BY DEF Listed, Fetched
  <2>2. IsList(rows)
    BY ListedRows
  <2>3. p # Failed => \A x \in Range(p) :
           x.expiration \in Int \cup {Null, Other}
    BY Numbers DEF RowsOf
  <2> HIDE DEF p, rows
  <2>4. p # Failed => \A i \in DOMAIN p : p[i] \in Range(p)
    BY DEF Range
  <2>5. ASSUME p # Failed
        PROVE  \A i \in DOMAIN ParseLicenses(p) :
                  ParseLicenses(p)[i].Expiration \in Int
    <3> TAKE i \in DOMAIN ParseLicenses(p)
    <3>1. i \in DOMAIN p /\ ParseLicenses(p)[i].Expiration = ExpirationUnix(p[i].expiration)
      BY DEF ParseLicenses
    <3>2. p[i].expiration \in Int \cup {Null, Other}
      BY <2>3, <2>4, <2>5, <3>1
    <3> QED
      BY <3>1, <3>2, ReadNumbers
  <2>6. \A i \in DOMAIN rows :
           rows[i].Expiration \in Int
    BY <2>1, <2>5, EmptyRange
  <2>7. AllTyped(licenseSamples(cl, rows), cl.name)
    BY <2>2, <2>6, FamiliesTyped
  <2> QED
    BY <2>7 DEF rows
<1>3. AllTyped(storagePoolSamples(cl, Listed(r, "storagepools", ParseStoragePools)), cl.name)
  <2> DEFINE p == r["storagepools"]
             rows == Listed(r, "storagepools", ParseStoragePools)
  <2>1. rows = IF p = Failed THEN <<>> ELSE ParseStoragePools(p)
    BY DEF Listed, Fetched
  <2>2. IsList(rows)
    BY ListedRows
  <2>3. p # Failed => \A x \in Range(p) :
           PoolFields \subseteq DOMAIN x.usage /\ \A f \in PoolFields : Flexible(x.usage[f])
    BY Numbers DEF RowsOf
  <2> HIDE DEF p, rows
  <2>4. p # Failed => \A i \in DOMAIN p : p[i] \in Range(p)
    BY DEF Range
  <2>5. ASSUME p # Failed
        PROVE  \A i \in DOMAIN ParseStoragePools(p) :
                  \A f \in PoolFields : ParseStoragePools(p)[i].Usage[f] \in Int
    <3> TAKE i \in DOMAIN ParseStoragePools(p)
    <3> TAKE f \in PoolFields
    <3>1. i \in DOMAIN p /\ ParseStoragePools(p)[i].Usage = [g \in DOMAIN p[i].usage |-> Flex(p[i].usage[g])]
      BY DEF ParseStoragePools
    <3>2. f \in DOMAIN p[i].usage /\ Flexible(p[i].usage[f])
      BY <2>3, <2>4, <2>5, <3>1
    <3>3. ParseStoragePools(p)[i].Usage[f] = Flex(p[i].usage[f])
      BY <3>1, <3>2
    <3> QED
      BY <3>2, <3>3, ReadNumbers
  <2>6. \A i \in DOMAIN rows :
           \A f \in PoolFields : rows[i].Usage[f] \in Int
    BY <2>1, <2>5, EmptyRange
  <2>7. AllTyped(storagePoolSamples(cl, rows), cl.name)
    BY <2>2, <2>6, FamiliesTyped
  <2> QED
    BY <2>7 DEF rows
<1>4. AllTyped(protoSamples(cl, Listed(r, "summary/protocol", ParseProtocolSummary)), cl.name)
  <2> DEFINE p == r["summary/protocol"]
             rows == Listed(r, "summary/protocol", ParseProtocolSummary)
  <2>1. rows = IF p = Failed THEN <<>> ELSE ParseProtocolSummary(p)
    BY DEF Listed, Fetched
  <2>2. IsList(rows)
    BY ListedRows
  <2>3. p # Failed => \A x \in Range(p) :
           /\ x.operation_rate \in Int \cup {Null, Other} /\ x.time_avg \in Int \cup {Null, Other}
           /\ \A s \in DOMAIN x.stages : x.stages[s] \in Int \cup {Null, Other}
    BY Numbers DEF RowsOf
  <2> HIDE DEF p, rows
  <2>4. p # Failed => \A i \in DOMAIN p : p[i] \in Range(p)
    BY DEF Range
  <2>5. ASSUME p # Failed
        PROVE  \A i \in DOMAIN ParseProtocolSummary(p) :
                  /\ ParseProtocolSummary(p)[i].OperationRate \in Int /\ ParseProtocolSummary(p)[i].LatencyAvg \in Int
                  /\ \A s \in DOMAIN ParseProtocolSummary(p)[i].StageAvg : ParseProtocolSummary(p)[i].StageAvg[s] \in Int
    <3> TAKE i \in DOMAIN ParseProtocolSummary(p)
    <3> DEFINE y == ParseProtocolSummary(p)[i]
               x == p[i]
    <3>1. /\ i \in DOMAIN p /\ y.OperationRate = NumberOr0(x.operation_rate)
          /\ y.LatencyAvg = NumberOr0(x.time_avg) /\ y.StageAvg = StageAvg(x.stages)
      BY DEF ParseProtocolSummary
    <3> HIDE DEF y
    <3>2. x \in Range(p)
      BY <2>4, <2>5, <3>1
    <3> HIDE DEF x
    <3>3. \A s \in DOMAIN StageAvg(x.stages) : StageAvg(x.stages)[s] \in Int
      <4> TAKE s \in DOMAIN StageAvg(x.stages)
      <4>1. s \in DOMAIN x.stages /\ x.stages[s] \notin {Null, Other} /\ StageAvg(x.stages)[s] = x.stages[s]
        BY DEF StageAvg
      <4> QED
        BY <2>3, <2>5, <3>2, <4>1
    <3>4. NumberOr0(x.operation_rate) \in Int /\ NumberOr0(x.time_avg) \in Int
      BY <2>3, <2>5, <3>2, ReadNumbers
    <3>5. y.OperationRate \in Int /\ y.LatencyAvg \in Int /\ \A s \in DOMAIN y.StageAvg : y.StageAvg[s] \in Int
      BY <3>1, <3>3, <3>4
    <3> QED
      BY <3>5 DEF y
  <2>6. \A i \in DOMAIN rows :
           /\ rows[i].OperationRate \in Int /\ rows[i].LatencyAvg \in Int
                  /\ \A s \in DOMAIN rows[i].StageAvg : rows[i].StageAvg[s] \in Int
    BY <2>1, <2>5, EmptyRange
  <2>7. AllTyped(protoSamples(cl, rows), cl.name)
    BY <2>2, <2>6, FamiliesTyped
  <2> QED
    BY <2>7 DEF rows
<1>5. AllTyped(driveSamples(cl, Listed(r, "summary/drive", ParseDriveSummary)), cl.name)
  <2> DEFINE p == r["summary/drive"]
             ok == Only(DriveIDOk, p)
             rows == Listed(r, "summary/drive", ParseDriveSummary)
  <2>1. rows = IF p = Failed THEN <<>> ELSE ParseDriveSummary(p)
    BY DEF Listed, Fetched
  <2>2. IsList(rows)
    BY ListedRows
  <2>3. p # Failed => \A x \in Range(p) : x.xfers_in \in Int /\ x.xfers_out \in Int /\ x.busy \in Int
    BY Numbers DEF RowsOf
  <2>4. p # Failed => IsList(p)
    BY ReplyLists DEF ListEndpoints
  <2> HIDE DEF p, rows
  <2>5. p # Failed => \A i \in DOMAIN ok : ok[i] \in Range(p)
    <3> DEFINE T == {x \in Range(p) : DriveIDOk(x)}
    <3>1. ok = FlattenSeq([i \in DOMAIN p |-> When(p[i] \in T, p[i])])
      BY DEF Only, Each, When, Range
    <3> HIDE DEF T, ok
    <3>2. p # Failed => Holds(ok, Range(p) \cap T)
      BY <2>4, <3>1, OnlyHolds
    <3>3. p # Failed => Range(ok) = Range(p) \cap T
      BY <3>2, HoldsList
    <3> QED
      BY <3>3 DEF Range
  <2>6. /\ DOMAIN ParseDriveSummary(p) = DOMAIN ok
        /\ \A i \in DOMAIN ok : /\ ParseDriveSummary(p)[i].OpsPerSec = ok[i].xfers_in + ok[i].xfers_out
                                /\ ParseDriveSummary(p)[i].BusyPercent = ok[i].busy
    BY DEF ParseDriveSummary
  <2> HIDE DEF ok
  <2>7. p # Failed => \A i \in DOMAIN ok :
           ok[i].xfers_in + ok[i].xfers_out \in Int /\ ok[i].busy \in Int
    BY <2>3, <2>5
  <2>8. \A i \in DOMAIN rows : rows[i].OpsPerSec \in Int /\ rows[i].BusyPercent \in Int
    BY <2>1, <2>6, <2>7, EmptyRange
  <2>9. AllTyped(driveSamples(cl, rows), cl.name)
    BY <2>2, <2>8, FamiliesTyped
  <2> QED
    BY <2>9 DEF rows
<1>6. AllTyped(clientSamples(cl, Listed(r, "summary/client", ParseClientSummary)), cl.name)
  <2> DEFINE p == r["summary/client"]
             rows == Listed(r, "summary/client", ParseClientSummary)
  <2>1. rows = IF p = Failed THEN <<>> ELSE ParseClientSummary(p)
    BY DEF Listed, Fetched
  <2>2. IsList(rows)
    BY ListedRows
  <2>3. p # Failed => \A x \in Range(p) :
           x.operation_rate \in Int /\ x.in \in Int /\ x.out \in Int
    BY Numbers DEF RowsOf
  <2> HIDE DEF p, rows
  <2>4. p # Failed => \A i \in DOMAIN p : p[i] \in Range(p)
    BY DEF Range
  <2>5. ASSUME p # Failed
        PROVE  \A i \in DOMAIN ParseClientSummary(p) :
                  ParseClientSummary(p)[i].OpsPerSec \in Int /\ ParseClientSummary(p)[i].InBps \in Int /\ ParseClientSummary(p)[i].OutBps \in Int
    BY <2>3, <2>4, <2>5 DEF ParseClientSummary
  <2>6. \A i \in DOMAIN rows :
           rows[i].OpsPerSec \in Int /\ rows[i].InBps \in Int /\ rows[i].OutBps \in Int
    BY <2>1, <2>5, EmptyRange
  <2>7. AllTyped(clientSamples(cl, rows), cl.name)
    BY <2>2, <2>6, FamiliesTyped
  <2> QED
    BY <2>7 DEF rows
<1>7. AllTyped(workloadSamples(cl, Listed(r, "summary/workload", ParseWorkloadSummary)), cl.name)
  <2> DEFINE p == r["summary/workload"]
             rows == Listed(r, "summary/workload", ParseWorkloadSummary)
  <2>1. rows = IF p = Failed THEN <<>> ELSE ParseWorkloadSummary(p)
    BY DEF Listed, Fetched
  <2>2. IsList(rows)
    BY ListedRows
  <2>3. p # Failed => \A x \in Range(p) :
           x.ops \in Int /\ x.bytes_in \in Int /\ x.bytes_out \in Int /\ x.cpu \in Int
    BY Numbers DEF RowsOf
  <2> HIDE DEF p, rows
  <2>4. p # Failed => \A i \in DOMAIN p : p[i] \in Range(p)
    BY DEF Range
  <2>5. ASSUME p # Failed
        PROVE  \A i \in DOMAIN ParseWorkloadSummary(p) :
                  /\ ParseWorkloadSummary(p)[i].Ops \in Int /\ ParseWorkloadSummary(p)[i].BytesIn \in Int
                  /\ ParseWorkloadSummary(p)[i].BytesOut \in Int /\ ParseWorkloadSummary(p)[i].CPUMicros \in Int
    BY <2>3, <2>4, <2>5 DEF ParseWorkloadSummary
  <2>6. \A i \in DOMAIN rows :
           /\ rows[i].Ops \in Int /\ rows[i].BytesIn \in Int
                  /\ rows[i].BytesOut \in Int /\ rows[i].CPUMicros \in Int
    BY <2>1, <2>5, EmptyRange
  <2>7. AllTyped(workloadSamples(cl, rows), cl.name)
    BY <2>2, <2>6, FamiliesTyped
  <2> QED
    BY <2>7 DEF rows
<1>8. AllTyped(eventSamples(cl, Listed(r, "eventgroup-occurrences", ParseEventOccurrences)), cl.name)
  <2> DEFINE p == r["eventgroup-occurrences"]
             events == Listed(r, "eventgroup-occurrences", ParseEventOccurrences)
  <2>1. events = IF p = Failed THEN <<>> ELSE ParseEventOccurrences(p)
    BY DEF Listed, Fetched
  <2>2. IsFiniteSet(DOMAIN events)
    BY ListedRows
  <2>3. p # Failed => IsList(p)
    BY ReplyLists DEF ListEndpoints
  <2> HIDE DEF p, events
  <2>4. p # Failed => \A s \in DOMAIN ParseEventOccurrences(p) : ParseEventOccurrences(p)[s] \in Int
    BY <2>3, OnlyUnresolved, CountsAreNumbers DEF ParseEventOccurrences
  <2>5. \A s \in DOMAIN events : events[s] \in Int
    BY <2>1, <2>4, EmptyRange
  <2>6. AllTyped(eventSamples(cl, events), cl.name)
    BY <2>2, <2>5, EventsTyped
  <2> QED
    BY <2>6 DEF events
<1> QED
  BY <1>1, <1>2, <1>3, <1>4, <1>5, <1>6, <1>7, <1>8


\* Every sample of an answered cluster names it and has a number for its value.
LEMMA ClusterTyped ==
  ASSUME NEW c, NEW r \in Reply, \A ep \in RequiredListed : r[ep] # Failed
  PROVE  AllTyped(CollectCluster(c, r).Samples, c)
<1> DEFINE cl == ClusterOf(c, r)
           nodes == ParseNodes(r["cluster/nodes"])
           s1 == statSamples(cl, ParseStatCurrent(r["statistics/current"]), nodes)
           s2 == quotaSamples(cl, ParseQuotas(r["quota/quotas"]))
           s3 == countSamples(cl, inventoryCounts(r))
           s4 == protoSamples(cl, Listed(r, "summary/protocol", ParseProtocolSummary))
           s5 == nodeHealthSamples(cl, nodes)
           s6 == hardwareSamples(cl, nodes)
           s7 == snapshotSamples(cl, Fetched(r, "snapshots-summary", ParseSnapshotSummary, 0))
           s8 == syncSamples(cl, Listed(r, "sync/policies", ParseSyncPolicies))
           s9 == eventSamples(cl, Listed(r, "eventgroup-occurrences", ParseEventOccurrences))
           s10 == dedupeSamples(cl, Fetched(r, "dedupe-summary", ParseDedupeSummary, NoDedupe))
           s11 == licenseSamples(cl, Listed(r, "license/licenses", ParseLicenses))
           s12 == storagePoolSamples(cl, Listed(r, "storagepools", ParseStoragePools))
           s13 == driveSamples(cl, Listed(r, "summary/drive", ParseDriveSummary))
           s14 == clientSamples(cl, Listed(r, "summary/client", ParseClientSummary))
           s15 == workloadSamples(cl, Listed(r, "summary/workload", ParseWorkloadSummary))
           samples == s1 \o s2 \o s3 \o s4 \o s5 \o s6 \o s7 \o s8 \o s9 \o s10 \o s11 \o s12 \o s13 \o s14 \o s15
<1>1. CollectCluster(c, r) =
        [Up |-> TRUE, Samples |-> BuildSamples(c, GetInventory(r), GetStatistics(r))]
  BY EndpointsListed DEF CollectCluster
<1>2. BuildSamples(c, GetInventory(r), GetStatistics(r)) = samples
  BY FetchedFields DEF BuildSamples, ClusterOf
<1>3. CollectCluster(c, r).Samples = samples
  <2> DEFINE bs == BuildSamples(c, GetInventory(r), GetStatistics(r))
  <2>1. bs = samples
    BY <1>2
  <2>2. CollectCluster(c, r) = [Up |-> TRUE, Samples |-> bs]
    BY <1>1
  <2> HIDE DEF bs, samples
  <2> QED
    BY <2>1, <2>2
<1>4. cl.name = c
  BY DEF ClusterOf
<1>5. AllTyped(s1, cl.name) /\ AllTyped(s2, cl.name) /\ AllTyped(s5, cl.name) /\ AllTyped(s6, cl.name)
  BY RequiredTyped
<1>6. AllTyped(s3, cl.name) /\ AllTyped(s7, cl.name) /\ AllTyped(s10, cl.name)
  BY TotalsTyped
<1>7. /\ AllTyped(s4, cl.name) /\ AllTyped(s8, cl.name) /\ AllTyped(s9, cl.name)
      /\ AllTyped(s11, cl.name) /\ AllTyped(s12, cl.name) /\ AllTyped(s13, cl.name)
      /\ AllTyped(s14, cl.name) /\ AllTyped(s15, cl.name)
  BY ListedTyped
<1> HIDE DEF cl, nodes, s1, s2, s3, s4, s5, s6, s7, s8, s9, s10, s11, s12, s13, s14, s15
<1> DEFINE a == s1 \o s2 \o s3 \o s4 \o s5
           b == a \o s6 \o s7 \o s8 \o s9 \o s10
<1>8. AllTyped(a, c)
  <2>1. AllTyped(s1 \o s2 \o s3, c)
    BY <1>4, <1>5, <1>6, TypedConcat
  <2> QED
    BY <1>4, <1>5, <1>7, <2>1, TypedConcat
<1>9. AllTyped(b, c)
  <2> HIDE DEF a
  <2>1. AllTyped(a \o s6 \o s7 \o s8, c)
    BY <1>4, <1>5, <1>6, <1>7, <1>8, TypedConcat
  <2> QED
    BY <1>4, <1>6, <1>7, <2>1, TypedConcat
<1>10. AllTyped(b \o s11 \o s12 \o s13 \o s14 \o s15, c)
  <2> HIDE DEF a, b
  <2>1. AllTyped(b \o s11 \o s12 \o s13, c)
    BY <1>4, <1>7, <1>9, TypedConcat
  <2> QED
    BY <1>4, <1>7, <2>1, TypedConcat
<1>11. samples = b \o s11 \o s12 \o s13 \o s14 \o s15
  OBVIOUS
<1> HIDE DEF samples, a, b
<1> QED
  BY <1>3, <1>10, <1>11

-----------------------------------------------------------------------------
(* The theorems.                                                            *)

\* What a collected cluster's list is, up or down.
LEMMA CollectedList ==
  ASSUME ResultsFollow, NEW c \in Collected
  PROVE  /\ c \in Cluster /\ result[c].Up \in BOOLEAN
         /\ AllTyped(Samples(c), c)
         /\ (result[c].Up => DistinctRows(reply[c])) => Apart(Samples(c))
         /\ \A s \in Range(Samples(c)) : s.Name \in Metrics
<1> DEFINE r == reply[c]
<1>1. c \in Cluster /\ r \in Reply /\ result[c] = CollectCluster(c, r)
  BY DEF Collected, ResultsFollow
<1>2. CASE \E ep \in RequiredListed : r[ep] = Failed
  <2>1. result[c] = [Up |-> FALSE, Samples |-> <<>>]
    BY <1>1, <1>2, EndpointsListed DEF CollectCluster
  <2>2. result[c].Up = FALSE /\ Samples(c) = <<>>
    BY <2>1 DEF Samples
  <2>3. AllTyped(<<>>, c)
    BY TypedTuples
  <2>4. Apart(<<>>)
    BY SepTuples DEF Sep
  <2> QED
    BY <1>1, <2>2, <2>3, <2>4, EmptyRange
<1>3. CASE \A ep \in RequiredListed : r[ep] # Failed
  <2> DEFINE cl == ClusterOf(c, r)
  <2>1. CollectCluster(c, r).Up
    BY <1>1, <1>3, SamplesByRequest
  <2>2. result[c].Up
    BY <1>1, <2>1
  <2>3. result[c].Up \in BOOLEAN
    <3>1. CollectCluster(c, r) =
            [Up |-> TRUE, Samples |-> BuildSamples(c, GetInventory(r), GetStatistics(r))]
      BY <1>3, EndpointsListed DEF CollectCluster
    <3>2. result[c].Up = TRUE
      BY <1>1, <3>1
    <3> QED
      BY <3>2
  <2>4. Samples(c) = CollectCluster(c, r).Samples
    BY <1>1 DEF Samples
  <2>5. AllTyped(Samples(c), c)
    BY <1>1, <1>3, <2>4, ClusterTyped
  <2>6. DistinctRows(r) => Apart(Samples(c))
    BY <1>1, <1>3, <2>4, ClusterApart
  <2>7. Range(Samples(c)) = RequiredSamples(cl, r) \cup UNION {Part(cl, r, ep) : ep \in BestEffortListed}
    BY <2>2, DownOrUp
  <2> HIDE DEF cl
  <2>8. \A s \in RequiredSamples(cl, r) : s.Name \in StatMetrics \cup QuotaMetrics \cup NodeMetrics
    <3>1. \A s \in RequiredSamples(cl, r) :
             SampleFits(s, StatMetrics \cup QuotaMetrics \cup NodeMetrics)
      BY <1>1, <1>3, RequiredSamplesFit
    <3> QED
      BY <3>1 DEF SampleFits
  <2>9. \A ep \in BestEffortListed : \A s \in Part(cl, r, ep) : s.Name \in FamilyOf[ep]
    <3>1. \A ep \in BestEffortListed : \A s \in Part(cl, r, ep) : SampleFits(s, FamilyOf[ep])
      BY <1>1, PartFits
    <3> QED
      BY <3>1 DEF SampleFits
  <2>10. \A s \in Range(Samples(c)) : s.Name \in Metrics
    BY <2>7, <2>8, <2>9, EndpointsListed DEF Metrics
  <2> QED
    BY <1>1, <2>2, <2>3, <2>5, <2>6, <2>10
<1> QED
  BY <1>2, <1>3

\* What the state is of.
StateTyped ==
    /\ reply \in [Cluster -> Reply \cup {Pending}]
    /\ \A c \in Cluster : (result[c] = Pending) <=> (reply[c] = Pending)

\* A reply and a result come and go together.
LEMMA StateTypedNext == ResultsFollow /\ StateTyped /\ [Next]_vars => StateTyped'
<1> SUFFICES ASSUME ResultsFollow, StateTyped, [Next]_vars PROVE StateTyped'
  OBVIOUS
<1>1. CASE NextCycle
  BY <1>1 DEF NextCycle, StateTyped
<1>2. ASSUME NEW c \in Cluster, Collect(c) PROVE StateTyped'
  <2>1. PICK r \in Reply : /\ reply' = [reply EXCEPT ![c] = r]
                           /\ result' = [result EXCEPT ![c] = CollectCluster(c, r)]
    BY <1>2 DEF Collect
  <2>2. r # Pending /\ CollectCluster(c, r) # Pending
    BY PendingAssumption
  <2>3. reply' \in [Cluster -> Reply \cup {Pending}]
    BY <2>1 DEF StateTyped
  <2>4. \A d \in Cluster : (result'[d] = Pending) <=> (reply'[d] = Pending)
    <3> TAKE d \in Cluster
    <3>1. CASE d = c
      <4>1. reply'[d] = r /\ result'[d] = CollectCluster(c, r)
        BY <2>1, <3>1 DEF StateTyped, ResultsFollow
      <4> QED
        BY <2>2, <4>1
    <3>2. CASE d # c
      <4>1. reply'[d] = reply[d] /\ result'[d] = result[d]
        BY <2>1, <3>2 DEF StateTyped, ResultsFollow
      <4> QED
        BY <4>1 DEF StateTyped
    <3> QED
      BY <3>1, <3>2
  <2> QED
    BY <2>3, <2>4 DEF StateTyped
<1>3. CASE UNCHANGED vars
  BY <1>3 DEF vars, StateTyped
<1> QED
  BY <1>1, <1>2, <1>3 DEF Next

\* The state has its type; every sample is of a known metric and of the cluster
\* that was asked, and its value is a number over a positive one: BuildSamples never
\* divides by a divisor that the table leaves out.
THEOREM TypeCorrect == Spec => []TypeOK
<1>1. Init => StateTyped
  BY DEF Init, StateTyped
<1>2. ResultsFollow /\ StateTyped => TypeOK
  <2> SUFFICES ASSUME ResultsFollow, StateTyped PROVE TypeOK
    OBVIOUS
  <2>1. ASSUME NEW c \in Collected
        PROVE  /\ result[c].Up \in BOOLEAN
               /\ \A s \in Range(Samples(c)) :
                     /\ s.Name \in Metrics /\ s.Labels[1] = <<"cluster", c>>
                     /\ s.Value[1] \in Int /\ s.Value[2] \in Nat \ {0}
    <3>1. /\ result[c].Up \in BOOLEAN /\ AllTyped(Samples(c), c)
          /\ \A s \in Range(Samples(c)) : s.Name \in Metrics
      BY CollectedList
    <3> QED
      BY <3>1 DEF AllTyped, Typed, First
  <2> QED
    BY <2>1 DEF StateTyped, TypeOK
<1>3. Spec => []StateTyped
  BY <1>1, ResultsFollowAlways, StateTypedNext, PTL DEF Spec
<1> QED
  BY <1>2, <1>3, ResultsFollowAlways, PTL

\* The places of the samples are finitely many.
LEMMA PlacesFinite == ResultsFollow => IsFiniteSet(Places)
<1> SUFFICES ASSUME ResultsFollow PROVE IsFiniteSet(Places)
  OBVIOUS
<1> DEFINE At(c) == {<<c, i>> : i \in DOMAIN Samples(c)}
           f == [c \in Collected |-> At(c)]
           S == {At(c) : c \in Collected}
<1>1. IsFiniteSet(Collected)
  <2>1. Collected \in SUBSET Cluster
    BY DEF Collected
  <2> QED
    BY <2>1, ClusterAssumption, FS_Subset
<1>2. f \in Surjection(Collected, S)
  BY Fun_IsSurj
<1>3. IsFiniteSet(S)
  <2> HIDE DEF f, S
  <2> QED
    BY <1>1, <1>2, FS_Surjection
<1>4. ASSUME NEW c \in Collected PROVE IsFiniteSet(At(c))
  <2> DEFINE D == DOMAIN Samples(c)
             g == [i \in D |-> <<c, i>>]
  <2>1. IsFiniteSet(D)
    BY CollectedList, ListIsFinite DEF AllTyped, IsList
  <2> HIDE DEF D
  <2>2. g \in Surjection(D, {<<c, i>> : i \in D})
    BY Fun_IsSurj
  <2>3. IsFiniteSet({<<c, i>> : i \in D})
    <3> HIDE DEF g
    <3> QED
      BY <2>1, <2>2, FS_Surjection
  <2> QED
    BY <2>3 DEF D
<1>5. \A T \in S : IsFiniteSet(T)
  BY <1>4
<1>6. Places = UNION S
  BY DEF Places
<1> HIDE DEF S
<1> QED
  BY <1>3, <1>5, <1>6, FS_UNION

\* Rows of distinct things have distinct series, in one cluster and over all of them:
\* PromCollector.Collect drops no sample as a duplicate, and none overwrites another
\* in an OTLP gauge.
THEOREM SeriesAreUnique == Spec => []UniqueSeries
<1>1. ResultsFollow => UniqueSeries
  <2> SUFFICES ASSUME ResultsFollow, \A c \in Collected : result[c].Up => DistinctRows(reply[c])
               PROVE  Cardinality({Series(Samples(p[1])[p[2]]) : p \in Places}) = Cardinality(Places)
    BY DEF UniqueSeries
  <2> DEFINE T == {Series(Samples(p[1])[p[2]]) : p \in Places}
             f == [p \in Places |-> Series(Samples(p[1])[p[2]])]
  <2>1. \A p \in Places : /\ p = <<p[1], p[2]>> /\ p[1] \in Collected
                          /\ p[2] \in DOMAIN Samples(p[1])
    BY DEF Places
  <2>2. ASSUME NEW p \in Places, NEW q \in Places,
               Series(Samples(p[1])[p[2]]) = Series(Samples(q[1])[q[2]])
        PROVE  p = q
    <3> DEFINE a == Samples(p[1])[p[2]]
               b == Samples(q[1])[q[2]]
    <3>1. p[1] \in Collected /\ p[2] \in DOMAIN Samples(p[1])
      BY <2>1
    <3>2. q[1] \in Collected /\ q[2] \in DOMAIN Samples(q[1])
      BY <2>1
    <3>3. a \in Range(Samples(p[1])) /\ b \in Range(Samples(q[1]))
      BY <3>1, <3>2 DEF Range
    <3>4. AllTyped(Samples(p[1]), p[1]) /\ AllTyped(Samples(q[1]), q[1])
      BY <3>1, <3>2, CollectedList
    <3>5. Apart(Samples(p[1]))
      BY <3>1, CollectedList
    <3>6. a.Labels[1] = <<"cluster", p[1]>> /\ b.Labels[1] = <<"cluster", q[1]>>
      <4> HIDE DEF a, b
      <4> QED
        BY <3>3, <3>4 DEF AllTyped, Typed, First
    <3>7. Series(a) = Series(b)
      BY <2>2
    <3>8. p[1] = q[1]
      <4> HIDE DEF a, b
      <4>1. a.Labels = b.Labels
        BY <3>7 DEF Series
      <4>2. <<"cluster", p[1]>> = <<"cluster", q[1]>>
        BY <3>6, <4>1
      <4> QED
        BY <4>2
    <3>9. p[2] = q[2]
      BY <3>1, <3>2, <3>5, <3>7, <3>8 DEF Apart
    <3> QED
      BY <2>1, <3>8, <3>9
  <2>3. f \in [Places -> T]
    OBVIOUS
  <2>4. \A p, q \in Places : f[p] = f[q] => p = q
    BY <2>2
  <2>5. \A t \in T : \E p \in Places : f[p] = t
    OBVIOUS
  <2> HIDE DEF f, T
  <2>6. f \in Bijection(Places, T)
    BY <2>3, <2>4, <2>5, Fun_IsBij
  <2>7. ExistsBijection(Places, T)
    BY <2>6 DEF ExistsBijection
  <2>8. Cardinality(T) = Cardinality(Places)
    BY <2>7, PlacesFinite, FS_Bijection
  <2> QED
    BY <2>8 DEF T
<1> QED
  BY <1>1, ResultsFollowAlways, PTL

-----------------------------------------------------------------------------
(* The sum of the values of a set of samples.                               *)

\* f sums up every part of S, one element after the other.
IsFold(f, S) ==
    f = [T \in SUBSET S |->
            IF T = {} THEN 0
            ELSE LET x == CHOOSE y \in T : TRUE IN x.Value[1] + f[T \ {x}]]

\* Total is what such a function makes of all of them.
LEMMA TotalFolds == \A S : Total(S) = (CHOOSE f : IsFold(f, S))[S]
  BY DEF Total, MapThenSumSet, MapThenFoldSet, IsFold

\* What the samples count between them, when each has its own share to count.
LEMMA TotalOfParts ==
  ASSUME NEW S, IsFiniteSet(S), NEW K,
         \A s \in S : IsFiniteSet(K[s]) /\ s.Value[1] = Cardinality(K[s]),
         \A s, t \in S : s # t => K[s] \cap K[t] = {}
  PROVE  Total(S) = Cardinality(UNION {K[s] : s \in S})
<1> DEFINE all(T) == UNION {K[s] : s \in T}
           f == [T \in SUBSET S |-> Cardinality(all(T))]
           g == CHOOSE h : IsFold(h, S)
<1>1. \A T \in SUBSET S : IsFiniteSet(T) /\ IsFiniteSet(all(T)) /\ Cardinality(all(T)) \in Nat
  <2> TAKE T \in SUBSET S
  <2>1. IsFiniteSet(T)
    BY FS_Subset
  <2>2. IsFiniteSet({K[s] : s \in T})
    <3> DEFINE h == [s \in T |-> K[s]]
    <3>1. h \in Surjection(T, {K[s] : s \in T})
      BY DEF Surjection
    <3> QED
      BY <2>1, <3>1, FS_Surjection
  <2>3. IsFiniteSet(all(T))
    BY <2>2, FS_UNION
  <2> QED
    BY <2>1, <2>3, FS_CardinalityType
<1>2. ASSUME NEW T \in SUBSET S, NEW x \in T
      PROVE  Cardinality(all(T)) = x.Value[1] + Cardinality(all(T \ {x}))
  <2>1. all(T) = K[x] \cup all(T \ {x}) /\ K[x] \cap all(T \ {x}) = {}
    OBVIOUS
  <2>2. IsFiniteSet(K[x]) /\ x.Value[1] = Cardinality(K[x]) /\ IsFiniteSet(all(T \ {x}))
    BY <1>1
  <2>3. T \ {x} \in SUBSET S
    OBVIOUS
  <2> HIDE DEF all
  <2>4. Cardinality(K[x] \cup all(T \ {x})) =
            Cardinality(K[x]) + Cardinality(all(T \ {x})) - Cardinality(K[x] \cap all(T \ {x}))
    BY <2>2, FS_Union
  <2>5. Cardinality({}) = 0 /\ Cardinality(K[x]) \in Nat /\ Cardinality(all(T \ {x})) \in Nat
    BY <1>1, <2>2, <2>3, FS_EmptySet, FS_CardinalityType
  <2>6. Cardinality(K[x] \cap all(T \ {x})) = 0
    BY <2>1, <2>5
  <2>7. Cardinality(all(T)) = Cardinality(K[x] \cup all(T \ {x}))
    BY <2>1
  <2> QED
    BY <2>2, <2>4, <2>5, <2>6, <2>7
<1>3. Cardinality(all({})) = 0
  BY FS_EmptySet
<1> HIDE DEF all
<1>4. IsFold(f, S)
  <2>1. ASSUME NEW T \in SUBSET S
        PROVE  f[T] = IF T = {} THEN 0
                      ELSE LET x == CHOOSE y \in T : TRUE IN x.Value[1] + f[T \ {x}]
    <3>1. CASE T = {}
      BY <1>3, <3>1
    <3>2. CASE T # {}
      <4> DEFINE x == CHOOSE y \in T : TRUE
      <4>1. x \in T /\ T \ {x} \in SUBSET S
        BY <3>2
      <4> HIDE DEF x
      <4>2. f[T] = x.Value[1] + f[T \ {x}]
        BY <1>2, <4>1
      <4> QED
        BY <3>2, <4>2 DEF x
    <3> QED
      BY <3>1, <3>2
  <2> QED
    BY <2>1, Zenon DEF IsFold
<1>5. IsFold(g, S)
  BY <1>4
<1> HIDE DEF f, g
<1>6. \A T \in SUBSET S : g[T] = IF T = {} THEN 0
                                 ELSE LET x == CHOOSE y \in T : TRUE IN x.Value[1] + g[T \ {x}]
  BY <1>5, Zenon DEF IsFold
<1> DEFINE Good == {n \in Nat : \A T \in SUBSET S : Cardinality(T) = n => g[T] = Cardinality(all(T))}
<1>7. 0 \in Good
  <2> SUFFICES ASSUME NEW T \in SUBSET S, Cardinality(T) = 0 PROVE g[T] = Cardinality(all(T))
    OBVIOUS
  <2>1. T = {}
    BY <1>1, FS_EmptySet
  <2> QED
    BY <1>3, <1>6, <2>1
<1>8. ASSUME NEW n \in Good PROVE n + 1 \in Good
  <2> SUFFICES ASSUME NEW T \in SUBSET S, Cardinality(T) = n + 1 PROVE g[T] = Cardinality(all(T))
    OBVIOUS
  <2> DEFINE x == CHOOSE y \in T : TRUE
  <2>1. T # {}
    BY FS_EmptySet
  <2>2. x \in T /\ T \ {x} \in SUBSET S
    BY <2>1
  <2>3. g[T] = x.Value[1] + g[T \ {x}]
    BY <1>6, <2>1
  <2> HIDE DEF x
  <2>4. Cardinality(T \ {x}) = n
    <3>1. IsFiniteSet(T)
      BY <1>1
    <3>2. Cardinality(T \ {x}) = IF x \in T THEN Cardinality(T) - 1 ELSE Cardinality(T)
      BY <3>1, FS_RemoveElement
    <3>3. n \in Nat
      OBVIOUS
    <3> HIDE DEF Good
    <3> QED
      BY <2>2, <3>2, <3>3
  <2>5. g[T \ {x}] = Cardinality(all(T \ {x}))
    BY <2>2, <2>4
  <2> QED
    BY <1>2, <2>2, <2>3, <2>5
<1>9. Good = Nat
  <2> HIDE DEF Good
  <2> QED
    BY <1>7, <1>8, NatSetInduction DEF Good
<1>10. g[S] = Cardinality(all(S))
  BY <1>9, FS_CardinalityType
<1>11. Total(S) = g[S]
  BY TotalFolds DEF g
<1> QED
  BY <1>10, <1>11 DEF all

-----------------------------------------------------------------------------
(* Rows counted by their keys, key[i] being that of row i.                  *)

Counted(key) ==
    [k \in Range(key) |-> Cardinality({i \in DOMAIN key : key[i] = k})]

\* The counts do not depend on how the rows are numbered.
LEMMA CountedAlike ==
  ASSUME NEW key, IsFiniteSet(DOMAIN key), NEW other,
         NEW g \in Bijection(DOMAIN other, DOMAIN key), \A j \in DOMAIN other : other[j] = key[g[j]]
  PROVE  Counted(other) = Counted(key)
<1> DEFINE C(k) == {i \in DOMAIN key : key[i] = k}
           D(k) == {j \in DOMAIN other : other[j] = k}
<1>1. /\ \A j \in DOMAIN other : g[j] \in DOMAIN key
      /\ \A i \in DOMAIN key : \E j \in DOMAIN other : g[j] = i
      /\ \A i, j \in DOMAIN other : g[i] = g[j] => i = j
  BY Fun_BijectionProperties DEF Surjection
<1>2. Range(other) = Range(key)
  BY <1>1 DEF Range
<1>3. \A k : Cardinality(C(k)) = Cardinality(D(k))
  <2> TAKE k
  <2> DEFINE h == [j \in D(k) |-> g[j]]
  <2>1. h \in [D(k) -> C(k)]
    BY <1>1
  <2>2. \A i, j \in D(k) : h[i] = h[j] => i = j
    BY <1>1
  <2>3. \A i \in C(k) : \E j \in D(k) : h[j] = i
    BY <1>1
  <2>4. IsFiniteSet(C(k))
    BY FS_Subset
  <2> HIDE DEF h, C, D
  <2>5. h \in Bijection(D(k), C(k))
    <3> DEFINE A == D(k)
               B == C(k)
    <3>1. h \in [A -> B] /\ (\A i, j \in A : h[i] = h[j] => i = j) /\ \A i \in B : \E j \in A : h[j] = i
      BY <2>1, <2>2, <2>3
    <3> HIDE DEF A, B
    <3>2. h \in Bijection(A, B)
      BY <3>1, Fun_IsBij
    <3> QED
      BY <3>2 DEF A, B
  <2>6. ExistsBijection(C(k), D(k))
    <3>1. ExistsBijection(D(k), C(k))
      BY <2>5 DEF ExistsBijection
    <3> QED
      BY <3>1, Fun_ExistsBijSymmetric
  <2> QED
    BY <2>4, <2>6, FS_Bijection
<1>4. Counted(other) = [k \in Range(other) |-> Cardinality(D(k))] /\ Counted(key) = [k \in Range(key) |-> Cardinality(C(k))]
  BY DEF Counted
<1> HIDE DEF C, D
<1> QED
  BY <1>2, <1>3, <1>4

\* Of the rows that a filter leaves, by what they were among all of them.
LEMMA PickedCounts ==
  ASSUME NEW rows, NEW u, NEW I, IsFiniteSet(I), Picks(u, rows, I)
  PROVE  /\ CountBy(DriveState, u) = Counted([i \in I |-> DriveState(rows[i])])
         /\ CountBy(Severity, u) = Counted([i \in I |-> Severity(rows[i])])
<1>1. PICK g : g \in Bijection(DOMAIN u, I) /\ \A k \in DOMAIN u : u[k] = rows[g[k]]
  BY DEF Picks
<1>2. \A k \in DOMAIN u : g[k] \in I
  BY <1>1, Fun_BijectionProperties
<1>3. CountBy(DriveState, u) = Counted([i \in I |-> DriveState(rows[i])])
  <2> DEFINE key == [i \in I |-> DriveState(rows[i])]
             other == [k \in DOMAIN u |-> DriveState(u[k])]
  <2>1. CountBy(DriveState, u) = Counted(other)
    <3>1. /\ DOMAIN other = DOMAIN u /\ \A k \in DOMAIN u : other[k] = DriveState(u[k])
      OBVIOUS
    <3> HIDE DEF other
    <3>2. Range(other) = {DriveState(u[i]) : i \in DOMAIN u}
      BY <3>1 DEF Range
    <3>3. \A k : {i \in DOMAIN other : other[i] = k} = {i \in DOMAIN u : DriveState(u[i]) = k}
      BY <3>1
    <3> QED
      BY <3>2, <3>3 DEF CountBy, Counted
  <2>2. DOMAIN other = DOMAIN u /\ DOMAIN key = I /\ \A k \in DOMAIN u : other[k] = key[g[k]]
    BY <1>1, <1>2
  <2> HIDE DEF key, other
  <2>3. Counted(other) = Counted(key)
    BY <1>1, <2>2, CountedAlike
  <2> QED
    BY <2>1, <2>3 DEF key
<1>4. CountBy(Severity, u) = Counted([i \in I |-> Severity(rows[i])])
  <2> DEFINE key == [i \in I |-> Severity(rows[i])]
             other == [k \in DOMAIN u |-> Severity(u[k])]
  <2>1. CountBy(Severity, u) = Counted(other)
    <3>1. /\ DOMAIN other = DOMAIN u /\ \A k \in DOMAIN u : other[k] = Severity(u[k])
      OBVIOUS
    <3> HIDE DEF other
    <3>2. Range(other) = {Severity(u[i]) : i \in DOMAIN u}
      BY <3>1 DEF Range
    <3>3. \A k : {i \in DOMAIN other : other[i] = k} = {i \in DOMAIN u : Severity(u[i]) = k}
      BY <3>1
    <3> QED
      BY <3>2, <3>3 DEF CountBy, Counted
  <2>2. DOMAIN other = DOMAIN u /\ DOMAIN key = I /\ \A k \in DOMAIN u : other[k] = key[g[k]]
    BY <1>1, <1>2
  <2> HIDE DEF key, other
  <2>3. Counted(other) = Counted(key)
    BY <1>1, <2>2, CountedAlike
  <2> QED
    BY <2>1, <2>3 DEF key
<1> QED
  BY <1>3, <1>4

\* A sample for each key, with its count: they sum up to the rows.
LEMMA CountsTotal ==
  ASSUME NEW key, IsFiniteSet(DOMAIN key), NEW at, DOMAIN at = Range(key),
         \A k \in Range(key) : at[k].Value[1] = Counted(key)[k],
         \A k, l \in Range(key) : at[k] = at[l] => k = l
  PROVE  Total(Range(at)) = Cardinality(DOMAIN key)
<1> DEFINE S == Range(at)
           K == [s \in S |-> {i \in DOMAIN key : at[key[i]] = s}]
<1>1. \A i \in DOMAIN key : key[i] \in Range(key) /\ at[key[i]] \in S
  BY DEF Range
<1>2. \A s \in S : \E k \in Range(key) : s = at[k]
  BY DEF Range
<1>3. IsFiniteSet(S)
  <2> DEFINE h == [i \in DOMAIN key |-> at[key[i]]]
  <2>1. \A s \in S : \E i \in DOMAIN key : h[i] = s
    BY DEF Range
  <2>2. h \in [DOMAIN key -> S]
    BY <1>1
  <2> HIDE DEF h, S
  <2>3. h \in Surjection(DOMAIN key, S)
    BY <2>1, <2>2 DEF Surjection
  <2> QED
    BY <2>3, FS_Surjection
<1>4. ASSUME NEW s \in S PROVE IsFiniteSet(K[s]) /\ s.Value[1] = Cardinality(K[s])
  <2>1. PICK k \in Range(key) : s = at[k]
    BY <1>2
  <2>2. K[s] = {i \in DOMAIN key : key[i] = k}
    BY <1>1, <2>1
  <2>3. IsFiniteSet(K[s])
    BY FS_Subset
  <2>4. Counted(key)[k] = Cardinality({i \in DOMAIN key : key[i] = k})
    BY DEF Counted
  <2> QED
    BY <2>1, <2>2, <2>3, <2>4
<1>5. \A s, t \in S : s # t => K[s] \cap K[t] = {}
  OBVIOUS
<1>6. UNION {K[s] : s \in S} = DOMAIN key
  BY <1>1
<1>7. \A s \in S : IsFiniteSet(K[s]) /\ s.Value[1] = Cardinality(K[s])
  BY <1>4
<1> HIDE DEF S, K
<1>8. Total(S) = Cardinality(UNION {K[s] : s \in S})
  BY <1>3, <1>5, <1>7, TotalOfParts
<1> QED
  BY <1>6, <1>8 DEF S

-----------------------------------------------------------------------------
(* The drives of a node and the events of a cluster.                        *)

DriveGauge(cl, lnn, drives, state) ==
    Gauge("powerscale_node_drives", driveLabels(cl, lnn, state), drives[state])
EventGauge(cl, events, severity) ==
    Gauge("powerscale_active_events", severityLabels(cl, severity), events[severity])

\* The samples of a node's drives, one per state.
LEMMA DriveGauges ==
  ASSUME NEW cl, NEW n, IsFiniteSet(DOMAIN n.DrivesByState), NEW s
  PROVE  s \in Range(OfNodeHealth(cl, n)) /\ s.Name = "powerscale_node_drives"
            <=> \E k \in DOMAIN n.DrivesByState : s = DriveGauge(cl, n.LNN, n.DrivesByState, k)
<1> DEFINE states == SetToSeq(DOMAIN n.DrivesByState)
           base == nodeLabels(cl, n.LNN)
           gauge(state) == DriveGauge(cl, n.LNN, n.DrivesByState, state)
           drives == [i \in DOMAIN states |-> <<gauge(states[i])>>]
           a == Gauge("powerscale_node_readonly", base, b2f(n.Readonly))
           b == Gauge("powerscale_node_smartfail", base, b2f(n.Smartfail))
           R == UNION {Range(drives[i]) : i \in DOMAIN states}
<1>1. OfNodeHealth(cl, n) = <<a, b>> \o FlattenSeq(drives)
  BY DEF OfNodeHealth, Each, DriveGauge
<1>2. /\ a.Name # "powerscale_node_drives" /\ b.Name # "powerscale_node_drives"
      /\ \A state : gauge(state).Name = "powerscale_node_drives"
  BY SampleFields DEF DriveGauge
<1>3. IsList(states) /\ Range(states) = DOMAIN n.DrivesByState
  BY SetToSeqLists DEF IsList
<1> HIDE DEF a, b, gauge, states
<1>4. \A x : x \in R <=> \E k \in Range(states) : x = gauge(k)
  <2>1. \A i \in DOMAIN states : Range(drives[i]) = {gauge(states[i])}
    <3> TAKE i \in DOMAIN states
    <3>1. drives[i] = <<gauge(states[i])>>
      OBVIOUS
    <3> HIDE DEF drives
    <3> QED
      BY <3>1, Tuples
  <2> HIDE DEF drives
  <2> QED
    BY <2>1 DEF Range
<1>5. drives = [i \in DOMAIN states |-> drives[i]] /\ \A i \in DOMAIN states : IsList(drives[i])
  BY Tuples DEF IsList
<1> HIDE DEF drives
<1>6. Holds(FlattenSeq(drives), R)
  BY <1>3, <1>5, EachLists
<1> HIDE DEF R
<1>7. Holds(OfNodeHealth(cl, n), {a, b} \cup R)
  <2>1. Holds(<<a, b>>, {a, b})
    BY Holding
  <2> QED
    BY <1>1, <1>6, <2>1, ConcatHolds
<1>8. s \in Range(OfNodeHealth(cl, n)) <=> s \in {a, b} \cup R
  BY <1>7, HoldsList
<1>9. s \in Range(OfNodeHealth(cl, n)) /\ s.Name = "powerscale_node_drives"
         <=> \E k \in Range(states) : s = gauge(k)
  BY <1>2, <1>4, <1>8
<1> QED
  BY <1>3, <1>9 DEF gauge

\* The samples of the events, one per severity.
LEMMA EventGauges ==
  ASSUME NEW cl, NEW events, IsFiniteSet(DOMAIN events), NEW s
  PROVE  s \in Range(eventSamples(cl, events))
            <=> \E k \in DOMAIN events : s = EventGauge(cl, events, k)
<1> DEFINE severities == SetToSeq(DOMAIN events)
           gauge(k) == EventGauge(cl, events, k)
           ss == [i \in DOMAIN severities |-> <<gauge(severities[i])>>]
           R == UNION {Range(ss[i]) : i \in DOMAIN severities}
<1>1. eventSamples(cl, events) = FlattenSeq(ss)
  BY DEF eventSamples, Each, EventGauge
<1>2. IsList(severities) /\ Range(severities) = DOMAIN events
  BY SetToSeqLists DEF IsList
<1> HIDE DEF gauge, severities
<1>3. \A i \in DOMAIN severities : Range(ss[i]) = {gauge(severities[i])} /\ IsList(ss[i])
  <2> TAKE i \in DOMAIN severities
  <2>1. ss[i] = <<gauge(severities[i])>>
    OBVIOUS
  <2> HIDE DEF ss
  <2> QED
    BY <2>1, Tuples DEF IsList
<1>4. ss = [i \in DOMAIN severities |-> ss[i]]
  OBVIOUS
<1> HIDE DEF ss
<1>5. \A x : x \in R <=> \E k \in Range(severities) : x = gauge(k)
  BY <1>3 DEF Range
<1>6. Holds(FlattenSeq(ss), R)
  BY <1>2, <1>3, <1>4, EachLists
<1> HIDE DEF R
<1>7. s \in Range(eventSamples(cl, events)) <=> s \in R
  BY <1>1, <1>6, HoldsList
<1>8. s \in R <=> \E k \in Range(severities) : s = gauge(k)
  BY <1>5
<1> QED
  BY <1>2, <1>7, <1>8 DEF gauge

\* The node label of a sample of drives.
LEMMA DriveNode ==
    \A s, cl, x, k, v : s.Labels = driveLabels(cl, x, k) => (Has(s, "node", v) <=> v = x)
<1> TAKE s, cl, x, k, v
<1> HAVE s.Labels = driveLabels(cl, x, k)
<1> DEFINE l == nodeLabels(cl, x)
           m == << <<"state", k>> >>
           u == l \o m
<1>1. /\ DOMAIN l = 1..3 /\ l[1] = <<"cluster", cl.name>> /\ l[2] = <<"cluster_id", cl.id>>
      /\ l[3] = <<"node", x>>
  BY NodeLabelsAt
<1>2. DOMAIN m = 1..1 /\ m[1] = <<"state", k>>
  OBVIOUS
<1>3. IsList(l) /\ IsList(m)
  BY Tuples, LabelSets DEF IsList, Labelled
<1>4. driveLabels(cl, x, k) = u
  BY DEF driveLabels
<1> HIDE DEF l, m
<1> DEFINE T == Range(l) \cup Range(m)
<1>5. l \in Seq(T) /\ m \in Seq(T)
  BY <1>3 DEF IsList
<1>6. Len(l) = 3 /\ Len(m) = 1
  BY <1>1, <1>2, <1>5
<1> HIDE DEF T
<1>7. /\ DOMAIN u = 1..(Len(l) + Len(m))
      /\ \A i \in 1..Len(l) : u[i] = l[i]
      /\ \A i \in (Len(l) + 1)..(Len(l) + Len(m)) : u[i] = m[i - Len(l)]
  BY <1>5
<1> HIDE DEF u
<1>8. DOMAIN u = 1..4 /\ u[1] = l[1] /\ u[2] = l[2] /\ u[3] = l[3] /\ u[4] = m[1]
  BY <1>6, <1>7
<1>9. Has(s, "node", v) <=> \E i \in 1..4 : u[i] = <<"node", v>>
  BY <1>4, <1>8 DEF Has
<1>10. /\ u[1] # <<"node", v>> /\ u[2] # <<"node", v>> /\ u[4] # <<"node", v>>
       /\ (u[3] = <<"node", v>> <=> v = x)
  BY <1>1, <1>2, <1>8
<1> QED
  BY <1>8, <1>9, <1>10

NodeDrives(c, n) ==
    {s \in Range(Samples(c)) : s.Name = "powerscale_node_drives" /\ Has(s, "node", n.lnn)}
DriveCounts(n) == CountBy(DriveState, Only(Installed, n.drives))

\* The samples of drives of one node that a cluster has, one per state of its drives.
LEMMA DrivesOfNode ==
  ASSUME ResultsFollow, NEW c \in Collected, result[c].Up, DistinctRows(reply[c]),
         NEW n \in Range(reply[c]["cluster/nodes"])
  PROVE  /\ IsList(n.drives)
         /\ NodeDrives(c, n) = {DriveGauge(ClusterOf(c, reply[c]), n.lnn, DriveCounts(n), state) :
                                 state \in DOMAIN DriveCounts(n)}
<1> DEFINE r == reply[c]
           cl == ClusterOf(c, r)
           rows == r["cluster/nodes"]
           nodes == Nodes(r)
           d == DriveCounts(n)
           h == nodeHealthSamples(cl, nodes)
           P == "powerscale_node_drives"
<1>0. PICK k \in DOMAIN rows : n = rows[k]
  BY DEF Range
<1>1. r \in Reply /\ \A ep \in RequiredListed : r[ep] # Failed
  BY DownOrUp
<1>2. IsList(nodes) /\ \A i \in DOMAIN nodes : NodeOK(nodes[i])
  BY <1>1, ReplyLists DEF RequiredListed, Nodes
<1>3. rows # Failed
  BY <1>1 DEF RequiredListed
<1>4. \A i, j \in DOMAIN rows : rows[i].lnn = rows[j].lnn => i = j
  BY <1>3 DEF DistinctRows, Distinct
<1>5. IsList(n.drives)
  BY <1>1, <1>3, <1>0, ReplyAssumption DEF Range
<1>6. /\ DOMAIN nodes = DOMAIN rows
      /\ \A i \in DOMAIN rows : nodes[i].LNN = rows[i].lnn
      /\ nodes[k].DrivesByState = d
  <2>1. nodes = [i \in DOMAIN rows |-> ParseNode(rows[i])]
    BY DEF Nodes, ParseNodes
  <2>2. \A x : /\ ParseNode(x).LNN = x.lnn
               /\ ParseNode(x).DrivesByState = CountBy(DriveState, Only(Installed, x.drives))
    <3> TAKE x
    <3> DEFINE drives == CountBy(DriveState, Only(Installed, x.drives))
               temps == Readings(x.sensors, TempGroup)
               fans == Readings(x.sensors, FanGroup \ TempGroup)
    <3>1. ParseNode(x) =
            [ID |-> x.id, LNN |-> x.lnn, Readonly |-> x.readonly, Smartfail |-> x.smartfailed,
             DrivesByState |-> drives, PowerSupplies |-> x.supplies,
             PowerSupplyFailures |-> x.failures, Temperatures |-> temps, Fans |-> fans,
             Hardware |-> x.hardware]
      BY DEF ParseNode
    <3>2. drives = CountBy(DriveState, Only(Installed, x.drives))
      OBVIOUS
    <3> HIDE DEF drives, temps, fans
    <3> QED
      BY <3>1, <3>2
  <2> DEFINE counts(x) == CountBy(DriveState, Only(Installed, x.drives))
  <2>3. (\A x : ParseNode(x).LNN = x.lnn /\ ParseNode(x).DrivesByState = counts(x)) /\ d = counts(rows[k])
    BY <1>0, <2>2 DEF DriveCounts
  <2> HIDE DEF nodes, rows, counts
  <2> QED
    BY <1>0, <2>1, <2>3
<1>7. ASSUME NEW s \in Range(Samples(c)), s.Name = P PROVE s \in Range(h)
  <2>1. s.Name \in NodeMetrics /\ s.Name \notin HardwareMetrics
    BY <1>7 DEF NodeMetrics, HardwareMetrics
  <2>2. s \in Range(h) \/ s \in Range(hardwareSamples(cl, nodes))
    BY <2>1, Origin
  <2>3. Sep(hardwareSamples(cl, nodes), HardwareMetrics)
    BY <1>1, RequiredSep DEF Nodes
  <2> QED
    BY <2>1, <2>2, <2>3 DEF Sep
<1>8. Range(h) \subseteq Range(Samples(c))
  <2>1. RequiredSamples(cl, r) \subseteq Range(Samples(c))
    BY DownOrUp
  <2>2. Range(h) \subseteq RequiredSamples(cl, r)
    BY DEF RequiredSamples, Nodes
  <2> QED
    BY <2>1, <2>2
<1>9. \A x : x \in Range(h) <=> \E i \in DOMAIN nodes : x \in Range(OfNodeHealth(cl, nodes[i]))
  <2> DEFINE ss == [i \in DOMAIN nodes |-> OfNodeHealth(cl, nodes[i])]
             R == UNION {Range(ss[i]) : i \in DOMAIN nodes}
  <2>1. h = FlattenSeq(ss)
    BY DEF nodeHealthSamples, Each
  <2>2. /\ ss = [i \in DOMAIN nodes |-> ss[i]]
        /\ \A i \in DOMAIN nodes : IsList(ss[i]) /\ ss[i] = OfNodeHealth(cl, nodes[i])
    BY <1>2, NodeHealthFits DEF Fits, NodeOK
  <2> HIDE DEF ss, h, nodes, cl
  <2>3. Holds(FlattenSeq(ss), R)
    BY <1>2, <2>2, EachLists
  <2>4. \A x : x \in R <=> \E i \in DOMAIN nodes : x \in Range(OfNodeHealth(cl, nodes[i]))
    BY <2>2
  <2> HIDE DEF R
  <2> QED
    BY <2>1, <2>3, <2>4, HoldsList
<1> HIDE DEF r, cl, rows, nodes, h
<1>10. \A s : \A i \in DOMAIN nodes :
          /\ IsFiniteSet(DOMAIN nodes[i].DrivesByState)
          /\ s \in Range(OfNodeHealth(cl, nodes[i])) /\ s.Name = P
               <=> \E state \in DOMAIN nodes[i].DrivesByState :
                     s = DriveGauge(cl, nodes[i].LNN, nodes[i].DrivesByState, state)
  <2> TAKE s
  <2> TAKE i \in DOMAIN nodes
  <2>1. IsFiniteSet(DOMAIN nodes[i].DrivesByState)
    BY <1>2 DEF NodeOK
  <2> QED
    BY <2>1, DriveGauges
<1>11. \A s, x, e, state, v : s = DriveGauge(cl, x, e, state) => (Has(s, "node", v) <=> v = x)
  <2> TAKE s, x, e, state, v
  <2> HAVE s = DriveGauge(cl, x, e, state)
  <2>1. s.Labels = driveLabels(cl, x, state)
    BY SampleFields DEF DriveGauge
  <2> QED
    BY <2>1, DriveNode
<1> HIDE DEF d
<1>12. nodes[k].LNN = n.lnn /\ k \in DOMAIN nodes
  BY <1>6, <1>0
<1>13. ASSUME NEW s \in Range(Samples(c)), s.Name = P, Has(s, "node", n.lnn)
       PROVE  \E state \in DOMAIN d : s = DriveGauge(cl, n.lnn, d, state)
  <2>1. PICK i \in DOMAIN nodes : s \in Range(OfNodeHealth(cl, nodes[i]))
    BY <1>7, <1>9, <1>13
  <2>2. PICK state \in DOMAIN nodes[i].DrivesByState :
           s = DriveGauge(cl, nodes[i].LNN, nodes[i].DrivesByState, state)
    BY <1>10, <1>13, <2>1
  <2>3. n.lnn = nodes[i].LNN
    BY <1>11, <1>13, <2>2
  <2>4. i = k
    BY <1>4, <1>6, <1>12, <2>3
  <2> QED
    BY <1>6, <1>12, <2>2, <2>4
<1>14. ASSUME NEW s, NEW state \in DOMAIN d, s = DriveGauge(cl, n.lnn, d, state)
       PROVE  s \in Range(Samples(c)) /\ s.Name = P /\ Has(s, "node", n.lnn)
  <2>1. s \in Range(OfNodeHealth(cl, nodes[k])) /\ s.Name = P
    BY <1>6, <1>10, <1>12, <1>14
  <2>2. s \in Range(Samples(c))
    BY <1>8, <1>9, <1>12, <2>1
  <2> QED
    BY <1>11, <1>14, <2>1, <2>2
<1>15. NodeDrives(c, n) = {DriveGauge(cl, n.lnn, d, state) : state \in DOMAIN d}
  BY <1>13, <1>14 DEF NodeDrives
<1> QED
  BY <1>5, <1>15 DEF r, cl, d

\* A node's samples of drives sum up to the drives it has.
LEMMA DrivesTotal ==
  ASSUME ResultsFollow, NEW c \in Collected, result[c].Up, DistinctRows(reply[c]),
         NEW n \in Range(reply[c]["cluster/nodes"])
  PROVE  Total(NodeDrives(c, n))
            = Cardinality({i \in DOMAIN n.drives : n.drives[i].present # FALSE})
<1> DEFINE cl == ClusterOf(c, reply[c])
           u == Only(Installed, n.drives)
           d == DriveCounts(n)
           I == {i \in DOMAIN n.drives : Installed(n.drives[i])}
           key == [i \in I |-> DriveState(n.drives[i])]
           at == [k \in Range(key) |-> DriveGauge(cl, n.lnn, d, k)]
<1>1. IsList(n.drives) /\ NodeDrives(c, n) = {DriveGauge(cl, n.lnn, d, k) : k \in DOMAIN d}
  BY DrivesOfNode
<1>2. IsFiniteSet(I) /\ Picks(u, n.drives, I)
  <2>1. IsFiniteSet(DOMAIN n.drives)
    BY <1>1, ListIsFinite DEF IsList
  <2> QED
    BY <1>1, <2>1, OnlyPicks, FS_Subset
<1>3. I = {i \in DOMAIN n.drives : n.drives[i].present # FALSE}
  BY DEF Installed
<1>4. d = Counted(key)
  <2>1. d = CountBy(DriveState, u)
    BY DEF DriveCounts
  <2> HIDE DEF u, I, d
  <2> QED
    BY <1>2, <2>1, PickedCounts
<1>5. DOMAIN key = I
  OBVIOUS
<1> HIDE DEF u, I, d, key
<1>6. DOMAIN d = Range(key)
  BY <1>4 DEF Counted
<1>7. \A k \in Range(key) : at[k] = DriveGauge(cl, n.lnn, d, k)
  OBVIOUS
<1>8. DOMAIN at = Range(key)
  OBVIOUS
<1> HIDE DEF at, cl
<1>9. Range(at) = NodeDrives(c, n)
  BY <1>1, <1>6, <1>7, <1>8 DEF Range
<1>10. \A k \in Range(key) : at[k].Value[1] = Counted(key)[k]
  <2> TAKE k \in Range(key)
  <2>1. at[k].Value = <<d[k], 1>>
    BY <1>7, SampleFields DEF DriveGauge
  <2> QED
    BY <1>4, <2>1
<1>11. \A k, l \in Range(key) : at[k] = at[l] => k = l
  <2> SUFFICES ASSUME NEW k \in Range(key), NEW l \in Range(key), at[k] = at[l] PROVE k = l
    OBVIOUS
  <2>1. at[k].Labels = driveLabels(cl, n.lnn, k) /\ at[l].Labels = driveLabels(cl, n.lnn, l)
    BY <1>7, SampleFields DEF DriveGauge
  <2>2. driveLabels(cl, n.lnn, k) = driveLabels(cl, n.lnn, l)
    BY <2>1
  <2> QED
    BY <2>2, NodeLabelsTell
<1>12. Total(Range(at)) = Cardinality(DOMAIN key)
  BY <1>2, <1>5, <1>8, <1>10, <1>11, CountsTotal
<1> QED
  BY <1>3, <1>5, <1>9, <1>12

\* No samples sum up to 0.
LEMMA TotalOfNone == Total({}) = 0
<1> DEFINE K == [s \in {} |-> {}]
<1>1. Total({}) = Cardinality(UNION {K[s] : s \in {}})
  <2> HIDE DEF K
  <2> QED
    BY FS_EmptySet, TotalOfParts
<1>2. UNION {K[s] : s \in {}} = {}
  OBVIOUS
<1> QED
  BY <1>1, <1>2, FS_EmptySet

\* The samples of the active events are made of the payload of the events.
LEMMA EventsOfCluster ==
  ASSUME ResultsFollow, NEW c \in Collected, result[c].Up, NEW s
  PROVE  s \in Range(Samples(c)) /\ s.Name = "powerscale_active_events"
            <=> s \in Part(ClusterOf(c, reply[c]), reply[c], "eventgroup-occurrences")
<1> DEFINE r == reply[c]
           cl == ClusterOf(c, r)
           ev == "eventgroup-occurrences"
           own == StatMetrics \cup QuotaMetrics \cup NodeMetrics
<1>1. /\ r \in Reply /\ \A ep \in RequiredListed : r[ep] # Failed
      /\ Range(Samples(c)) = RequiredSamples(cl, r) \cup UNION {Part(cl, r, ep) : ep \in BestEffortListed}
  BY DownOrUp
<1> HIDE DEF r, cl
<1>2. ev \in BestEffortListed /\ FamilyOf[ev] = {"powerscale_active_events"}
  BY Families DEF BestEffortListed
<1> HIDE DEF ev
<1>3. \A x \in RequiredSamples(cl, r) : x.Name \in own
  BY <1>1, RequiredSamplesFit DEF SampleFits
<1>4. \A ep \in BestEffortListed : \A x \in Part(cl, r, ep) : x.Name \in FamilyOf[ep]
  BY <1>1, PartFits DEF SampleFits
<1> HIDE DEF own
<1>5. FamilyOf[ev] \cap own = {} /\ \A ep \in BestEffortListed : ep # ev => FamilyOf[ep] \cap FamilyOf[ev] = {}
  BY <1>2, FamiliesDisjoint DEF own
<1>6. s \in Part(cl, r, ev) => s \in Range(Samples(c)) /\ s.Name = "powerscale_active_events"
  BY <1>1, <1>2, <1>4
<1>7. s \in Range(Samples(c)) /\ s.Name = "powerscale_active_events" => s \in Part(cl, r, ev)
  BY <1>1, <1>2, <1>3, <1>4, <1>5
<1> QED
  BY <1>6, <1>7 DEF r, cl, ev

\* They sum up to the unresolved events.
LEMMA EventsTotal ==
  ASSUME ResultsFollow, NEW c \in Collected, result[c].Up
  PROVE  LET events == reply[c]["eventgroup-occurrences"]
         IN  Total({s \in Range(Samples(c)) : s.Name = "powerscale_active_events"})
                = IF events = Failed THEN 0
                  ELSE Cardinality({i \in DOMAIN events : ~events[i].resolved})
<1> DEFINE r == reply[c]
           cl == ClusterOf(c, r)
           events == r["eventgroup-occurrences"]
           S == {s \in Range(Samples(c)) : s.Name = "powerscale_active_events"}
<1>1. r \in Reply
  BY DownOrUp
<1>2. \A s : s \in S <=> s \in Part(cl, r, "eventgroup-occurrences")
  BY EventsOfCluster
<1>3. CASE events = Failed
  <2>1. Part(cl, r, "eventgroup-occurrences") = {}
    BY <1>3 DEF Part, Unanswered
  <2> HIDE DEF S
  <2>2. S = {}
    BY <1>2, <2>1
  <2>3. Total(S) = 0
    BY <2>2, TotalOfNone
  <2> QED
    BY <1>3, <2>3 DEF S
<1>4. CASE events # Failed
  <2> DEFINE u == Only(Unresolved, events)
             d == CountBy(Severity, u)
             I == {i \in DOMAIN events : Unresolved(events[i])}
             key == [i \in I |-> Severity(events[i])]
             at == [k \in Range(key) |-> EventGauge(cl, d, k)]
  <2>1. IsList(events)
    BY <1>1, <1>4, ReplyLists DEF ListEndpoints
  <2>2. Part(cl, r, "eventgroup-occurrences") = Range(eventSamples(cl, d))
    <3>1. Part(cl, r, "eventgroup-occurrences") = Answered(cl, "eventgroup-occurrences", events)
      BY <1>4 DEF Part
    <3>2. Answered(cl, "eventgroup-occurrences", events) = Range(eventSamples(cl, ParseEventOccurrences(events)))
      BY DEF Answered
    <3> QED
      BY <3>1, <3>2 DEF ParseEventOccurrences
  <2>3. IsFiniteSet(I) /\ Picks(u, events, I)
    <3>1. IsFiniteSet(DOMAIN events)
      <4> HIDE DEF events
      <4>1. PICK m \in Nat : DOMAIN events = 1..m
        BY <2>1, ListDomain DEF IsList
      <4> QED
        BY <4>1, FS_Interval
    <3> QED
      BY <2>1, <3>1, OnlyPicks, FS_Subset
  <2>4. IsFiniteSet(DOMAIN d)
    BY <2>1, OnlyUnresolved, CountedKeys
  <2>5. I = {i \in DOMAIN events : ~events[i].resolved}
    BY DEF Unresolved
  <2> HIDE DEF u, I, events
  <2>6. d = Counted(key)
    BY <2>3, PickedCounts
  <2>7. DOMAIN key = I
    OBVIOUS
  <2> HIDE DEF d, key
  <2>8. DOMAIN d = Range(key)
    BY <2>6 DEF Counted
  <2>9. DOMAIN at = Range(key) /\ \A k \in Range(key) : at[k] = EventGauge(cl, d, k)
    OBVIOUS
  <2> HIDE DEF at, S, cl
  <2>10. Range(at) = S
    <3>1. \A s : s \in Range(at) <=> \E k \in DOMAIN d : s = EventGauge(cl, d, k)
      BY <2>8, <2>9 DEF Range
    <3>2. \A s : s \in S <=> \E k \in DOMAIN d : s = EventGauge(cl, d, k)
      BY <1>2, <2>2, <2>4, EventGauges
    <3> QED
      BY <3>1, <3>2
  <2>11. \A k \in Range(key) : at[k].Value[1] = Counted(key)[k]
    <3> TAKE k \in Range(key)
    <3>1. at[k].Value = <<d[k], 1>>
      BY <2>9, SampleFields DEF EventGauge
    <3> QED
      BY <2>6, <3>1
  <2>12. \A k, l \in Range(key) : at[k] = at[l] => k = l
    <3> SUFFICES ASSUME NEW k \in Range(key), NEW l \in Range(key), at[k] = at[l] PROVE k = l
      OBVIOUS
    <3>1. at[k].Labels = severityLabels(cl, k) /\ at[l].Labels = severityLabels(cl, l)
      BY <2>9, SampleFields DEF EventGauge
    <3>2. severityLabels(cl, k) = severityLabels(cl, l)
      BY <3>1
    <3> QED
      BY <3>2, ClusterLabelsTell
  <2>13. Total(Range(at)) = Cardinality(DOMAIN key)
    BY <2>3, <2>7, <2>9, <2>11, <2>12, CountsTotal
  <2> QED
    BY <1>4, <2>5, <2>7, <2>10, <2>13 DEF S, events
<1> QED
  BY <1>3, <1>4 DEF events

\* ParseNodes counts every drive in a bay in one state and ParseEventOccurrences every
\* unresolved event in one severity: the exported counts sum up to the rows, whatever
\* the states and severities are called.
THEOREM CountsAddUp == Spec => []HealthTotals
<1>1. ResultsFollow => HealthTotals
  <2> SUFFICES ASSUME ResultsFollow, NEW c \in Collected, result[c].Up
               PROVE  LET Of(name) == {s \in Range(Samples(c)) : s.Name = name}
                          nodes == reply[c]["cluster/nodes"]
                          events == reply[c]["eventgroup-occurrences"]
                      IN  /\ DistinctRows(reply[c]) => \A n \in Range(nodes) :
                                Total({s \in Of("powerscale_node_drives") : Has(s, "node", n.lnn)})
                                  = Cardinality({i \in DOMAIN n.drives : n.drives[i].present # FALSE})
                          /\ Total(Of("powerscale_active_events"))
                                = IF events = Failed THEN 0
                                  ELSE Cardinality({i \in DOMAIN events : ~events[i].resolved})
    BY DEF HealthTotals
  <2> DEFINE D == {s \in Range(Samples(c)) : s.Name = "powerscale_node_drives"}
  <2>1. ASSUME DistinctRows(reply[c]), NEW n \in Range(reply[c]["cluster/nodes"])
        PROVE  Total({s \in D : Has(s, "node", n.lnn)})
                  = Cardinality({i \in DOMAIN n.drives : n.drives[i].present # FALSE})
    <3>1. {s \in D : Has(s, "node", n.lnn)}
            = NodeDrives(c, n)
      BY DEF NodeDrives
    <3> QED
      BY <2>1, <3>1, DrivesTotal
  <2> QED
    BY <2>1, EventsTotal
<1> QED
  BY <1>1, ResultsFollowAlways, PTL
=============================================================================
