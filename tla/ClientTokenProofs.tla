--------------------------- MODULE ClientTokenProofs ---------------------------
(***************************************************************************)
(* What an update of a client promises, for any number of users, tokens and *)
(* configurations.  The steps an update has left say which parts may still  *)
(* be on the old token: a part that no step left will change is on the new  *)
(* one.                                                                     *)
(***************************************************************************)
EXTENDS ClientToken, SequenceTheorems, TLAPS

-----------------------------------------------------------------------------
(* The order of an update's steps. *)

Own == {"ownMeta", "ownStore"}
TokenOnly == {"pinning", "upload", "uploadTransport", "download", "downloadTransport"} \union Own
Rewiring == OnGenerated \union TokenOnly
Parts == {"bearer", "config", "gen"} \union Rewiring

\* What may still come after a step, and what has to.
Follows(p) == IF p \in Own THEN OnGenerated \union Own
              ELSE IF p \in {"bearer", "config"} THEN {"gen"} \union Rewiring
              ELSE Rewiring

Needs(p) == IF p \in {"bearer", "config"} THEN {"gen"}
            ELSE IF p = "gen" THEN OnGenerated
            ELSE IF p = "ownMeta" THEN {"meta"}
            ELSE IF p = "ownStore" THEN {"store"}
            ELSE {}

Within(s) == {s[i] : i \in 1..Len(s)}

Ordered(s) ==
  /\ s \in Seq(Parts)
  /\ \A i \in 1..Len(s) :
       /\ \A j \in i + 1..Len(s) : s[j] \in Follows(s[i])
       /\ \A q \in Needs(s[i]) : \E j \in i + 1..Len(s) : s[j] = q

LEMMA OrderedTail ==
  ASSUME NEW s, Ordered(s), s # <<>>
  PROVE  /\ Head(s) \in Parts /\ Ordered(Tail(s)) /\ Len(Tail(s)) = Len(s) - 1
         /\ Within(s) = {Head(s)} \union Within(Tail(s))
         /\ Within(Tail(s)) \subseteq Follows(Head(s))
         /\ Needs(Head(s)) \subseteq Within(Tail(s))
<1> DEFINE n == Len(s)
           t == Tail(s)
<1>1. s \in Seq(Parts) /\ n \in Nat \ {0} /\ Head(s) = s[1]
  BY DEF Ordered
<1>2. /\ Head(s) \in Parts /\ t \in Seq(Parts) /\ Len(t) = n - 1
      /\ \A i \in 1..n - 1 : t[i] = s[i + 1]
  BY <1>1, HeadTailProperties
<1> HIDE DEF t
<1>3. ASSUME NEW i \in 1..Len(t)
      PROVE  /\ \A j \in i + 1..Len(t) : t[j] \in Follows(t[i])
             /\ \A q \in Needs(t[i]) : \E j \in i + 1..Len(t) : t[j] = q
  <2>1. i + 1 \in 1..n /\ t[i] = s[i + 1]
    BY <1>1, <1>2, <1>3
  <2>2. ASSUME NEW j \in i + 1..Len(t)
        PROVE  t[j] \in Follows(t[i])
    <3>1. j + 1 \in (i + 1) + 1..n /\ t[j] = s[j + 1]
      BY <1>1, <1>2
    <3> QED BY <2>1, <3>1 DEF Ordered
  <2>3. ASSUME NEW q \in Needs(t[i])
        PROVE  \E j \in i + 1..Len(t) : t[j] = q
    <3>1. PICK m \in (i + 1) + 1..n : s[m] = q
      BY <2>1, <2>3 DEF Ordered
    <3>2. m - 1 \in i + 1..Len(t) /\ t[m - 1] = s[m]
      BY <1>1, <1>2, <3>1
    <3> QED BY <3>1, <3>2
  <2> QED BY <2>2, <2>3
<1>4. Ordered(t)
  BY <1>2, <1>3 DEF Ordered
<1>5. Within(t) = {s[j] : j \in 2..n}
  <2>1. ASSUME NEW i \in 1..Len(t) PROVE t[i] \in {s[j] : j \in 2..n}
    <3>1. i + 1 \in 2..n /\ t[i] = s[i + 1]
      BY <1>1, <1>2
    <3> QED BY <3>1
  <2>2. ASSUME NEW j \in 2..n PROVE s[j] \in Within(t)
    <3>1. j - 1 \in 1..Len(t) /\ t[j - 1] = s[j]
      BY <1>1, <1>2
    <3> QED BY <3>1 DEF Within
  <2> QED BY <2>1, <2>2 DEF Within
<1>6. 1 \in 1..n /\ 1..n = {1} \union 2..n /\ 1 + 1..n = 2..n
  BY <1>1
<1>7. Within(s) = {Head(s)} \union Within(t)
  BY <1>1, <1>5, <1>6 DEF Within
<1>8. /\ \A j \in 2..n : s[j] \in Follows(s[1])
      /\ \A q \in Needs(s[1]) : \E j \in 2..n : s[j] = q
  BY <1>6 DEF Ordered
<1>9. Within(t) \subseteq Follows(Head(s))
  BY <1>1, <1>5, <1>8
<1>10. Needs(Head(s)) \subseteq Within(t)
  BY <1>1, <1>5, <1>8
<1> QED BY <1>2, <1>4, <1>7, <1>9, <1>10 DEF t

\* The steps s may be prepended to t: what t has may follow them, and what they
\* need comes later among them or in t.
Leads(s, t) ==
  /\ s \in Seq(Parts)
  /\ \A i \in 1..Len(s) :
       /\ \A j \in i + 1..Len(s) : s[j] \in Follows(s[i])
       /\ \A q \in Needs(s[i]) : q \in Within(t) \/ \E j \in i + 1..Len(s) : s[j] = q
       /\ Within(t) \subseteq Follows(s[i])

LEMMA OrderedConcat ==
  ASSUME NEW s, NEW t, Ordered(t), Leads(s, t)
  PROVE  /\ Ordered(s \o t)
         /\ Within(s \o t) = Within(s) \union Within(t)
         /\ Len(s \o t) = Len(s) + Len(t)
<1> DEFINE r == s \o t
           m == Len(s)
           n == Len(t)
<1>1. /\ s \in Seq(Parts) /\ t \in Seq(Parts) /\ m \in Nat /\ n \in Nat
      /\ r \in Seq(Parts) /\ Len(r) = m + n
  BY ConcatProperties DEF Ordered, Leads
<1>2. /\ \A i \in 1..m : i \in 1..m + n /\ r[i] = s[i]
      /\ \A i \in 1..n : m + i \in 1..m + n /\ r[m + i] = t[i]
  BY <1>1, ConcatProperties
<1> HIDE DEF r
<1>3. \A i \in 1..m + n : i \in 1..m \/ \E l \in 1..n : i = m + l
  <2> SUFFICES ASSUME NEW i \in 1..m + n, i \notin 1..m
               PROVE  \E l \in 1..n : i = m + l
    OBVIOUS
  <2>1. i - m \in 1..n /\ i = m + (i - m)
    BY <1>1
  <2> QED BY <2>1
<1>4. Within(r) = Within(s) \union Within(t)
  <2>1. ASSUME NEW p \in Within(r) PROVE p \in Within(s) \union Within(t)
    <3>1. PICK i \in 1..m + n : p = r[i]
      BY <1>1, <2>1 DEF Within
    <3>2. CASE i \in 1..m
      BY <1>2, <3>1, <3>2 DEF Within
    <3>3. CASE \E l \in 1..n : i = m + l
      BY <1>2, <3>1, <3>3 DEF Within
    <3> QED BY <1>3, <3>2, <3>3
  <2>2. ASSUME NEW p \in Within(s) PROVE p \in Within(r)
    BY <1>1, <1>2, <2>2 DEF Within
  <2>3. ASSUME NEW p \in Within(t) PROVE p \in Within(r)
    BY <1>1, <1>2, <2>3 DEF Within
  <2> QED BY <2>1, <2>2, <2>3
<1>5. ASSUME NEW i \in 1..m
      PROVE  /\ \A j \in i + 1..m + n : r[j] \in Follows(r[i])
             /\ \A q \in Needs(r[i]) : \E j \in i + 1..m + n : r[j] = q
  <2>1. r[i] = s[i]
    BY <1>2
  <2>2. ASSUME NEW j \in i + 1..m + n PROVE r[j] \in Follows(r[i])
    <3>1. CASE j \in 1..m
      <4>1. j \in i + 1..m /\ r[j] = s[j]
        BY <1>1, <1>2, <3>1
      <4> QED BY <2>1, <4>1 DEF Leads
    <3>2. CASE \E l \in 1..n : j = m + l
      <4>1. r[j] \in Within(t)
        BY <1>2, <3>2 DEF Within
      <4> QED BY <2>1, <4>1 DEF Leads
    <3>3. j \in 1..m + n
      BY <1>1
    <3> QED BY <1>3, <3>1, <3>2, <3>3
  <2>3. ASSUME NEW q \in Needs(r[i]) PROVE \E j \in i + 1..m + n : r[j] = q
    <3>1. CASE q \in Within(t)
      <4>1. PICK l \in 1..n : t[l] = q
        BY <3>1 DEF Within
      <4>2. m + l \in i + 1..m + n /\ r[m + l] = q
        BY <1>1, <1>2, <4>1
      <4> QED BY <4>2
    <3>2. CASE \E j \in i + 1..m : s[j] = q
      <4>1. PICK j \in i + 1..m : s[j] = q
        BY <3>2
      <4>2. j \in i + 1..m + n /\ r[j] = q
        BY <1>1, <1>2, <4>1
      <4> QED BY <4>2
    <3> QED BY <2>1, <2>3, <3>1, <3>2 DEF Leads
  <2> QED BY <2>2, <2>3
<1>6. ASSUME NEW l \in 1..n
      PROVE  /\ \A j \in (m + l) + 1..m + n : r[j] \in Follows(r[m + l])
             /\ \A q \in Needs(r[m + l]) : \E j \in (m + l) + 1..m + n : r[j] = q
  <2>1. r[m + l] = t[l]
    BY <1>2
  <2>2. ASSUME NEW j \in (m + l) + 1..m + n PROVE r[j] \in Follows(t[l])
    <3>1. j - m \in l + 1..n /\ r[m + (j - m)] = t[j - m] /\ m + (j - m) = j
      BY <1>1, <1>2
    <3> QED BY <3>1 DEF Ordered
  <2>3. ASSUME NEW q \in Needs(t[l]) PROVE \E j \in (m + l) + 1..m + n : r[j] = q
    <3>1. PICK h \in l + 1..n : t[h] = q
      BY <2>3 DEF Ordered
    <3>2. m + h \in (m + l) + 1..m + n /\ r[m + h] = t[h]
      BY <1>1, <1>2, <3>1
    <3> QED BY <3>1, <3>2
  <2> QED BY <2>1, <2>2, <2>3
<1>7. \A i \in 1..m + n :
        /\ \A j \in i + 1..m + n : r[j] \in Follows(r[i])
        /\ \A q \in Needs(r[i]) : \E j \in i + 1..m + n : r[j] = q
  <2> TAKE i \in 1..m + n
  <2>1. CASE i \in 1..m
    BY <1>5, <2>1
  <2>2. CASE \E l \in 1..n : i = m + l
    BY <1>6, <2>2
  <2> QED BY <1>3, <2>1, <2>2
<1>8. Ordered(r)
  BY <1>1, <1>7 DEF Ordered
<1> QED BY <1>1, <1>4, <1>8 DEF r

LEMMA ConcatAssoc ==
  ASSUME NEW S, NEW a \in Seq(S), NEW b \in Seq(S), NEW c \in Seq(S)
  PROVE  (a \o b) \o c = a \o (b \o c)
<1> DEFINE l == (a \o b) \o c
           r == a \o (b \o c)
<1>1. /\ a \o b \in Seq(S) /\ Len(a \o b) = Len(a) + Len(b)
      /\ \A i \in 1..Len(a) + Len(b) : (a \o b)[i] = IF i <= Len(a) THEN a[i] ELSE b[i - Len(a)]
  BY ConcatProperties
<1>2. /\ b \o c \in Seq(S) /\ Len(b \o c) = Len(b) + Len(c)
      /\ \A i \in 1..Len(b) + Len(c) : (b \o c)[i] = IF i <= Len(b) THEN b[i] ELSE c[i - Len(b)]
  BY ConcatProperties
<1> DEFINE ab == a \o b
           bc == b \o c
<1> HIDE DEF ab, bc
<1>3. /\ ab \o c \in Seq(S) /\ Len(ab \o c) = Len(ab) + Len(c)
      /\ \A i \in 1..Len(ab) + Len(c) : (ab \o c)[i] = IF i <= Len(ab) THEN ab[i] ELSE c[i - Len(ab)]
  BY <1>1, ConcatProperties DEF ab
<1>4. /\ a \o bc \in Seq(S) /\ Len(a \o bc) = Len(a) + Len(bc)
      /\ \A i \in 1..Len(a) + Len(bc) : (a \o bc)[i] = IF i <= Len(a) THEN a[i] ELSE bc[i - Len(a)]
  BY <1>2, ConcatProperties DEF bc
<1>5. l \in Seq(S) /\ r \in Seq(S) /\ Len(l) = Len(r) /\ Len(l) = Len(a) + Len(b) + Len(c)
  BY <1>1, <1>2, <1>3, <1>4 DEF ab, bc
<1>6. ASSUME NEW i \in 1..Len(l) PROVE l[i] = r[i]
  <2>0. Len(a) \in Nat /\ Len(b) \in Nat /\ Len(c) \in Nat
    OBVIOUS
  <2>1. CASE i <= Len(a)
    BY <1>1, <1>2, <1>3, <1>4, <1>5, <2>0, <2>1 DEF ab, bc
  <2>2. CASE i > Len(a) /\ i <= Len(a) + Len(b)
    BY <1>1, <1>2, <1>3, <1>4, <1>5, <2>0, <2>2 DEF ab, bc
  <2>3. CASE i > Len(a) + Len(b)
    <3>1. l[i] = c[i - (Len(a) + Len(b))]
      BY <1>1, <1>3, <1>5, <2>0, <2>3 DEF ab
    <3>2. r[i] = bc[i - Len(a)]
      BY <1>2, <1>4, <1>5, <2>0, <2>3 DEF bc
    <3>3. bc[i - Len(a)] = c[(i - Len(a)) - Len(b)]
      BY <1>2, <1>5, <2>0, <2>3 DEF bc
    <3>4. i - (Len(a) + Len(b)) = (i - Len(a)) - Len(b)
      BY <1>5, <2>0
    <3> QED BY <3>1, <3>2, <3>3, <3>4
  <2> QED BY <1>5, <2>0, <2>1, <2>2, <2>3
<1> QED BY <1>5, <1>6, SeqEqual

LEMMA ServiceNames ==
  /\ Recreated = {"dns", "ipns", "websites", "workspaces", "ping", "dag"}
  /\ OnGenerated = {"dns", "ipns", "websites", "workspaces", "ping", "dag", "meta", "store"}
<1>1. DOMAIN Generated = 1..6
  BY DEF Generated
<1>2. 1..6 = {1, 2, 3, 4, 5, 6}
  OBVIOUS
<1>3. Recreated = {Generated[1], Generated[2], Generated[3], Generated[4], Generated[5],
                   Generated[6]}
  BY <1>1, <1>2 DEF Recreated
<1> QED BY <1>3 DEF Generated, OnGenerated


LEMMA PieceFacts ==
  /\ <<"bearer">> \in Seq(Parts) /\ Len(<<"bearer">>) = 1 /\ Within(<<"bearer">>) = {"bearer"}
  /\ <<"config">> \in Seq(Parts) /\ Len(<<"config">>) = 1 /\ Within(<<"config">>) = {"config"}
  /\ <<"gen">> \in Seq(Parts) /\ Len(<<"gen">>) = 1 /\ Within(<<"gen">>) = {"gen"}
  /\ <<"pinning">> \in Seq(Parts) /\ Len(<<"pinning">>) = 1 /\ Within(<<"pinning">>) = {"pinning"}
  /\ Generated \in Seq(Parts) /\ Len(Generated) = 6 /\ Within(Generated) = Recreated
  /\ UploadSetAuthToken \in Seq(Parts) /\ Len(UploadSetAuthToken) = 2
  /\ Within(UploadSetAuthToken) = {"upload", "uploadTransport"}
  /\ DownloadSetAuthToken \in Seq(Parts) /\ Len(DownloadSetAuthToken) = 4
  /\ Within(DownloadSetAuthToken) = {"download", "downloadTransport", "ownMeta", "ownStore"}
  /\ <<"meta", "store">> \in Seq(Parts) /\ Len(<<"meta", "store">>) = 2
  /\ Within(<<"meta", "store">>) = {"meta", "store"}
<1>1. 1..1 = {1} /\ 1..2 = {1, 2} /\ 1..4 = {1, 2, 3, 4} /\ 1..6 = {1, 2, 3, 4, 5, 6}
  OBVIOUS
<1>2. {"bearer", "config", "gen", "pinning", "upload", "uploadTransport", "download",
       "downloadTransport", "ownMeta", "ownStore", "dns", "ipns", "websites", "workspaces",
       "ping", "dag", "meta", "store"} = Parts
  BY ServiceNames DEF Parts, Rewiring, TokenOnly, Own
<1>3. Within(Generated) = Recreated
  BY DEF Within, Generated, Recreated
<1>4. Generated \in Seq(Parts) /\ Len(Generated) = 6
  BY <1>2 DEF Generated
<1>5. /\ DownloadSetAuthToken \in Seq(Parts) /\ Len(DownloadSetAuthToken) = 4
      /\ Within(DownloadSetAuthToken) = {"download", "downloadTransport", "ownMeta", "ownStore"}
  BY <1>1, <1>2 DEF Within, DownloadSetAuthToken
<1>6. /\ UploadSetAuthToken \in Seq(Parts) /\ Len(UploadSetAuthToken) = 2
      /\ Within(UploadSetAuthToken) = {"upload", "uploadTransport"}
  BY <1>1, <1>2 DEF Within, UploadSetAuthToken
<1>7. /\ <<"meta", "store">> \in Seq(Parts) /\ Len(<<"meta", "store">>) = 2
      /\ Within(<<"meta", "store">>) = {"meta", "store"}
  BY <1>1, <1>2 DEF Within
<1>8. ASSUME NEW p \in Parts
      PROVE  <<p>> \in Seq(Parts) /\ Len(<<p>>) = 1 /\ Within(<<p>>) = {p}
  BY <1>1 DEF Within
<1> QED BY <1>2, <1>3, <1>4, <1>5, <1>6, <1>7, <1>8

\* Pieces whose order among themselves does not matter.
LEMMA LoosePiece ==
  ASSUME NEW s \in Seq(Parts), NEW t,
         \A p \in Within(s) :
           Within(s) \union Within(t) \subseteq Follows(p) /\ Needs(p) \subseteq Within(t)
  PROVE  Leads(s, t)
<1>1. \A i \in 1..Len(s) : s[i] \in Within(s)
  BY DEF Within
<1>2. \A i \in 1..Len(s) : \A j \in i + 1..Len(s) : j \in 1..Len(s)
  OBVIOUS
<1> QED BY <1>1, <1>2 DEF Leads

LEMMA SinglePiece ==
  ASSUME NEW p \in Parts, NEW t, Within(t) \subseteq Follows(p), Needs(p) \subseteq Within(t)
  PROVE  Leads(<<p>>, t)
<1>1. <<p>> \in Seq(Parts) /\ Len(<<p>>) = 1 /\ <<p>>[1] = p
  OBVIOUS
<1>2. \A i \in 1..1 : i = 1 /\ i + 1..1 = {}
  OBVIOUS
<1> QED BY <1>1, <1>2 DEF Leads

LEMMA LastPiece ==
  Ordered(<<"meta", "store">>)
<1>1. /\ <<"meta", "store">> \in Seq(Parts) /\ Len(<<"meta", "store">>) = 2
  BY PieceFacts
<1>2. \A p \in {"meta", "store"} : Follows(p) = Rewiring /\ Needs(p) = {}
  BY DEF Follows, Needs, Own
<1>3. \A i \in 1..2 : <<"meta", "store">>[i] \in {"meta", "store"}
  OBVIOUS
<1>4. {"meta", "store"} \subseteq Rewiring
  BY DEF Rewiring, OnGenerated
<1>5. \A i \in 1..2 : \A j \in i + 1..2 : j \in 1..2
  OBVIOUS
<1> QED BY <1>1, <1>2, <1>3, <1>4, <1>5 DEF Ordered

\* What rebuildInternalGen and the short updates do, in which order.
LEMMA RebuildOrdered ==
  /\ Ordered(rebuildInternalGen)
  /\ Within(rebuildInternalGen) = {"gen"} \union OnGenerated
  /\ Len(rebuildInternalGen) = 9
<1> DEFINE meta == <<"meta", "store">>
           services == Generated \o meta
           all == <<"gen">> \o services
<1>1. meta \in Seq(Parts) /\ Len(meta) = 2 /\ Within(meta) = {"meta", "store"} /\ Ordered(meta)
  BY PieceFacts, LastPiece
<1>2. Generated \in Seq(Parts) /\ Len(Generated) = 6 /\ Within(Generated) = Recreated
  BY PieceFacts
<1>3. <<"gen">> \in Seq(Parts) /\ Len(<<"gen">>) = 1 /\ Within(<<"gen">>) = {"gen"}
  BY PieceFacts
<1>4. OnGenerated = Recreated \union {"meta", "store"} /\ OnGenerated \subseteq Rewiring
  BY DEF OnGenerated, Rewiring
<1> HIDE DEF meta
<1>5. Leads(Generated, meta)
  <2>1. \A p \in Recreated : Follows(p) = Rewiring /\ Needs(p) = {}
    BY ServiceNames DEF Follows, Needs, Own
  <2> QED BY <1>1, <1>2, <1>4, <2>1, LoosePiece
<1>6. Ordered(services) /\ Within(services) = OnGenerated /\ Len(services) = 8
  <2>1. Ordered(services) /\ Len(services) = Len(Generated) + Len(meta)
        /\ Within(services) = Within(Generated) \union Within(meta)
    BY <1>1, <1>5, OrderedConcat
  <2> QED BY <1>1, <1>2, <1>4, <2>1
<1> HIDE DEF services
<1>7. Leads(<<"gen">>, services)
  <2>1. Follows("gen") = Rewiring /\ Needs("gen") = OnGenerated /\ "gen" \in Parts
    BY DEF Follows, Needs, Own, Parts
  <2> QED BY <1>4, <1>6, <2>1, SinglePiece
<1>8. Ordered(all) /\ Within(all) = {"gen"} \union OnGenerated /\ Len(all) = 9
  <2>1. Ordered(all) /\ Len(all) = Len(<<"gen">>) + Len(services)
        /\ Within(all) = Within(<<"gen">>) \union Within(services)
    BY <1>6, <1>7, OrderedConcat
  <2> QED BY <1>3, <1>6, <2>1
<1>9. rebuildInternalGen = all
  BY <1>1, <1>2, <1>3, ConcatAssoc DEF rebuildInternalGen, services, meta
<1> QED BY <1>8, <1>9

LEMMA ShortOrdered ==
  ASSUME NEW p \in {"bearer", "config"}
  PROVE  /\ Ordered(<<p>> \o rebuildInternalGen)
         /\ Within(<<p>> \o rebuildInternalGen) = {p, "gen"} \union OnGenerated
         /\ Len(<<p>> \o rebuildInternalGen) = 10
<1>1. /\ {"gen"} \union OnGenerated \subseteq Follows(p) /\ Needs(p) = {"gen"} /\ p \in Parts
  BY DEF Follows, Needs, Own, Rewiring, Parts
<1>2. Leads(<<p>>, rebuildInternalGen)
  BY <1>1, RebuildOrdered, SinglePiece
<1>3. Len(<<p>>) = 1 /\ Within(<<p>>) = {p}
  BY PieceFacts
<1>4. {p, "gen"} \union OnGenerated = {p} \union ({"gen"} \union OnGenerated)
  OBVIOUS
<1>5. /\ Ordered(<<p>> \o rebuildInternalGen)
      /\ Within(<<p>> \o rebuildInternalGen) = Within(<<p>>) \union Within(rebuildInternalGen)
      /\ Len(<<p>> \o rebuildInternalGen) = Len(<<p>>) + Len(rebuildInternalGen)
  BY <1>2, RebuildOrdered, OrderedConcat
<1> QED BY <1>3, <1>4, <1>5, RebuildOrdered

\* SetAuthToken changes every part, and the metadata clients of the download
\* service once more at the end.
LEMMA SetAuthTokenOrdered ==
  /\ Ordered(SetAuthToken)
  /\ Within(SetAuthToken) = {"bearer", "gen"} \union Rewiring
  /\ Len(SetAuthToken) = 19
<1> DEFINE meta == <<"meta", "store">>
           a == DownloadSetAuthToken \o meta
           b == UploadSetAuthToken \o a
           c == <<"pinning">> \o b
           d == SetBearerToken \o c
<1>1. meta \in Seq(Parts) /\ Len(meta) = 2 /\ Within(meta) = {"meta", "store"} /\ Ordered(meta)
  BY PieceFacts, LastPiece
<1>2. /\ DownloadSetAuthToken \in Seq(Parts) /\ Len(DownloadSetAuthToken) = 4
      /\ Within(DownloadSetAuthToken) = {"download", "downloadTransport", "ownMeta", "ownStore"}
  BY PieceFacts
<1>3. /\ UploadSetAuthToken \in Seq(Parts) /\ Len(UploadSetAuthToken) = 2
      /\ Within(UploadSetAuthToken) = {"upload", "uploadTransport"}
  BY PieceFacts
<1>4. <<"pinning">> \in Seq(Parts) /\ Len(<<"pinning">>) = 1 /\ Within(<<"pinning">>) = {"pinning"}
  BY PieceFacts
<1>5. /\ SetBearerToken \in Seq(Parts) /\ Ordered(SetBearerToken) /\ Len(SetBearerToken) = 10
      /\ Within(SetBearerToken) = {"bearer", "gen"} \union OnGenerated
  BY ShortOrdered DEF SetBearerToken, Ordered
<1> HIDE DEF meta
<1>6. Leads(DownloadSetAuthToken, meta)
  <2> DEFINE e == DownloadSetAuthToken
  <2>1. 1..4 = {1, 2, 3, 4} /\ 1 + 1..4 = {2, 3, 4} /\ 2 + 1..4 = {3, 4} /\ 3 + 1..4 = {4}
        /\ 4 + 1..4 = {}
    OBVIOUS
  <2>2. e[1] = "download" /\ e[2] = "downloadTransport" /\ e[3] = "ownMeta" /\ e[4] = "ownStore"
    BY DEF DownloadSetAuthToken
  <2>3. /\ Follows("download") = Rewiring /\ Follows("downloadTransport") = Rewiring
        /\ Follows("ownMeta") = OnGenerated \union Own
        /\ Follows("ownStore") = OnGenerated \union Own
        /\ Needs("download") = {} /\ Needs("downloadTransport") = {}
        /\ Needs("ownMeta") = {"meta"} /\ Needs("ownStore") = {"store"}
    BY ServiceNames DEF Follows, Needs, Own
  <2>4. /\ "downloadTransport" \in Rewiring
        /\ {"ownMeta", "ownStore", "meta", "store"} \subseteq Rewiring
        /\ {"ownStore", "meta", "store"} \subseteq OnGenerated \union Own
    BY DEF Rewiring, TokenOnly, Own, OnGenerated
  <2> HIDE DEF e
  <2>5. \A i \in 1..4 : \A j \in i + 1..4 : e[j] \in Follows(e[i])
    BY <2>1, <2>2, <2>3, <2>4
  <2>6. \A i \in 1..4 : Needs(e[i]) \subseteq {"meta", "store"}
    BY <2>1, <2>2, <2>3
  <2>7. \A i \in 1..4 : {"meta", "store"} \subseteq Follows(e[i])
    BY <2>1, <2>2, <2>3, <2>4
  <2> QED BY <1>1, <1>2, <2>5, <2>6, <2>7 DEF Leads, e
<1>7. /\ Ordered(a) /\ Len(a) = 6
      /\ Within(a) = {"download", "downloadTransport", "ownMeta", "ownStore", "meta", "store"}
  <2>1. Ordered(a) /\ Len(a) = 4 + 2
        /\ Within(a) = Within(DownloadSetAuthToken) \union Within(meta)
    BY <1>1, <1>2, <1>6, OrderedConcat
  <2> QED BY <1>1, <1>2, <2>1
<1> HIDE DEF a
<1>8. Leads(UploadSetAuthToken, a)
  <2>1. \A p \in {"upload", "uploadTransport"} : Follows(p) = Rewiring /\ Needs(p) = {}
    BY ServiceNames DEF Follows, Needs, Own
  <2>2. {"upload", "uploadTransport"} \union Within(a) \subseteq Rewiring
    BY <1>7 DEF Rewiring, TokenOnly, Own, OnGenerated
  <2> QED BY <1>3, <2>1, <2>2, LoosePiece
<1>9. /\ Ordered(b) /\ Len(b) = 8
      /\ Within(b) = {"upload", "uploadTransport"} \union Within(a)
  <2>1. Ordered(b) /\ Len(b) = Len(UploadSetAuthToken) + Len(a)
        /\ Within(b) = Within(UploadSetAuthToken) \union Within(a)
    BY <1>7, <1>8, OrderedConcat
  <2> QED BY <1>3, <1>7, <2>1
<1> HIDE DEF b
<1>10. Leads(<<"pinning">>, b)
  <2>1. Follows("pinning") = Rewiring /\ Needs("pinning") = {} /\ "pinning" \in Parts
    BY ServiceNames DEF Follows, Needs, Own, Parts, Rewiring, TokenOnly
  <2>2. Within(b) \subseteq Rewiring
    BY <1>7, <1>9 DEF Rewiring, TokenOnly, Own, OnGenerated
  <2> QED BY <2>1, <2>2, SinglePiece
<1>11. Ordered(c) /\ Len(c) = 9 /\ Within(c) = TokenOnly \union {"meta", "store"}
  <2>1. Ordered(c) /\ Len(c) = 1 + 8 /\ Within(c) = {"pinning"} \union Within(b)
    BY <1>4, <1>9, <1>10, OrderedConcat
  <2> QED BY <1>7, <1>9, <2>1 DEF TokenOnly, Own
<1>12. c \in Seq(Parts) /\ b \in Seq(Parts) /\ a \in Seq(Parts)
  BY <1>7, <1>9, <1>11 DEF Ordered
<1>13. Within(c) \subseteq Rewiring
  BY <1>11 DEF Rewiring, OnGenerated
<1> HIDE DEF c
<1>14. Leads(SetBearerToken, c)
  <2>1. ASSUME NEW p \in {"bearer", "gen"} \union OnGenerated
        PROVE  Rewiring \subseteq Follows(p)
    BY ServiceNames DEF Follows, Own
  <2>2. \A i \in 1..Len(SetBearerToken) : SetBearerToken[i] \in {"bearer", "gen"} \union OnGenerated
    BY <1>5 DEF Within
  <2> QED BY <1>5, <1>13, <2>1, <2>2 DEF Leads, Ordered
<1>15. Ordered(d) /\ Len(d) = 19 /\ Within(d) = {"bearer", "gen"} \union Rewiring
  <2>1. Ordered(d) /\ Len(d) = 10 + 9
        /\ Within(d) = ({"bearer", "gen"} \union OnGenerated) \union Within(c)
    BY <1>5, <1>11, <1>14, OrderedConcat
  <2>2. ({"bearer", "gen"} \union OnGenerated) \union Within(c) = {"bearer", "gen"} \union Rewiring
    BY <1>11 DEF Rewiring, OnGenerated
  <2> QED BY <2>1, <2>2
<1>16. SetAuthToken = d
  <2> DEFINE B == SetBearerToken
             P == <<"pinning">>
             U == UploadSetAuthToken
             D == DownloadSetAuthToken
  <2>1. B \in Seq(Parts) /\ P \in Seq(Parts) /\ U \in Seq(Parts) /\ D \in Seq(Parts)
        /\ meta \in Seq(Parts)
    BY <1>1, <1>2, <1>3, <1>4, <1>5
  <2>2. SetAuthToken = (((B \o P) \o U) \o D) \o meta
    BY DEF SetAuthToken, meta
  <2> DEFINE Q == Seq(Parts)
             Cat(x, y) == x \o y
  <2>3. \A x, y \in Q : Cat(x, y) \in Q
    BY ConcatProperties
  <2>4. \A x, y, z \in Q : Cat(Cat(x, y), z) = Cat(x, Cat(y, z))
    BY ConcatAssoc
  <2>5. B \in Q /\ P \in Q /\ U \in Q /\ D \in Q /\ meta \in Q
    BY <2>1
  <2>6. /\ SetAuthToken = Cat(Cat(Cat(Cat(B, P), U), D), meta)
        /\ d = Cat(B, Cat(P, Cat(U, Cat(D, meta))))
    BY <2>2 DEF a, b, c
  <2> HIDE DEF B, P, U, D, Q, Cat
  <2>7. Cat(Cat(Cat(Cat(B, P), U), D), meta) = Cat(B, Cat(P, Cat(U, Cat(D, meta))))
    <3>1. Cat(B, P) \in Q /\ Cat(D, meta) \in Q
      BY <2>3, <2>5
    <3>2. Cat(Cat(B, P), U) \in Q /\ Cat(U, Cat(D, meta)) \in Q
      BY <2>3, <2>5, <3>1
    <3>3. Cat(Cat(Cat(Cat(B, P), U), D), meta) = Cat(Cat(Cat(B, P), U), Cat(D, meta))
      BY <2>4, <2>5, <3>2
    <3>4. Cat(Cat(Cat(B, P), U), Cat(D, meta)) = Cat(Cat(B, P), Cat(U, Cat(D, meta)))
      BY <2>4, <2>5, <3>1
    <3>5. Cat(Cat(B, P), Cat(U, Cat(D, meta))) = Cat(B, Cat(P, Cat(U, Cat(D, meta))))
      BY <2>4, <2>5, <3>2
    <3> QED BY <3>3, <3>4, <3>5
  <2> QED BY <2>6, <2>7
<1> QED BY <1>15, <1>16
-----------------------------------------------------------------------------
(* The invariant. *)

Left == Within(todo)
Fields == {"pinning", "upload", "download"}
Carriers == {"upload", "download"}

\* The steps left are in order and for the services the update is for; a new
\* configuration fits the bound.
StepsLeft ==
  /\ Ordered(todo)
  /\ Left \intersect TokenOnly # {} => scope = Services
  /\ scope = Services \/ scope \subseteq OnGenerated
  /\ "config" \in Left => config < MaxConfig

\* What no step left will change has the update's token and configuration.
Changed ==
  /\ "bearer" \notin Left => bearer = token
  /\ "gen" \notin Left => gen.token = token /\ gen.config = config
  /\ \A s \in OnGenerated \ Left : service[s].token = token /\ service[s].config = config
  /\ scope = Services =>
       /\ \A s \in Fields \ Left : field[s] = token
       /\ \A s \in Carriers : LockOf(s) \notin Left => transport[s] = token

\* No part is ahead of the update.
Bounded ==
  /\ \A s \in OnGenerated : service[s].token <= token /\ service[s].config <= config
  /\ \A s \in Fields : field[s] <= token
  /\ \A s \in Carriers : transport[s] <= token

\* A metadata client of the download service's own goes through a round tripper
\* that is not behind it.
Owned ==
  /\ gen.own = FALSE
  /\ \A s \in OnGenerated : service[s].own => service[s].token <= transport["download"]

\* Service s has token t and configuration c, or newer ones.
Backs(s, t, c) ==
  /\ t <= token /\ c <= config
  /\ s \in OnGenerated => t <= service[s].token
  /\ s \in Recreated => c <= service[s].config
  /\ s \notin OnGenerated => c = 0
  /\ s \in Fields => t <= field[s]
  /\ s \in Carriers => t <= transport[s]

\* What finished updates have promised is kept, whatever is under way.
Kept == \A s \in Services : Backs(s, promise[s].token, promise[s].config)

\* What is due to a user's request.
Due(u) == IF uses[u] \in Recreated THEN obtained[u] ELSE begun[u]

\* A user holds a service that backs what was due when it got it.
Holds(u) ==
  /\ pc[u] # "idle" => uses[u] \in Services
  /\ pc[u] # "idle" /\ uses[u] \in Recreated =>
       obtained[u].token <= client[u].token /\ obtained[u].config <= client[u].config
  /\ client[u].own => uses[u] \in OnGenerated /\ client[u].token <= transport["download"]

\* A request on its way has what is due, or passes a round tripper that has it.
Carries(u) ==
  /\ pc[u] = "made" =>
       /\ uses[u] # "download" => Due(u).token <= header[u].token
       /\ Through(u) # "none" => Due(u).token <= transport[Through(u)]
       /\ calm[u] => Due(u).config <= header[u].config
  /\ pc[u] = "sent" =>
       /\ Due(u).token <= header[u].token
       /\ calm[u] => Due(u).config <= header[u].config

Served == \A u \in Users : Holds(u) /\ Carries(u)

IInv == TypeOK /\ StepsLeft /\ Changed /\ Bounded /\ Owned /\ Kept /\ Served

LEMMA NoSteps == Within(<<>>) = {} /\ Ordered(<<>>)
  BY DEF Within, Ordered

LEMMA IdleDone == ASSUME ~Updating PROVE Left = {}
  BY NoSteps DEF Updating, Left

LEMMA ServiceKinds ==
  /\ Services = OnGenerated \union Fields
  /\ Recreated \subseteq OnGenerated /\ Carriers \subseteq Fields
  /\ OnGenerated \intersect Fields = {}
  /\ Services # OnGenerated /\ "none" \notin Services
  /\ "meta" \in OnGenerated /\ "store" \in OnGenerated
  /\ "meta" \notin Recreated /\ "store" \notin Recreated
  /\ OnGenerated = Recreated \union {"meta", "store"}
  BY ServiceNames DEF Services, Fields, Carriers, OnGenerated

LEMMA UpdateLengths ==
  /\ Len(SetAuthToken) = 19 /\ Len(SetBearerToken) = 10 /\ Len(SetHTTPClient) = 10
  /\ Len(SetBaseURL) = 10
  BY SetAuthTokenOrdered, ShortOrdered DEF SetBearerToken, SetHTTPClient, SetBaseURL

LEMMA InitInv == Init => IInv
<1> SUFFICES ASSUME Init PROVE IInv
  OBVIOUS
<1> USE BoundsAssumption
<1>1. token \in Tokens /\ token \in Nat /\ 0 \in Tokens /\ 0 \in Configs
  BY DEF Init, Tokens, Configs
<1>2. /\ bearer = token /\ config = 0 /\ gen = [token |-> token, config |-> 0, own |-> FALSE]
      /\ service = [s \in OnGenerated |-> gen]
      /\ field = [s \in Fields |-> token] /\ transport = [s \in Carriers |-> token]
  BY DEF Init, NewClient, Fresh, Fields, Carriers
<1>3. /\ todo = <<>> /\ scope = {}
      /\ promise = [s \in Services |-> [token |-> 0, config |-> 0]]
      /\ pc = [u \in Users |-> "idle"] /\ uses = [u \in Users |-> "none"]
      /\ client = [u \in Users |-> [token |-> 0, config |-> 0, own |-> FALSE]]
      /\ header = [u \in Users |-> [token |-> 0, config |-> 0]]
      /\ obtained = [u \in Users |-> [token |-> 0, config |-> 0]]
      /\ begun = [u \in Users |-> [token |-> 0, config |-> 0]]
      /\ calm = [u \in Users |-> FALSE]
  BY DEF Init, Nothing, Fresh
<1>4. /\ gen \in Clients /\ [token |-> 0, config |-> 0, own |-> FALSE] \in Clients
  BY <1>1, <1>2 DEF Clients
<1>5. TypeOK
  <2>1. Len(todo) <= Len(IF scope = Services THEN SetAuthToken ELSE SetBearerToken)
    BY <1>3, UpdateLengths
  <2> QED BY <1>1, <1>2, <1>3, <1>4, <2>1 DEF TypeOK, Fields, Carriers
<1>6. StepsLeft
  BY <1>3, NoSteps DEF StepsLeft, Left
<1>7. Changed
  BY <1>2, <1>3, ServiceKinds DEF Changed
<1>8. Bounded /\ Owned
  BY <1>1, <1>2 DEF Bounded, Owned
<1>9. Kept
  BY <1>1, <1>2, <1>3, ServiceKinds DEF Kept, Backs
<1>10. Served
  BY <1>3 DEF Served, Holds, Carries
<1> QED BY <1>5, <1>6, <1>7, <1>8, <1>9, <1>10 DEF IInv

-----------------------------------------------------------------------------
(* An update's steps. *)

\* The parts only get newer.
Grows ==
  /\ token <= token' /\ config <= config'
  /\ \A s \in OnGenerated : service[s].token <= service'[s].token
  /\ \A s \in Recreated : service[s].config <= service'[s].config
  /\ \A s \in Fields : field[s] <= field'[s]
  /\ \A s \in Carriers : transport[s] <= transport'[s]

LEMMA BacksGrow ==
  ASSUME TypeOK, TypeOK', Grows, NEW s \in Services, NEW t \in Nat, NEW c \in Nat, Backs(s, t, c)
  PROVE  Backs(s, t, c)'
<1>1. /\ token \in Nat /\ token' \in Nat /\ config \in Nat /\ config' \in Nat
      /\ \A r \in OnGenerated : service[r].token \in Nat /\ service'[r].token \in Nat
                                /\ service[r].config \in Nat /\ service'[r].config \in Nat
      /\ \A r \in Fields : field[r] \in Nat /\ field'[r] \in Nat
      /\ \A r \in Carriers : transport[r] \in Nat /\ transport'[r] \in Nat
  <2>1. Tokens \subseteq Nat /\ Configs \subseteq Nat
    BY BoundsAssumption DEF Tokens, Configs
  <2>2. \A x \in Clients : x.token \in Nat /\ x.config \in Nat
    BY <2>1 DEF Clients
  <2>3. token \in Nat /\ token' \in Nat /\ config \in Nat /\ config' \in Nat
    BY <2>1 DEF TypeOK
  <2>4. /\ service \in [OnGenerated -> Clients] /\ service' \in [OnGenerated -> Clients]
        /\ field \in [Fields -> Tokens] /\ field' \in [Fields -> Tokens]
        /\ transport \in [Carriers -> Tokens] /\ transport' \in [Carriers -> Tokens]
    BY DEF TypeOK, Fields, Carriers
  <2> QED BY <2>1, <2>2, <2>3, <2>4
<1>2. Recreated \subseteq OnGenerated
  BY ServiceKinds
<1> QED BY <1>1, <1>2 DEF Backs, Grows

LEMMA UsersKeep ==
  ASSUME TypeOK, TypeOK', Served, Grows, UNCHANGED userVars
  PROVE  Served'
<1> SUFFICES ASSUME NEW u \in Users PROVE (Holds(u) /\ Carries(u))'
  BY DEF Served
<1>1. Holds(u) /\ Carries(u)
  BY DEF Served
<1>2. /\ pc' = pc /\ uses' = uses /\ client' = client /\ header' = header
      /\ obtained' = obtained /\ begun' = begun /\ calm' = calm
  BY DEF userVars
<1>3. /\ transport["download"] \in Nat /\ transport'["download"] \in Nat
      /\ transport["upload"] \in Nat /\ transport'["upload"] \in Nat
      /\ client[u].token \in Nat /\ Due(u).token \in Nat
  <2>1. Tokens \subseteq Nat
    BY BoundsAssumption DEF Tokens
  <2>2. /\ transport \in [Carriers -> Tokens] /\ transport' \in [Carriers -> Tokens]
        /\ "upload" \in Carriers /\ "download" \in Carriers
    BY DEF TypeOK, Carriers
  <2>3. client[u] \in Clients /\ obtained[u].token \in Tokens /\ begun[u].token \in Tokens
    BY DEF TypeOK
  <2>4. client[u].token \in Tokens
    BY <2>3 DEF Clients
  <2> QED BY <2>1, <2>2, <2>3, <2>4 DEF Due
<1>4. /\ transport["download"] <= transport'["download"]
      /\ transport["upload"] <= transport'["upload"]
  BY DEF Grows, Carriers
<1>5. Holds(u)'
  BY <1>1, <1>2, <1>3, <1>4 DEF Holds
<1>6. Due(u)' = Due(u) /\ Through(u)' = Through(u)
  BY <1>2 DEF Due, Through
<1>7. Through(u) \in {"upload", "download", "none"}
  BY DEF Through
<1>8. Through(u) # "none" => transport[Through(u)] <= transport'[Through(u)]
                             /\ transport[Through(u)] \in Nat /\ transport'[Through(u)] \in Nat
  BY <1>3, <1>4, <1>7
<1>9. Carries(u)'
  BY <1>1, <1>2, <1>3, <1>6, <1>8 DEF Carries
<1> QED BY <1>5, <1>9

\* What every step of an update does to the steps left and to the promises.
LEMMA StepFacts ==
  ASSUME IInv, NEW p, Step(p)
  PROVE  /\ p \in Parts /\ Ordered(todo)' /\ Len(todo') = Len(todo) - 1
         /\ Left = {p} \union Left' /\ Left' \subseteq Follows(p) /\ Needs(p) \subseteq Left'
         /\ todo # <<>> /\ UNCHANGED <<token, scope, userVars>>
         /\ \A s \in Services :
              \/ promise'[s] = promise[s]
              \/ /\ Left' = {} /\ s \in scope
                 /\ promise'[s] = [token  |-> token,
                                   config |-> IF s \in OnGenerated THEN config ELSE 0]
         /\ promise' \in [Services -> [token : Tokens, config : Configs]]
<1>1. todo # <<>> /\ Head(todo) = p /\ todo' = Tail(todo) /\ UNCHANGED <<token, scope, userVars>>
  BY DEF Step, Updating
<1>2. Ordered(todo)
  BY DEF IInv, StepsLeft
<1>3. /\ p \in Parts /\ Ordered(todo') /\ Len(todo') = Len(todo) - 1
      /\ Left = {p} \union Within(todo') /\ Within(todo') \subseteq Follows(p)
      /\ Needs(p) \subseteq Within(todo')
  BY <1>1, <1>2, OrderedTail DEF Left
<1>4. Left' = Within(todo')
  BY DEF Left
<1>5. Len(todo) \in Nat
  BY <1>2 DEF Ordered
<1>6. CASE Len(todo) > 1
  <2>1. promise' = promise
    BY <1>6 DEF Step
  <2> QED BY <1>1, <1>3, <1>4, <2>1 DEF IInv, TypeOK
<1>7. CASE ~(Len(todo) > 1)
  <2>1. promise' = [s \in Services |->
                      IF s \in scope
                        THEN [token  |-> token,
                              config |-> IF s \in OnGenerated THEN config ELSE 0]
                        ELSE promise[s]]
    BY <1>7 DEF Step
  <2>2. todo' \in Seq(Parts) /\ Len(todo') \in Nat
    BY <1>3 DEF Ordered
  <2>3. Len(todo') = 0
    BY <1>3, <1>5, <1>7, <2>2
  <2>4. Left' = {}
    BY <1>4, <2>3 DEF Within
  <2>5. promise' \in [Services -> [token : Tokens, config : Configs]]
    BY <2>1, BoundsAssumption DEF IInv, TypeOK, Configs
  <2> QED BY <1>1, <1>3, <1>4, <2>1, <2>4, <2>5
<1> QED BY <1>6, <1>7

\* A step keeps the invariant if it leaves what it has changed up to date and
\* makes nothing older.
LEMMA StepKeeps ==
  ASSUME IInv, NEW p, Step(p), Grows, Changed', Bounded', Owned',
         bearer' \in Tokens /\ config' \in Configs /\ gen' \in Clients,
         service' \in [OnGenerated -> Clients] /\ field' \in [Fields -> Tokens],
         transport' \in [Carriers -> Tokens],
         config' # config => p = "config"
  PROVE  IInv'
<1>1. TypeOK'
  <2>1. /\ Len(todo') = Len(todo) - 1 /\ todo \in Seq(Parts) /\ UNCHANGED <<token, scope, userVars>>
    BY StepFacts DEF IInv, StepsLeft, Ordered
  <2>2. Len(todo') <= Len(IF scope' = Services THEN SetAuthToken ELSE SetBearerToken)
    BY <2>1, UpdateLengths DEF IInv, TypeOK
  <2>3. UNCHANGED <<pc, uses, client, header, obtained, begun, calm, token, scope>>
    BY <2>1 DEF userVars
  <2>4. promise' \in [Services -> [token : Tokens, config : Configs]]
    BY StepFacts
  <2> QED BY <2>2, <2>3, <2>4 DEF IInv, TypeOK, Fields, Carriers
<1>2. StepsLeft'
  <2>1. Ordered(todo)' /\ Left' \subseteq Left /\ UNCHANGED scope
    BY StepFacts
  <2>2. "config" \in Left' => config' < MaxConfig
    <3>1. CASE p = "config"
      <4>1. "config" \notin Follows(p)
        BY <3>1, ServiceNames DEF Follows, Own, Rewiring, TokenOnly
      <4> QED BY <4>1, StepFacts
    <3>2. CASE p # "config"
      BY <2>1, <3>2 DEF IInv, StepsLeft
    <3> QED BY <3>1, <3>2
  <2> QED BY <2>1, <2>2 DEF IInv, StepsLeft
<1>3. Kept'
  <2> SUFFICES ASSUME NEW s \in Services
               PROVE  Backs(s, promise[s].token, promise[s].config)'
    BY DEF Kept
  <2>1. promise[s].token \in Nat /\ promise[s].config \in Nat
    BY BoundsAssumption DEF IInv, TypeOK, Tokens, Configs
  <2>2. CASE promise'[s] = promise[s]
    <3>1. PICK t, c : t = promise[s].token /\ c = promise[s].config
      OBVIOUS
    <3>2. Backs(s, t, c)
      BY <3>1 DEF IInv, Kept
    <3>3. Backs(s, t, c)'
      BY <1>1, <2>1, <3>1, <3>2, BacksGrow DEF IInv
    <3> QED BY <2>2, <3>1, <3>3 DEF Backs
  <2>3. CASE /\ Left' = {} /\ s \in scope
             /\ promise'[s] = [token  |-> token,
                               config |-> IF s \in OnGenerated THEN config ELSE 0]
    <3>1. /\ promise'[s].token = token /\ token' = token /\ scope' = scope
          /\ promise'[s].config = IF s \in OnGenerated THEN config ELSE 0
      BY <2>3, StepFacts
    <3>2. token \in Nat /\ config \in Nat /\ config' \in Nat /\ config <= config'
      BY BoundsAssumption DEF IInv, TypeOK, Tokens, Configs, Grows
    <3>3. CASE s \in OnGenerated
      <4>1. s \notin Fields /\ s \notin Carriers
        BY <3>3, ServiceKinds
      <4>2. service'[s].token = token /\ service'[s].config = config'
        BY <2>3, <3>1, <3>3 DEF Changed
      <4> QED BY <3>1, <3>2, <3>3, <4>1, <4>2 DEF Backs
    <3>4. CASE s \notin OnGenerated
      <4>1. scope = Services /\ s \in Fields /\ s \notin Recreated
        BY <2>3, <3>4, ServiceKinds DEF IInv, StepsLeft
      <4>2. field'[s] = token
        BY <2>3, <3>1, <4>1 DEF Changed
      <4>3. s \in Carriers => transport'[s] = token
        BY <2>3, <3>1, <4>1 DEF Changed
      <4> QED BY <3>1, <3>2, <3>4, <4>1, <4>2, <4>3 DEF Backs
    <3> QED BY <3>3, <3>4
  <2> QED BY <2>2, <2>3, StepFacts
<1>4. Served'
  BY <1>1, StepFacts, UsersKeep DEF IInv
<1> QED BY <1>1, <1>2, <1>3, <1>4 DEF IInv
LEMMA OrderedNeeds ==
  ASSUME NEW s, Ordered(s), NEW p \in Within(s)
  PROVE  Needs(p) \subseteq Within(s)
<1>1. PICK i \in 1..Len(s) : s[i] = p
  BY DEF Within
<1>2. \A j \in i + 1..Len(s) : j \in 1..Len(s)
  OBVIOUS
<1> QED BY <1>1, <1>2 DEF Ordered, Within

LEMMA AdvanceInv ==
  ASSUME IInv, Advance
  PROVE  IInv'
<1>1. /\ Tokens \subseteq Nat /\ Configs \subseteq Nat
      /\ \A x \in Clients : x.token \in Nat /\ x.config \in Nat /\ x.own \in BOOLEAN
  BY BoundsAssumption DEF Tokens, Configs, Clients
<1>2. /\ token \in Tokens /\ bearer \in Tokens /\ config \in Configs /\ gen \in Clients
      /\ service \in [OnGenerated -> Clients] /\ field \in [Fields -> Tokens]
      /\ transport \in [Carriers -> Tokens]
  BY DEF IInv, TypeOK, Fields, Carriers
<1>3. /\ \A s \in OnGenerated : service[s].token \in Nat /\ service[s].config \in Nat
      /\ \A s \in Fields : field[s] \in Nat
      /\ \A s \in Carriers : transport[s] \in Nat
      /\ token \in Nat /\ config \in Nat
  BY <1>1, <1>2
<1>4. Recreated \subseteq OnGenerated /\ "download" \in Carriers
  BY ServiceKinds DEF Carriers
<1>5. CASE SetBearer
  <2>1. /\ Step("bearer") /\ bearer' = token
        /\ UNCHANGED <<config, gen, service, field, transport>>
    BY <1>5 DEF SetBearer
  <2>2. /\ Left = {"bearer"} \union Left' /\ "gen" \in Left' /\ UNCHANGED <<token, scope>>
    BY <2>1, StepFacts DEF Needs
  <2>3. OnGenerated \ Left' = OnGenerated \ Left /\ Fields \ Left' = Fields \ Left
        /\ \A s \in Carriers : LockOf(s) # "bearer"
    BY <2>2, ServiceNames DEF Fields, Carriers, LockOf
  <2>4. Changed'
    BY <2>1, <2>2, <2>3 DEF IInv, Changed, LockOf
  <2>5. Grows
    BY <1>3, <1>4, <2>1, <2>2 DEF Grows
  <2>6. Bounded' /\ Owned'
    BY <2>1, <2>2 DEF IInv, Bounded, Owned
  <2> QED BY <1>2, <2>1, <2>4, <2>5, <2>6, StepKeeps
<1>6. CASE SetConfig
  <2>1. /\ Step("config") /\ config' = config + 1
        /\ UNCHANGED <<bearer, gen, service, field, transport>>
    BY <1>6 DEF SetConfig
  <2>2. /\ Left = {"config"} \union Left' /\ "gen" \in Left' /\ UNCHANGED <<token, scope>>
    BY <2>1, StepFacts DEF Needs
  <2>3. OnGenerated \subseteq Left'
    <3>1. Ordered(todo') /\ "gen" \in Within(todo')
      BY <2>1, <2>2, StepFacts DEF Left, Ordered
    <3>2. Needs("gen") = OnGenerated
      BY DEF Needs
    <3> QED BY <3>1, <3>2, OrderedNeeds DEF Left
  <2>4. Fields \ Left' = Fields \ Left /\ \A s \in Carriers : LockOf(s) # "config"
    BY <2>2 DEF Fields, LockOf
  <2>5. "bearer" \notin Left' => "bearer" \notin Left
    BY <2>2
  <2>6. Changed'
    BY <2>1, <2>2, <2>3, <2>4, <2>5 DEF IInv, Changed, LockOf
  <2>7. "config" \in Left /\ config < MaxConfig
    BY <2>2 DEF IInv, StepsLeft
  <2>8. config' \in Configs /\ config <= config'
    BY <1>2, <1>3, <2>1, <2>7, BoundsAssumption DEF Configs
  <2>9. Grows
    BY <1>3, <1>4, <2>1, <2>2, <2>8 DEF Grows
  <2>10. Bounded' /\ Owned'
    BY <1>3, <2>1, <2>2 DEF IInv, Bounded, Owned
  <2> QED BY <1>2, <2>1, <2>6, <2>8, <2>9, <2>10, StepKeeps
<1>7. CASE NewInternalGen
  <2>1. /\ Step("gen") /\ gen' = [token |-> bearer, config |-> config, own |-> FALSE]
        /\ UNCHANGED <<bearer, config, service, field, transport>>
    BY <1>7 DEF NewInternalGen
  <2>2. /\ Left = {"gen"} \union Left' /\ OnGenerated \subseteq Left' /\ Left' \subseteq Rewiring
        /\ UNCHANGED <<token, scope>>
    BY <2>1, StepFacts, ServiceNames DEF Needs, Follows, Own
  <2>3. "bearer" \notin Left
    BY <2>2, ServiceNames DEF Rewiring, TokenOnly, Own
  <2>4. bearer = token
    BY <2>3 DEF IInv, Changed
  <2>5. Fields \ Left' = Fields \ Left /\ \A s \in Carriers : LockOf(s) # "gen"
    BY <2>2 DEF Fields, LockOf
  <2>6. Changed'
    BY <2>1, <2>2, <2>4, <2>5 DEF IInv, Changed, LockOf
  <2>7. gen' \in Clients
    BY <1>2, <2>1 DEF Clients
  <2>8. Grows
    BY <1>3, <1>4, <2>1, <2>2 DEF Grows
  <2>9. Bounded' /\ Owned'
    BY <2>1, <2>2 DEF IInv, Bounded, Owned
  <2> QED BY <1>2, <2>1, <2>6, <2>7, <2>8, <2>9, StepKeeps
<1>8. CASE Rewire
  <2>1. PICK s \in OnGenerated : Step(s) /\ service' = [service EXCEPT ![s] = gen]
    BY <1>8 DEF Rewire
  <2>2. UNCHANGED <<bearer, config, gen, field, transport>>
    BY <1>8 DEF Rewire
  <2>3. /\ Left = {s} \union Left' /\ Left' \subseteq Rewiring /\ UNCHANGED <<token, scope>>
    BY <2>1, StepFacts, ServiceNames DEF Follows, Own
  <2>4. "gen" \notin Left /\ "bearer" \notin Left
    BY <2>3, ServiceNames DEF Rewiring, TokenOnly, Own
  <2>5. gen.token = token /\ gen.config = config /\ gen.own = FALSE
    BY <2>4 DEF IInv, Changed, Owned
  <2>6. /\ service'[s] = gen /\ \A r \in OnGenerated : r # s => service'[r] = service[r]
        /\ service' \in [OnGenerated -> Clients]
    BY <1>2, <2>1
  <2>7. /\ Fields \ Left' = Fields \ Left /\ \A r \in Carriers : LockOf(r) # s
    BY <2>3, ServiceNames DEF Fields, LockOf
  <2>8. Changed'
    <3>1. \A r \in OnGenerated \ Left' : service'[r].token = token' /\ service'[r].config = config'
      BY <2>2, <2>3, <2>5, <2>6 DEF IInv, Changed
    <3>2. scope = Services =>
            /\ \A r \in Fields \ Left' : field'[r] = token
            /\ \A r \in Carriers : LockOf(r) \notin Left' => transport'[r] = token
      BY <2>2, <2>3, <2>7 DEF IInv, Changed
    <3>3. bearer = token
      BY <2>4 DEF IInv, Changed
    <3> QED BY <2>2, <2>3, <2>5, <3>1, <3>2, <3>3 DEF Changed, LockOf
  <2>9. Bounded'
    BY <1>3, <2>2, <2>3, <2>5, <2>6 DEF IInv, Bounded
  <2>10. Owned'
    BY <2>2, <2>5, <2>6 DEF IInv, Owned
  <2>11. Grows
    BY <1>3, <1>4, <2>2, <2>3, <2>5, <2>6 DEF IInv, Bounded, Grows
  <2> QED BY <1>2, <2>1, <2>2, <2>6, <2>8, <2>9, <2>10, <2>11, StepKeeps
<1>9. CASE SetField
  <2>1. PICK s \in Fields : Step(s) /\ field' = [field EXCEPT ![s] = token]
    BY <1>9 DEF SetField, Fields
  <2>2. UNCHANGED <<bearer, config, gen, service, transport>>
    BY <1>9 DEF SetField
  <2>3. /\ Left = {s} \union Left' /\ UNCHANGED <<token, scope>>
    BY <2>1, StepFacts
  <2>4. /\ field'[s] = token /\ \A r \in Fields : r # s => field'[r] = field[r]
        /\ field' \in [Fields -> Tokens]
    BY <1>2, <2>1
  <2>5. /\ s \notin {"bearer", "gen"} /\ s \notin OnGenerated
        /\ \A r \in Carriers : LockOf(r) # s
    BY ServiceNames DEF Fields, LockOf
  <2>6. Changed'
    <3>1. scope = Services =>
            /\ \A r \in Fields \ Left' : field'[r] = token
            /\ \A r \in Carriers : LockOf(r) \notin Left' => transport'[r] = token
      BY <2>2, <2>3, <2>4, <2>5 DEF IInv, Changed
    <3>2. /\ OnGenerated \ Left' = OnGenerated \ Left
          /\ "bearer" \in Left' <=> "bearer" \in Left
          /\ "gen" \in Left' <=> "gen" \in Left
      BY <2>3, <2>5
    <3> QED BY <2>2, <2>3, <3>1, <3>2 DEF IInv, Changed, LockOf
  <2>7. Bounded' /\ Owned'
    BY <1>3, <2>2, <2>3, <2>4 DEF IInv, Bounded, Owned
  <2>8. Grows
    BY <1>3, <1>4, <2>2, <2>3, <2>4 DEF IInv, Bounded, Grows
  <2> QED BY <1>2, <2>1, <2>2, <2>4, <2>6, <2>7, <2>8, StepKeeps, ServiceKinds
<1>10. CASE RebuildBlockMeta
  <2>1. PICK p \in Own, s \in {"meta", "store"} :
          /\ Step(p) /\ Needs(p) = {s}
          /\ service' = [service EXCEPT ![s] = [token |-> token, config |-> 0, own |-> TRUE]]
    <3>1. Needs("ownMeta") = {"meta"} /\ Needs("ownStore") = {"store"}
      BY DEF Needs
    <3> QED BY <1>10, <3>1 DEF RebuildBlockMeta, Own
  <2>2. UNCHANGED <<bearer, config, gen, field, transport>>
    BY <1>10 DEF RebuildBlockMeta
  <2>3. /\ Left = {p} \union Left' /\ Left' \subseteq OnGenerated \union Own /\ s \in Left'
        /\ UNCHANGED <<token, scope>>
    BY <2>1, StepFacts DEF Follows
  <2>4. "downloadTransport" \notin Left /\ LockOf("download") = "downloadTransport"
    BY <2>3, ServiceNames DEF Own, LockOf
  <2>5. p \in TokenOnly /\ p \in Left
    BY <2>3 DEF TokenOnly
  <2>6. scope = Services
    BY <2>5 DEF IInv, StepsLeft
  <2>7. transport["download"] = token
    BY <1>4, <2>4, <2>6 DEF IInv, Changed
  <2>8. /\ service'[s] = [token |-> token, config |-> 0, own |-> TRUE]
        /\ \A r \in OnGenerated : r # s => service'[r] = service[r]
        /\ service' \in [OnGenerated -> Clients] /\ s \in OnGenerated /\ s \notin Recreated
    <3>1. s \in OnGenerated /\ s \notin Recreated
      BY ServiceKinds
    <3>2. [token |-> token, config |-> 0, own |-> TRUE] \in Clients
      BY <1>2, BoundsAssumption DEF Clients, Configs
    <3> QED BY <1>2, <2>1, <3>1, <3>2
  <2>9. /\ p \notin {"bearer", "gen"} /\ p \notin OnGenerated /\ p \notin Fields
        /\ \A r \in Carriers : LockOf(r) # p
    BY ServiceNames DEF Fields, LockOf, Own
  <2>10. Changed'
    <3>1. \A r \in OnGenerated \ Left' : service'[r].token = token /\ service'[r].config = config
      BY <2>3, <2>8, <2>9 DEF IInv, Changed
    <3>2. scope = Services =>
            /\ \A r \in Fields \ Left' : field[r] = token
            /\ \A r \in Carriers : LockOf(r) \notin Left' => transport[r] = token
      BY <2>3, <2>9 DEF IInv, Changed
    <3>3. /\ "bearer" \in Left' <=> "bearer" \in Left
          /\ "gen" \in Left' <=> "gen" \in Left
      BY <2>3, <2>9
    <3> QED BY <2>2, <2>3, <3>1, <3>2, <3>3 DEF IInv, Changed, LockOf
  <2>11. Bounded'
    BY <1>3, <2>2, <2>3, <2>8 DEF IInv, Bounded
  <2>12. Owned'
    BY <1>3, <2>2, <2>7, <2>8 DEF IInv, Owned
  <2>13. Grows
    BY <1>3, <1>4, <2>2, <2>3, <2>8 DEF IInv, Bounded, Grows
  <2> QED BY <1>2, <2>1, <2>2, <2>8, <2>10, <2>11, <2>12, <2>13, StepKeeps
<1>11. CASE SetTransport
  <2>1. PICK s \in Carriers : Step(LockOf(s)) /\ transport' = [transport EXCEPT ![s] = token]
    BY <1>11 DEF SetTransport, Carriers
  <2>2. UNCHANGED <<bearer, config, gen, service, field>>
    BY <1>11 DEF SetTransport
  <2>3. /\ Left = {LockOf(s)} \union Left' /\ UNCHANGED <<token, scope>>
    BY <2>1, StepFacts
  <2>4. /\ transport'[s] = token /\ \A r \in Carriers : r # s => transport'[r] = transport[r]
        /\ transport' \in [Carriers -> Tokens]
    BY <1>2, <2>1
  <2>5. /\ LockOf(s) \notin {"bearer", "gen"} /\ LockOf(s) \notin OnGenerated
        /\ LockOf(s) \notin Fields /\ \A r \in Carriers : LockOf(r) = LockOf(s) => r = s
    BY ServiceNames DEF Fields, Carriers, LockOf
  <2>6. Changed'
    <3>1. scope = Services =>
            /\ \A r \in Fields \ Left' : field[r] = token
            /\ \A r \in Carriers : LockOf(r) \notin Left' => transport'[r] = token
      BY <2>3, <2>4, <2>5 DEF IInv, Changed
    <3>2. /\ OnGenerated \ Left' = OnGenerated \ Left
          /\ "bearer" \in Left' <=> "bearer" \in Left
          /\ "gen" \in Left' <=> "gen" \in Left
      BY <2>3, <2>5
    <3> QED BY <2>2, <2>3, <3>1, <3>2 DEF IInv, Changed, LockOf
  <2>7. \A r \in Carriers : transport[r] <= transport'[r] /\ transport'[r] \in Nat
    BY <1>3, <2>4 DEF IInv, Bounded
  <2>8. Bounded'
    BY <1>3, <2>2, <2>3, <2>4 DEF IInv, Bounded
  <2>9. Owned'
    BY <1>3, <1>4, <2>2, <2>7 DEF IInv, Owned
  <2>10. Grows
    BY <1>3, <1>4, <2>2, <2>3, <2>7 DEF Grows
  <2> QED BY <1>2, <2>1, <2>2, <2>4, <2>6, <2>8, <2>9, <2>10, StepKeeps
<1> QED BY <1>5, <1>6, <1>7, <1>8, <1>9, <1>10, <1>11 DEF Advance
\* A new update begins when the last has returned.
LEMMA UpdateInv ==
  ASSUME IInv, NEW steps, NEW t \in {token, token + 1}, NEW services, Update(steps, t, services),
         t \in Tokens, Ordered(steps), Len(steps) <= IF services = Services THEN 19 ELSE 10,
         {"gen"} \union OnGenerated \subseteq Within(steps),
         t # token => "bearer" \in Within(steps),
         "config" \in Within(steps) => config < MaxConfig,
         \/ services = Services /\ TokenOnly \subseteq Within(steps)
         \/ services = OnGenerated /\ Within(steps) \intersect TokenOnly = {}
  PROVE  IInv'
<1>1. /\ ~Updating /\ todo' = steps /\ token' = t /\ scope' = services
      /\ calm' = [u \in Users |-> FALSE]
      /\ UNCHANGED <<bearer, config, gen, service, field, transport, promise, pc, uses,
                     client, header, obtained, begun>>
  BY DEF Update, clientVars
<1>2. Left = {} /\ Left' = Within(steps)
  BY <1>1, IdleDone DEF Left
<1>3. /\ Tokens \subseteq Nat /\ Configs \subseteq Nat
      /\ \A x \in Clients : x.token \in Nat /\ x.config \in Nat
  BY BoundsAssumption DEF Tokens, Configs, Clients
<1>4. token \in Nat /\ token' \in Nat /\ token <= token'
  BY <1>1, <1>3 DEF IInv, TypeOK
<1>5. TypeOK'
  <2>1. Len(todo') <= Len(IF scope' = Services THEN SetAuthToken ELSE SetBearerToken)
    BY <1>1, UpdateLengths
  <2>2. services \subseteq Services
    BY ServiceKinds
  <2> QED BY <1>1, <2>1, <2>2 DEF IInv, TypeOK
<1>6. StepsLeft'
  BY <1>1, <1>2 DEF StepsLeft
<1>7. Changed'
  <2>1. bearer = token
    BY <1>2 DEF IInv, Changed
  <2>2. scope' = Services => TokenOnly \subseteq Left'
    BY <1>1, <1>2, ServiceKinds
  <2>3. Fields \subseteq TokenOnly /\ \A s \in Carriers : LockOf(s) \in TokenOnly
    BY DEF Fields, Carriers, LockOf, TokenOnly
  <2> QED BY <1>1, <1>2, <2>1, <2>2, <2>3 DEF Changed, LockOf
<1>8. /\ service \in [OnGenerated -> Clients] /\ field \in [Fields -> Tokens]
      /\ transport \in [Carriers -> Tokens]
  BY DEF IInv, TypeOK, Fields, Carriers
<1>9. /\ \A s \in OnGenerated : service[s].token \in Nat /\ service[s].config \in Nat
      /\ \A s \in Fields : field[s] \in Nat
      /\ \A s \in Carriers : transport[s] \in Nat
  BY <1>3, <1>8
<1>10. Bounded' /\ Owned'
  BY <1>1, <1>4, <1>9 DEF IInv, Bounded, Owned
<1>11. config \in Nat
  BY <1>3 DEF IInv, TypeOK
<1>12. Grows
  BY <1>1, <1>4, <1>9, <1>11, ServiceKinds DEF Grows
<1>13. Kept'
  <2> SUFFICES ASSUME NEW s \in Services
               PROVE  Backs(s, promise[s].token, promise[s].config)'
    BY DEF Kept
  <2>1. promise[s].token \in Nat /\ promise[s].config \in Nat
    BY <1>3 DEF IInv, TypeOK
  <2>2. PICK a, c : a = promise[s].token /\ c = promise[s].config
    OBVIOUS
  <2>3. Backs(s, a, c)
    BY <2>2 DEF IInv, Kept
  <2>4. Backs(s, a, c)'
    BY <1>5, <1>12, <2>1, <2>2, <2>3, BacksGrow DEF IInv
  <2> QED BY <1>1, <2>2, <2>4 DEF Backs
<1>14. Served'
  <2> SUFFICES ASSUME NEW u \in Users PROVE (Holds(u) /\ Carries(u))'
    BY DEF Served
  <2>1. Holds(u) /\ Carries(u)
    BY DEF IInv, Served
  <2>2. Due(u)' = Due(u) /\ Through(u)' = Through(u) /\ ~calm'[u]
    BY <1>1 DEF Due, Through
  <2> QED BY <1>1, <2>1, <2>2 DEF Holds, Carries
<1> QED BY <1>5, <1>6, <1>7, <1>10, <1>13, <1>14 DEF IInv

LEMMA CallInv ==
  ASSUME IInv, CallSetAuthToken \/ CallSetBearerToken \/ CallSetHTTPClient \/ CallSetBaseURL
  PROVE  IInv'
<1>1. token < MaxToken => token + 1 \in Tokens
  BY BoundsAssumption DEF IInv, TypeOK, Tokens
<1>2. /\ OnGenerated \intersect TokenOnly = {} /\ "gen" \notin TokenOnly
      /\ "bearer" \notin TokenOnly /\ "config" \notin TokenOnly
      /\ "config" \notin OnGenerated
  BY ServiceNames DEF TokenOnly, Own
<1>3. Services # OnGenerated
  BY ServiceKinds
<1>4. CASE CallSetAuthToken
  <2>1. token < MaxToken /\ Update(SetAuthToken, token + 1, Services)
    BY <1>4 DEF CallSetAuthToken
  <2>2. /\ Within(SetAuthToken) = {"bearer", "gen"} \union Rewiring
        /\ Ordered(SetAuthToken) /\ Len(SetAuthToken) = 19
    BY SetAuthTokenOrdered
  <2>3. /\ "config" \notin Within(SetAuthToken) /\ "bearer" \in Within(SetAuthToken)
        /\ {"gen"} \union OnGenerated \subseteq Within(SetAuthToken)
        /\ TokenOnly \subseteq Within(SetAuthToken)
    BY <1>2, <2>2 DEF Rewiring
  <2>4. Len(SetAuthToken) <= IF Services = Services THEN 19 ELSE 10
    BY <2>2
  <2> QED BY <1>1, <2>1, <2>2, <2>3, <2>4, UpdateInv
<1>5. CASE CallSetBearerToken
  <2>1. token < MaxToken /\ Update(SetBearerToken, token + 1, OnGenerated)
    BY <1>5 DEF CallSetBearerToken
  <2>2. /\ Within(SetBearerToken) = {"bearer", "gen"} \union OnGenerated
        /\ Ordered(SetBearerToken) /\ Len(SetBearerToken) = 10
    BY ShortOrdered DEF SetBearerToken
  <2>3. /\ "config" \notin Within(SetBearerToken) /\ "bearer" \in Within(SetBearerToken)
        /\ {"gen"} \union OnGenerated \subseteq Within(SetBearerToken)
        /\ Within(SetBearerToken) \intersect TokenOnly = {}
    BY <1>2, <2>2
  <2>4. Len(SetBearerToken) <= IF OnGenerated = Services THEN 19 ELSE 10
    BY <1>3, <2>2
  <2> QED BY <1>1, <2>1, <2>2, <2>3, <2>4, UpdateInv
<1>6. CASE CallSetHTTPClient \/ CallSetBaseURL
  <2> DEFINE steps == <<"config">> \o rebuildInternalGen
  <2>1. config < MaxConfig /\ Update(steps, token, OnGenerated)
    BY <1>6 DEF CallSetHTTPClient, CallSetBaseURL, SetHTTPClient, SetBaseURL
  <2>2. /\ Within(steps) = {"config", "gen"} \union OnGenerated
        /\ Ordered(steps) /\ Len(steps) = 10
    BY ShortOrdered
  <2>3. /\ Within(steps) \intersect TokenOnly = {}
        /\ {"gen"} \union OnGenerated \subseteq Within(steps)
    BY <1>2, <2>2
  <2>4. token \in Tokens
    BY DEF IInv, TypeOK
  <2>5. Len(steps) <= IF OnGenerated = Services THEN 19 ELSE 10
    BY <1>3, <2>2
  <2> HIDE DEF steps
  <2> QED BY <2>1, <2>2, <2>3, <2>4, <2>5, UpdateInv
<1> QED BY <1>4, <1>5, <1>6

-----------------------------------------------------------------------------
(* A user's steps. *)

\* A step of user u alone.
LEMMA UserInv ==
  ASSUME IInv, NEW u \in Users, UNCHANGED <<clientVars, updateVars>>, TypeOK',
         \A v \in Users \ {u} :
           /\ pc'[v] = pc[v] /\ uses'[v] = uses[v] /\ client'[v] = client[v]
           /\ header'[v] = header[v] /\ obtained'[v] = obtained[v]
           /\ begun'[v] = begun[v] /\ calm'[v] = calm[v],
         (Holds(u) /\ Carries(u))'
  PROVE  IInv'
<1>1. UNCHANGED <<bearer, config, gen, service, field, transport, todo, token, scope, promise>>
  BY DEF clientVars, updateVars
<1>2. StepsLeft' /\ Changed' /\ Bounded' /\ Owned'
  BY <1>1 DEF IInv, StepsLeft, Changed, Bounded, Owned, Left, LockOf
<1>3. Kept'
  BY <1>1 DEF IInv, Kept, Backs
<1>4. Served'
  <2> SUFFICES ASSUME NEW v \in Users, v # u PROVE (Holds(v) /\ Carries(v))'
    BY DEF Served
  <2>1. Holds(v) /\ Carries(v)
    BY DEF IInv, Served
  <2>2. Due(v)' = Due(v) /\ Through(v)' = Through(v)
    BY DEF Due, Through
  <2> QED BY <1>1, <2>1, <2>2 DEF Holds, Carries
<1> QED BY <1>2, <1>3, <1>4 DEF IInv
LEMMA UserTypes ==
  ASSUME TypeOK
  PROVE  /\ Tokens \subseteq Nat /\ Configs \subseteq Nat /\ 0 \in Tokens /\ 0 \in Configs
         /\ \A x \in Clients : x.token \in Tokens /\ x.config \in Configs
         /\ Fresh \in Clients /\ Fresh.own = FALSE /\ Fresh.token = 0
         /\ Nothing \in [token : Tokens, config : Configs]
         /\ Nothing.token = 0 /\ Nothing.config = 0
<1>1. /\ Tokens \subseteq Nat /\ Configs \subseteq Nat /\ 0 \in Tokens /\ 0 \in Configs
  BY BoundsAssumption DEF Tokens, Configs
<1> QED BY <1>1 DEF Clients, Fresh, Nothing

LEMMA GetServiceInv ==
  ASSUME IInv, NEW u \in Users, GetService(u)
  PROVE  IInv'
<1>1. PICK s \in Used :
        /\ uses' = [uses EXCEPT ![u] = s]
        /\ client' = [client EXCEPT ![u] = IF s \in Recreated THEN service[s] ELSE Fresh]
        /\ obtained' = [obtained EXCEPT ![u] = IF s \in Recreated THEN promise[s] ELSE Nothing]
  BY DEF GetService
<1>2. /\ pc' = [pc EXCEPT ![u] = "ready"]
      /\ UNCHANGED <<clientVars, updateVars, header, begun, calm>>
  BY DEF GetService
<1>3. s \in Services /\ (s \in Recreated => s \in OnGenerated)
  BY BoundsAssumption, ServiceKinds
<1>4. service \in [OnGenerated -> Clients]
      /\ promise \in [Services -> [token : Tokens, config : Configs]]
  BY DEF IInv, TypeOK
<1>5. TypeOK'
  <2>1. client'[u] \in Clients /\ obtained'[u] \in [token : Tokens, config : Configs]
    BY <1>1, <1>3, <1>4, UserTypes DEF IInv, TypeOK
  <2>2. client' \in [Users -> Clients] /\ obtained' \in [Users -> [token : Tokens, config : Configs]]
    BY <1>1, <2>1 DEF IInv, TypeOK
  <2>3. /\ uses' \in [Users -> Services \union {"none"}]
        /\ pc' \in [Users -> {"idle", "ready", "made", "sent"}]
    BY <1>1, <1>2, <1>3 DEF IInv, TypeOK
  <2> QED BY <1>2, <2>2, <2>3 DEF IInv, TypeOK, clientVars, updateVars
<1>6. /\ pc'[u] = "ready" /\ uses'[u] = s /\ UNCHANGED <<service, transport, promise>>
      /\ client'[u] = IF s \in Recreated THEN service[s] ELSE Fresh
      /\ obtained'[u] = IF s \in Recreated THEN promise[s] ELSE Nothing
  BY <1>1, <1>2 DEF IInv, TypeOK, clientVars, updateVars
<1>7. s \in Recreated => /\ promise[s].token <= service[s].token
                         /\ promise[s].config <= service[s].config
                         /\ service[s].own => service[s].token <= transport["download"]
  BY <1>3 DEF IInv, Kept, Backs, Owned
<1>8. (Holds(u) /\ Carries(u))'
  BY <1>3, <1>6, <1>7, UserTypes DEF IInv, Holds, Carries
<1>9. \A v \in Users \ {u} :
        /\ pc'[v] = pc[v] /\ uses'[v] = uses[v] /\ client'[v] = client[v]
        /\ header'[v] = header[v] /\ obtained'[v] = obtained[v]
        /\ begun'[v] = begun[v] /\ calm'[v] = calm[v]
  BY <1>1, <1>2 DEF IInv, TypeOK
<1> QED BY <1>2, <1>5, <1>8, <1>9, UserInv

LEMMA RequestInv ==
  ASSUME IInv, NEW u \in Users, Request(u)
  PROVE  IInv'
<1> DEFINE s == uses[u]
           c == IF s \in {"meta", "store"} THEN service[s] ELSE client[u]
           h == IF s \in OnGenerated
                  THEN [token |-> c.token, config |-> c.config]
                  ELSE [token |-> IF s = "download" THEN 0 ELSE field[s], config |-> 0]
<1>1. pc[u] = "ready" /\ Holds(u) /\ s \in Services
  BY DEF Request, IInv, Served, Holds
<1>2. /\ pc \in [Users -> {"idle", "ready", "made", "sent"}] /\ client \in [Users -> Clients]
      /\ header \in [Users -> [token : Tokens, config : Configs]]
      /\ begun \in [Users -> [token : Tokens, config : Configs]]
      /\ calm \in [Users -> BOOLEAN] /\ service \in [OnGenerated -> Clients]
      /\ promise \in [Services -> [token : Tokens, config : Configs]]
      /\ field \in [Fields -> Tokens] /\ transport \in [Carriers -> Tokens]
  BY DEF IInv, TypeOK, Fields, Carriers
<1>3. /\ pc' = [pc EXCEPT ![u] = "made"] /\ begun' = [begun EXCEPT ![u] = promise[s]]
      /\ calm' = [calm EXCEPT ![u] = ~Updating]
      /\ client' = [client EXCEPT ![u] = c]
      /\ UNCHANGED <<clientVars, updateVars, uses, obtained>>
  BY DEF Request
<1>4. client'[u] = c
  BY <1>2, <1>3
<1>5. header' = [header EXCEPT ![u] = h]
  BY <1>4 DEF Request
<1>6. s \in OnGenerated \/ s \in Fields
  BY <1>1, ServiceKinds
<1>7. c \in Clients
  BY <1>2, ServiceKinds
<1>8. h \in [token : Tokens, config : Configs]
  BY <1>2, <1>6, <1>7, UserTypes DEF IInv
<1> HIDE DEF h
<1>9. TypeOK'
  <2>1. promise[s] \in [token : Tokens, config : Configs] /\ (~Updating) \in BOOLEAN
    BY <1>1, <1>2 DEF Updating
  <2>2. /\ pc' \in [Users -> {"idle", "ready", "made", "sent"}] /\ client' \in [Users -> Clients]
        /\ header' \in [Users -> [token : Tokens, config : Configs]]
        /\ begun' \in [Users -> [token : Tokens, config : Configs]]
        /\ calm' \in [Users -> BOOLEAN]
    BY <1>2, <1>3, <1>5, <1>7, <1>8, <2>1
  <2> QED BY <1>3, <2>2 DEF IInv, TypeOK, clientVars, updateVars
<1>10. /\ pc'[u] = "made" /\ begun'[u] = promise[s] /\ calm'[u] = ~Updating /\ header'[u] = h
       /\ uses'[u] = s /\ obtained'[u] = obtained[u] /\ transport' = transport
  BY <1>2, <1>3, <1>5 DEF clientVars
<1>11. Backs(s, promise[s].token, promise[s].config)
  BY <1>1 DEF IInv, Kept
<1> DEFINE due == IF s \in Recreated THEN obtained[u] ELSE promise[s]
<1>12. Due(u)' = due
  BY <1>10 DEF Due
<1>13. due.token \in Nat /\ due.config \in Nat
  BY <1>1, <1>2, UserTypes DEF IInv, TypeOK
<1>14. s \in OnGenerated => due.token <= c.token
  <2>1. CASE s \in Recreated
    BY <1>1, <2>1, ServiceKinds DEF Holds
  <2>2. CASE s \in {"meta", "store"}
    BY <1>11, <2>2, ServiceKinds DEF Backs
  <2> QED BY <2>1, <2>2, ServiceKinds
<1>15. c.own => s \in OnGenerated /\ c.token <= transport["download"]
  <2>1. CASE s \in {"meta", "store"}
    BY <2>1, ServiceKinds DEF IInv, Owned
  <2>2. CASE s \notin {"meta", "store"}
    BY <1>1, <2>2 DEF Holds
  <2> QED BY <2>1, <2>2
<1>16. Holds(u)'
  <2>1. s \in Recreated => s \notin {"meta", "store"}
    BY ServiceKinds
  <2> QED BY <1>1, <1>4, <1>10, <1>15, <2>1 DEF Holds
<1>17. s # "download" => due.token <= h.token
  <2>1. CASE s \in OnGenerated
    BY <1>14, <2>1 DEF h
  <2>2. CASE s \in Fields
    BY <1>11, <2>2, ServiceKinds DEF Backs, h
  <2> QED BY <1>6, <2>1, <2>2
<1>18. Through(u)' # "none" => due.token <= transport[Through(u)']
  <2>1. CASE s = "upload" \/ s = "download"
    <3>1. s \in Carriers /\ s \notin Recreated
      BY <2>1, ServiceNames DEF Carriers
    <3>2. Through(u)' = s
      BY <1>10, <2>1 DEF Through
    <3> QED BY <1>11, <3>1, <3>2 DEF Backs
  <2>2. CASE s \notin Carriers /\ c.own
    <3>1. Through(u)' = "download"
      BY <1>4, <1>10, <2>2 DEF Through, Carriers
    <3>2. due.token <= c.token /\ c.token <= transport["download"]
      BY <1>14, <1>15, <2>2
    <3>3. c.token \in Nat /\ transport["download"] \in Nat
      BY <1>2, <1>7, UserTypes DEF IInv, Carriers
    <3> QED BY <1>13, <3>1, <3>2, <3>3
  <2>3. CASE s \notin Carriers /\ ~c.own
    BY <1>4, <1>10, <2>3 DEF Through, Carriers
  <2> QED BY <2>1, <2>2, <2>3 DEF Carriers
<1>19. ~Updating => due.config <= h.config
  <2> SUFFICES ASSUME ~Updating PROVE due.config <= h.config
    OBVIOUS
  <2>1. CASE s \in Recreated
    BY <1>1, <2>1, ServiceKinds DEF Holds, h
  <2>2. CASE s \in {"meta", "store"}
    <3>1. service[s].config = config
      BY <2>2, IdleDone, ServiceKinds DEF IInv, Changed
    <3> QED BY <1>11, <2>2, <3>1, ServiceKinds DEF Backs, h
  <2>3. CASE s \in Fields
    BY <1>11, <2>3, ServiceKinds DEF Backs, h
  <2> QED BY <1>6, <2>1, <2>2, <2>3, ServiceKinds
<1>20. Carries(u)'
  BY <1>10, <1>12, <1>17, <1>18, <1>19 DEF Carries
<1>21. \A v \in Users \ {u} :
        /\ pc'[v] = pc[v] /\ uses'[v] = uses[v] /\ client'[v] = client[v]
        /\ header'[v] = header[v] /\ obtained'[v] = obtained[v]
        /\ begun'[v] = begun[v] /\ calm'[v] = calm[v]
  BY <1>2, <1>3, <1>5
<1> QED BY <1>3, <1>9, <1>16, <1>20, <1>21, UserInv
LEMMA RoundTripInv ==
  ASSUME IInv, NEW u \in Users, RoundTrip(u)
  PROVE  IInv'
<1> DEFINE w == Through(u)
           through == w # "none" /\ transport[w] # 0
           t == IF through THEN transport[w] ELSE header[u].token
<1>1. /\ pc[u] = "made" /\ Holds(u) /\ Carries(u)
  BY DEF RoundTrip, IInv, Served
<1>2. /\ pc' = [pc EXCEPT ![u] = "sent"]
      /\ header' = [header EXCEPT ![u].token = t]
      /\ UNCHANGED <<clientVars, updateVars, uses, client, obtained, begun, calm>>
  BY DEF RoundTrip
<1>3. /\ pc \in [Users -> {"idle", "ready", "made", "sent"}]
      /\ header \in [Users -> [token : Tokens, config : Configs]]
      /\ transport \in [Carriers -> Tokens]
  BY DEF IInv, TypeOK, Carriers
<1>4. w \in {"upload", "download", "none"}
  BY DEF Through
<1>5. w # "none" => transport[w] \in Tokens
  BY <1>3, <1>4 DEF Carriers
<1>6. t \in Tokens
  BY <1>3, <1>5
<1> HIDE DEF t
<1>7. /\ header' \in [Users -> [token : Tokens, config : Configs]]
      /\ header'[u].token = t /\ header'[u].config = header[u].config
  BY <1>2, <1>3, <1>6
<1>8. TypeOK'
  <2>1. pc' \in [Users -> {"idle", "ready", "made", "sent"}]
    BY <1>2, <1>3
  <2> QED BY <1>2, <1>7, <2>1 DEF IInv, TypeOK, clientVars, updateVars
<1>9. /\ pc'[u] = "sent" /\ transport' = transport /\ Due(u)' = Due(u)
      /\ UNCHANGED <<uses, client, obtained, begun, calm>>
  BY <1>2, <1>3 DEF Due, clientVars
<1>10. Due(u).token \in Nat /\ Tokens \subseteq Nat
  BY UserTypes DEF IInv, TypeOK, Due
<1>11. Due(u).token <= t
  <2>1. CASE through
    BY <1>1, <2>1 DEF Carries, t
  <2>2. CASE ~through
    <3>1. t = header[u].token
      BY <2>2 DEF t
    <3>2. CASE uses[u] # "download"
      BY <1>1, <3>1, <3>2 DEF Carries
    <3>3. CASE uses[u] = "download"
      <4>1. w = "download"
        BY <3>3 DEF Through
      <4>2. transport[w] = 0 /\ Due(u).token <= transport[w]
        BY <1>1, <2>2, <4>1 DEF Carries
      <4>3. Due(u).token = 0 /\ t \in Nat
        BY <1>6, <1>10, <4>2
      <4> QED BY <4>3
    <3> QED BY <3>2, <3>3
  <2> QED BY <2>1, <2>2
<1>12. Holds(u)'
  BY <1>1, <1>9 DEF Holds
<1>13. Carries(u)'
  BY <1>1, <1>7, <1>9, <1>11 DEF Carries
<1>14. \A v \in Users \ {u} :
        /\ pc'[v] = pc[v] /\ uses'[v] = uses[v] /\ client'[v] = client[v]
        /\ header'[v] = header[v] /\ obtained'[v] = obtained[v]
        /\ begun'[v] = begun[v] /\ calm'[v] = calm[v]
  BY <1>2, <1>3
<1> QED BY <1>2, <1>8, <1>12, <1>13, <1>14, UserInv

LEMMA AnswerInv ==
  ASSUME IInv, NEW u \in Users, Answer(u)
  PROVE  IInv'
<1>1. pc[u] = "sent" /\ Holds(u)
  BY DEF Answer, IInv, Served
<1>2. /\ header' = [header EXCEPT ![u] = Nothing] /\ begun' = [begun EXCEPT ![u] = Nothing]
      /\ calm' = [calm EXCEPT ![u] = FALSE] /\ UNCHANGED <<clientVars, updateVars>>
  BY DEF Answer
<1>3. /\ pc \in [Users -> {"idle", "ready", "made", "sent"}] /\ client \in [Users -> Clients]
      /\ header \in [Users -> [token : Tokens, config : Configs]]
      /\ begun \in [Users -> [token : Tokens, config : Configs]]
      /\ obtained \in [Users -> [token : Tokens, config : Configs]]
      /\ calm \in [Users -> BOOLEAN] /\ uses \in [Users -> Services \union {"none"}]
  BY DEF IInv, TypeOK
<1>4. /\ header' \in [Users -> [token : Tokens, config : Configs]]
      /\ begun' \in [Users -> [token : Tokens, config : Configs]]
      /\ calm' \in [Users -> BOOLEAN]
  BY <1>2, <1>3, UserTypes DEF IInv
<1>5. UNCHANGED <<transport, service>>
  BY <1>2 DEF clientVars
<1>6. CASE /\ pc' = [pc EXCEPT ![u] = "ready"]
           /\ client' = [client EXCEPT ![u] = IF uses[u] \in Recreated THEN client[u] ELSE Fresh]
           /\ UNCHANGED <<uses, obtained>>
  <2>1. client' \in [Users -> Clients] /\ pc' \in [Users -> {"idle", "ready", "made", "sent"}]
    BY <1>3, <1>6, UserTypes DEF IInv
  <2>2. TypeOK'
    BY <1>2, <1>4, <1>6, <2>1 DEF IInv, TypeOK, clientVars, updateVars
  <2>3. /\ pc'[u] = "ready" /\ uses'[u] = uses[u] /\ obtained'[u] = obtained[u]
        /\ client'[u] = IF uses[u] \in Recreated THEN client[u] ELSE Fresh
    BY <1>3, <1>6
  <2>4. (Holds(u) /\ Carries(u))'
    BY <1>1, <1>5, <2>3, UserTypes DEF IInv, Holds, Carries
  <2>5. \A v \in Users \ {u} :
          /\ pc'[v] = pc[v] /\ uses'[v] = uses[v] /\ client'[v] = client[v]
          /\ header'[v] = header[v] /\ obtained'[v] = obtained[v]
          /\ begun'[v] = begun[v] /\ calm'[v] = calm[v]
    BY <1>2, <1>3, <1>6
  <2> QED BY <1>2, <2>2, <2>4, <2>5, UserInv
<1>7. CASE /\ pc' = [pc EXCEPT ![u] = "idle"] /\ client' = [client EXCEPT ![u] = Fresh]
           /\ uses' = [uses EXCEPT ![u] = "none"] /\ obtained' = [obtained EXCEPT ![u] = Nothing]
  <2>1. /\ client' \in [Users -> Clients] /\ pc' \in [Users -> {"idle", "ready", "made", "sent"}]
        /\ uses' \in [Users -> Services \union {"none"}]
        /\ obtained' \in [Users -> [token : Tokens, config : Configs]]
    BY <1>3, <1>7, UserTypes DEF IInv
  <2>2. TypeOK'
    BY <1>2, <1>4, <2>1 DEF IInv, TypeOK, clientVars, updateVars
  <2>3. pc'[u] = "idle" /\ client'[u] = Fresh
    BY <1>3, <1>7
  <2>4. (Holds(u) /\ Carries(u))'
    BY <2>3, UserTypes DEF IInv, Holds, Carries
  <2>5. \A v \in Users \ {u} :
          /\ pc'[v] = pc[v] /\ uses'[v] = uses[v] /\ client'[v] = client[v]
          /\ header'[v] = header[v] /\ obtained'[v] = obtained[v]
          /\ begun'[v] = begun[v] /\ calm'[v] = calm[v]
    BY <1>2, <1>3, <1>7
  <2> QED BY <1>2, <2>2, <2>4, <2>5, UserInv
<1> QED BY <1>6, <1>7 DEF Answer

LEMMA StutterInv == ASSUME IInv, UNCHANGED vars PROVE IInv'
<1>1. /\ UNCHANGED <<bearer, config, gen, service, field, transport, todo, token, scope, promise>>
      /\ UNCHANGED <<pc, uses, client, header, obtained, begun, calm>>
  BY DEF vars, clientVars, updateVars, userVars
<1>2. TypeOK'
  BY <1>1 DEF IInv, TypeOK
<1>3. StepsLeft' /\ Changed' /\ Bounded' /\ Owned' /\ Kept'
  BY <1>1 DEF IInv, StepsLeft, Changed, Bounded, Owned, Kept, Backs, Left, LockOf
<1>4. Served'
  BY <1>1 DEF IInv, Served, Holds, Carries, Due, Through
<1> QED BY <1>2, <1>3, <1>4 DEF IInv

-----------------------------------------------------------------------------
(* The theorems. *)

\* What an update has no step left for is up to date, what finished updates
\* promised is kept, and every request carries or will be given what is due.
THEOREM Invariance == Spec => []IInv
<1>1. ASSUME IInv, [Next]_vars PROVE IInv'
  <2>1. CASE \E u \in Users : GetService(u) \/ Request(u) \/ RoundTrip(u) \/ Answer(u)
    BY <1>1, <2>1, GetServiceInv, RequestInv, RoundTripInv, AnswerInv
  <2>2. CASE CallSetAuthToken \/ CallSetBearerToken \/ CallSetHTTPClient \/ CallSetBaseURL
    BY <1>1, <2>2, CallInv
  <2>3. CASE Advance
    BY <1>1, <2>3, AdvanceInv
  <2>4. CASE UNCHANGED vars
    BY <1>1, <2>4, StutterInv
  <2> QED BY <1>1, <2>1, <2>2, <2>3, <2>4 DEF Next
<1> QED BY InitInv, <1>1, PTL DEF Spec

\* The type invariant: tokens, configurations and the steps left of the four
\* updates of sdk.go stay within their types.
THEOREM TokenTypes == Spec => []TypeOK
<1>1. IInv => TypeOK
  BY DEF IInv
<1> QED BY <1>1, Invariance, PTL

\* After SetAuthToken, SetBearerToken, SetHTTPClient or SetBaseURL has returned, no
\* request of a service got from then on carries an older token, whatever updates
\* follow, and none an older configuration unless one is under way.
THEOREM UpdatesReach == Spec => []FreshAfterUpdate
<1>1. IInv => FreshAfterUpdate
  <2> SUFFICES ASSUME IInv, NEW u \in Users, pc[u] = "sent"
               PROVE  /\ header[u].token >= Due(u).token
                      /\ calm[u] => header[u].config >= Due(u).config
    BY DEF FreshAfterUpdate, Due
  <2>1. /\ Due(u).token <= header[u].token
        /\ calm[u] => Due(u).config <= header[u].config
    BY DEF IInv, Served, Carries
  <2>2. /\ Due(u) \in [token : Tokens, config : Configs]
        /\ header[u] \in [token : Tokens, config : Configs]
    BY DEF IInv, TypeOK, Due
  <2>3. /\ Due(u).token \in Nat /\ Due(u).config \in Nat
        /\ header[u].token \in Nat /\ header[u].config \in Nat
    BY <2>2, UserTypes DEF IInv
  <2> QED BY <2>1, <2>3
<1> QED BY <1>1, Invariance, PTL

-----------------------------------------------------------------------------
(* What an update waits for. *)

\* The requests the update has to wait for at its next step: those that are past
\* the round tripper whose lock it takes.
Ahead == {u \in Users : \E s \in Carriers : Locking(s) /\ u \in Readers(s)}

\* Each step of an update brings it nearer its end; meanwhile no request joins
\* those it waits for, and an answer takes one away.
UpdateFalls ==
  [][Updating =>
       /\ Advance => Len(todo') < Len(todo)
       /\ ~Advance => todo' = todo /\ Ahead' \subseteq Ahead
       /\ \A u \in Users : Answer(u) => u \notin Ahead']_vars

\* Every step an update may come to is one that some action takes.
StepTaken == Updating => Len(todo) \in Nat /\ Head(todo) \in Parts

\* A user's step puts nobody past a lock that is being taken.
LEMMA UserFalls ==
  ASSUME IInv, Updating, NEW u \in Users,
         GetService(u) \/ Request(u) \/ RoundTrip(u) \/ Answer(u)
  PROVE  todo' = todo /\ Ahead' \subseteq Ahead /\ (Answer(u) => u \notin Ahead')
<1>1. todo' = todo /\ \A s : Locking(s)' = Locking(s)
  BY DEF GetService, Request, RoundTrip, Answer, updateVars, Locking, Updating
<1>2. pc \in [Users -> {"idle", "ready", "made", "sent"}]
      /\ uses \in [Users -> Services \union {"none"}] /\ client \in [Users -> Clients]
  BY DEF IInv, TypeOK
<1>3. \A v \in Users \ {u} :
        pc'[v] = pc[v] /\ uses'[v] = uses[v] /\ client'[v] = client[v]
  BY <1>2 DEF GetService, Request, RoundTrip, Answer
<1>4. \A v \in Users \ {u} : Through(v)' = Through(v)
  BY <1>3 DEF Through
<1>5. ASSUME pc'[u] = "sent"
      PROVE  RoundTrip(u) /\ ~Locking(Through(u)) /\ Through(u)' = Through(u)
  <2>1. RoundTrip(u)
    BY <1>2, <1>5 DEF GetService, Request, Answer
  <2>2. uses' = uses /\ client' = client
    BY <2>1 DEF RoundTrip
  <2> QED BY <2>1, <2>2 DEF RoundTrip, Through
<1>6. ASSUME NEW v \in Ahead' PROVE v \in Ahead /\ v # u
  <2>1. PICK s \in Carriers : Locking(s) /\ v \in Users /\ pc'[v] = "sent" /\ Through(v)' = s
    BY <1>1, <1>6 DEF Ahead, Readers
  <2>2. v # u
    BY <1>5, <2>1
  <2>3. v \in Readers(s)
    BY <1>3, <1>4, <2>1, <2>2 DEF Readers
  <2> QED BY <2>1, <2>2, <2>3 DEF Ahead
<1> QED BY <1>1, <1>6

\* An update takes finitely many steps and is kept waiting only by the requests
\* that were past the round tripper's lock when it came to it (SetAuthToken,
\* SetToken): this is what UpdateReturns needs besides the fairness of FairSpec.
THEOREM UpdatesEnd == Spec => []StepTaken /\ UpdateFalls
<1> DEFINE Falls == Updating =>
              /\ Advance => Len(todo') < Len(todo)
              /\ ~Advance => todo' = todo /\ Ahead' \subseteq Ahead
              /\ \A u \in Users : Answer(u) => u \notin Ahead'
<1>1. IInv /\ [Next]_vars => [Falls]_vars
  <2> SUFFICES ASSUME IInv, Next, Updating PROVE Falls
    OBVIOUS
  <2>1. CASE Advance
    <3>1. PICK p : Step(p)
      BY <2>1 DEF Advance, SetBearer, SetConfig, NewInternalGen, Rewire, SetField,
                  RebuildBlockMeta, SetTransport
    <3>2. todo \in Seq(Parts)
      BY DEF IInv, StepsLeft, Ordered
    <3>3. Len(todo') = Len(todo) - 1 /\ Len(todo) \in Nat /\ UNCHANGED userVars /\ todo # <<>>
      BY <3>1, <3>2, StepFacts
    <3>4. \A u \in Users : ~Answer(u)
      <4> SUFFICES ASSUME NEW u \in Users, Answer(u) PROVE FALSE
        OBVIOUS
      <4>1. pc[u] = "sent" /\ pc'[u] # "sent"
        BY DEF Answer, IInv, TypeOK
      <4> QED BY <3>3, <4>1 DEF userVars
    <3> QED BY <2>1, <3>3, <3>4
  <2>2. ASSUME ~Advance, NEW u \in Users, GetService(u) \/ Request(u) \/ RoundTrip(u) \/ Answer(u)
        PROVE  Falls
    <3>1. todo' = todo /\ Ahead' \subseteq Ahead /\ (Answer(u) => u \notin Ahead')
      BY <2>2, UserFalls
    <3>2. \A v \in Users : Answer(v) => v \notin Ahead'
      BY UserFalls
    <3> QED BY <2>2, <3>1, <3>2
  <2>3. ~(CallSetAuthToken \/ CallSetBearerToken \/ CallSetHTTPClient \/ CallSetBaseURL)
    BY DEF CallSetAuthToken, CallSetBearerToken, CallSetHTTPClient, CallSetBaseURL, Update
  <2> QED BY <2>1, <2>2, <2>3 DEF Next
<1>2. IInv => StepTaken
  <2> SUFFICES ASSUME IInv, Updating PROVE Len(todo) \in Nat /\ Head(todo) \in Parts
    BY DEF StepTaken
  <2>1. Ordered(todo) /\ todo # <<>>
    BY DEF IInv, StepsLeft, Updating
  <2> QED BY <2>1, OrderedTail DEF Ordered
<1> QED BY <1>1, <1>2, Invariance, PTL DEF Spec, UpdateFalls

=============================================================================
