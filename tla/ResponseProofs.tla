--------------------------- MODULE ResponseProofs ---------------------------
(***************************************************************************)
(* What the readers of a reply make of the bytes a server sends, for every *)
(* width of the integers, every limit and every reply.                     *)
(***************************************************************************)
EXTENDS ProtocolProofs

\* What a handler writes for a value.
Enc(v) == IF v.tag = TAG_ARR THEN <<TAG_ARR>> \o u32(Len(v.items)) \o Packed(v.items)
          ELSE Item(v)

\* A value is not an array, or has members that are not.
LEMMA AnswerCases ==
    ASSUME NEW v \in Answers
    PROVE  \/ v \in Scalars /\ v.tag # TAG_ARR
           \/ v.tag = TAG_ARR /\ v.items \in Seq(Scalars) /\ v = Arr(v.items)
<1>1. CASE v \in Scalars
  <2>1. <<>> \in Text
    BY DEF Text
  <2>2. v.tag \in 0 .. TAG_DBL
    BY <1>1, <2>1, PutItem, Zenon
  <2> QED  BY <1>1, <2>2 DEF TAG_DBL, TAG_ARR
<1>2. ASSUME NEW vs \in Seq(Scalars), v = Arr(vs)
      PROVE  v.tag = TAG_ARR /\ v.items \in Seq(Scalars) /\ v = Arr(v.items)
  <2>1. v.tag = TAG_ARR /\ v.items = vs
    BY <1>2, Zenon DEF Arr, Value
  <2> QED  BY <1>2, <2>1, Zenon
<1> QED  BY <1>1, <1>2, Zenon DEF Answers

\* A length that is filled in later.
LEMMA PatchIs ==
    ASSUME NEW x \in Text, NEW y \in Text, NEW z \in Text, Len(y) = W, NEW n \in Nat
    PROVE  Patch(x \o y \o z, Len(x), n) = x \o u32(n) \o z
<1> DEFINE a == Len(x)
           u == u32(n)
           f == x \o y \o z
           g == x \o u \o z
           p == Patch(f, a, n)
           L == a + W + Len(z)
<1>0. x \in Seq(Byte) /\ y \in Seq(Byte) /\ z \in Seq(Byte) /\ a \in Nat /\ Len(z) \in Nat /\ W \in Nat
  BY WidthAssumption DEF Text
<1>u. u \in Text /\ Len(u) = W
  BY u32Bytes, Zenon
<1>1. u \in Text
  BY <1>u, Zenon
<1>2. f \in Text /\ Len(f) = L
  BY JoinLength, ZenonT(60)
<1> HIDE DEF u
<1>3. g \in Text /\ Len(g) = L
  <2>1. g \in Text /\ Len(g) = Len(x) + Len(u) + Len(z)
    BY <1>1, JoinLength
  <2> HIDE DEF g
  <2> QED  BY <1>u, <2>1, Zenon
<1>4. p = [i \in 1 .. L |-> IF i \in a + 1 .. a + W THEN u[i - a] ELSE f[i]]
  <2> HIDE DEF f
  <2>1. DOMAIN f = 1 .. L
    BY <1>2 DEF Text
  <2> QED  BY <2>1, Zenon DEF Patch, u
<1>5. ASSUME NEW t \in Text, Len(t) = W
      PROVE  \A i \in 1 .. L : (x \o t \o z)[i] = IF i <= a THEN x[i]
                                                ELSE IF i <= a + W THEN t[i - a] ELSE z[i - (a + W)]
  <2> DEFINE xt == x \o t
  <2>0. xt \in Text /\ Len(xt) = Len(x) + Len(t)
    BY JoinText, Zenon
  <2>1. t \in Seq(Byte) /\ xt \in Seq(Byte) /\ Len(xt) = a + W
    <3> HIDE DEF xt
    <3> QED  BY <1>5, <2>0, Zenon DEF Text
  <2>2. \A i \in 1 .. a + W : xt[i] = IF i <= a THEN x[i] ELSE t[i - a]
    BY <1>0, <1>5, <2>1
  <2> HIDE DEF xt
  <2>3. \A i \in 1 .. L : (xt \o z)[i] = IF i <= a + W THEN xt[i] ELSE z[i - (a + W)]
    BY <1>0, <2>1
  <2>4. ASSUME NEW i \in 1 .. L
        PROVE  (xt \o z)[i] = IF i <= a THEN x[i] ELSE IF i <= a + W THEN t[i - a] ELSE z[i - (a + W)]
    <3>1. i \in Int /\ i >= 1 /\ (i <= a => i <= a + W) /\ (i <= a + W => i \in 1 .. a + W)
      BY <1>0
    <3> HIDE DEF L
    <3> QED  BY <2>2, <2>3, <3>1, Zenon
  <2> QED  BY <2>4, Zenon DEF xt
<1>6. ASSUME NEW i \in 1 .. L PROVE p[i] = g[i]
  <2>1. g[i] = IF i <= a THEN x[i] ELSE IF i <= a + W THEN u[i - a] ELSE z[i - (a + W)]
    BY <1>1, <1>u, <1>5, Zenon
  <2>2. f[i] = IF i <= a THEN x[i] ELSE IF i <= a + W THEN y[i - a] ELSE z[i - (a + W)]
    BY <1>5, Zenon
  <2>3. p[i] = IF i \in a + 1 .. a + W THEN u[i - a] ELSE f[i]
    BY <1>4, Zenon
  <2>4. i \in a + 1 .. a + W <=> ~(i <= a) /\ i <= a + W
    BY <1>0
  <2> HIDE DEF p, f, g
  <2> QED  BY <2>1, <2>2, <2>3, <2>4
<1>7. g \in Seq(Byte) /\ p \in Seq(Byte) /\ Len(p) = L
  <2>1. g \in Seq(Byte) /\ L \in Nat
    BY <1>0, <1>3 DEF Text
  <2> HIDE DEF g, p, L
  <2>2. \A i \in 1 .. L : g[i] \in Byte
    BY <1>3, <2>1
  <2>3. DOMAIN p = 1 .. L /\ \A i \in 1 .. L : p[i] \in Byte
    BY <1>4, <1>6, <2>2, Zenon
  <2>4. p = [i \in 1 .. L |-> p[i]]
    BY <1>4, Zenon
  <2>5. p \in [1 .. L -> Byte]
    BY <2>3, <2>4, Zenon
  <2> QED  BY <2>1, <2>5
<1> HIDE DEF p, g
<1>8. p = g
  BY <1>3, <1>6, <1>7, SameElements, Zenon
<1> QED  BY <1>8, Zenon DEF p, g, f, a, u

\* Whatever is in the output, a handler adds the same bytes for a value.
LEMMA WriteIs ==
    ASSUME NEW buf \in Text, NEW v \in Answers
    PROVE  Write(buf, v) = buf \o Enc(v) /\ Enc(v) \in Text
<1>1. CASE v \in Scalars /\ v.tag # TAG_ARR
  <2>1. Put(buf, v) = buf \o Item(v) /\ Item(v) \in Text
    BY <1>1, PutItem, Zenon
  <2>2. Write(buf, v) = Put(buf, v)
    BY <1>1, Zenon DEF Write
  <2> QED  BY <1>1, <2>1, <2>2, Zenon DEF Enc
<1>2. CASE v.tag = TAG_ARR /\ v.items \in Seq(Scalars)
  <2> DEFINE n == Len(v.items)
             p == Packed(v.items)
             z == u32(0)
             a == Append(buf, TAG_ARR)
  <2>0. TAG_ARR \in 0 .. TAG_ARR /\ n \in Nat /\ 0 \in Nat
    BY <1>2 DEF TAG_ARR
  <2>1. z \in Text /\ Len(z) = W
    BY <2>0, u32Bytes, Zenon
  <2>2. u32(n) \in Text
    BY <2>0, u32Bytes, Zenon
  <2>3. a \in Text /\ Len(a) \in Nat /\ W \in Nat
    <3>1. <<TAG_ARR>> \in Text
      BY <2>0, TagText, Zenon
    <3>2. a = buf \o <<TAG_ARR>>
      BY <2>0, WriteTag, Zenon
    <3>3. a \in Text
      BY <3>1, <3>2, JoinText, Zenon
    <3> QED  BY <3>3, WidthAssumption DEF Text
  <2>4. p \in Text
    BY <1>2, PutAllIs, Zenon
  <2>5. a \o u32(n) \o p = buf \o Enc(v) /\ Enc(v) \in Text
    <3>1. a \o u32(n) \o p = buf \o (<<TAG_ARR>> \o u32(n) \o p) /\ <<TAG_ARR>> \o u32(n) \o p \in Text
      BY <2>0, <2>2, <2>4, WriteTwo, Zenon
    <3>2. Enc(v) = <<TAG_ARR>> \o u32(n) \o p
      BY <1>2, Zenon DEF Enc
    <3> QED  BY <3>1, <3>2, Zenon
  <2> HIDE DEF a, z, n, p
  <2>6. CASE IsKeys(v)
    <3>1. Write(buf, v) = PutAll(a \o u32(n), v.items)
      BY <1>2, <2>6, Zenon DEF Write, do_keys, out_arr, a, n
    <3>2. a \o u32(n) \in Text
      BY <2>2, <2>3, JoinText, Zenon
    <3>3. PutAll(a \o u32(n), v.items) = (a \o u32(n)) \o p
      BY <1>2, <3>2, PutAllIs, Zenon DEF p
    <3> QED  BY <2>5, <3>1, <3>3, Zenon
  <2>7. CASE ~IsKeys(v)
    <3> DEFINE open == a \o z
    <3>1. Write(buf, v) = Patch(PutAll(open, v.items), Len(open) - W, n)
      BY <1>2, <2>7, Zenon DEF Write, do_zquery, out_begin_arr, out_end_arr, a, z, n
    <3>2. open \in Text /\ Len(open) = Len(a) + Len(z)
      BY <2>1, <2>3, JoinText, Zenon
    <3>3. PutAll(open, v.items) = open \o p
      BY <1>2, <3>2, PutAllIs, Zenon DEF p
    <3>4. Len(open) - W = Len(a)
      <4> HIDE DEF open
      <4> QED  BY <2>1, <2>3, <3>2
    <3>5. Patch(a \o z \o p, Len(a), n) = a \o u32(n) \o p
      <4>1. z \in Text
        BY <2>1, Zenon
      <4>2. Len(z) = W
        BY <2>1, Zenon
      <4>3. a \in Text
        BY <2>3, Zenon
      <4>4. n \in Nat
        BY <2>0, Zenon
      <4> QED  BY <2>4, <4>1, <4>2, <4>3, <4>4, PatchIs, ZenonT(60)
    <3> QED  BY <2>5, <3>1, <3>3, <3>4, <3>5, ZenonT(60)
  <2> QED  BY <2>5, <2>6, <2>7, Zenon
<1> QED  BY <1>1, <1>2, AnswerCases, Zenon

\* Size counts the bytes that are written.
LEMMA SizeIs ==
    ASSUME NEW v \in Answers
    PROVE  Size(v) = Len(Enc(v)) /\ Len(Enc(v)) \in Nat \ {0}
<1>1. CASE v \in Scalars /\ v.tag # TAG_ARR
  <2>1. <<>> \in Text
    BY DEF Text
  <2>2. Len(Item(v)) = ScalarSize(v) /\ Len(Item(v)) \in Nat \ {0}
    BY <1>1, <2>1, PutItem, Zenon
  <2> QED  BY <1>1, <2>2, Zenon DEF Size, Enc
<1>2. CASE v.tag = TAG_ARR /\ v.items \in Seq(Scalars)
  <2> DEFINE vs == v.items
             N == Len(vs)
             c(i) == Chain(Items(vs))[i]
             w == [i \in 0 .. N |-> 1 + W + Len(c(i))]
             F(n) == [i \in 0 .. N |-> IF i = 0 THEN 1 + W ELSE n[i - 1] + ScalarSize(vs[i])]
             n == CHOOSE f : f = F(f)
  <2>0. /\ N \in Nat /\ N \in 0 .. N /\ c(0) = <<>>
        /\ \A i \in 0 .. N : c(i) \in Text
        /\ \A i \in 1 .. N : vs[i] \in Scalars /\ c(i) = c(i - 1) \o Item(vs[i]) /\ Item(vs[i]) \in Text
    BY <1>2, ChainItems, Zenon
  <2>a. Size(v) = n[N]
    BY <1>2, Zenon DEF Size
  <2>b. Packed(vs) = c(N)
    BY Zenon DEF Packed
  <2> HIDE DEF N, c, vs
  <2>w. W \in Nat \ {0}
    BY WidthAssumption, Zenon
  <2>1. Len(c(0)) = 0 /\ \A i \in 0 .. N : Len(c(i)) \in Nat
    <3>1. ASSUME NEW i \in 0 .. N PROVE Len(c(i)) \in Nat
      BY <2>0 DEF Text
    <3> QED  BY <2>0, <3>1, Zenon
  <2>2. ASSUME NEW i \in 1 .. N PROVE 1 + W + Len(c(i)) = 1 + W + Len(c(i - 1)) + ScalarSize(vs[i])
    <3> DEFINE p == c(i - 1)
               s == Item(vs[i])
    <3>0. i - 1 \in 0 .. N
      BY <2>0
    <3>1. p \in Text /\ Len(p) \in Nat
      BY <2>0, <2>1, <3>0, Zenon
    <3>2. s \in Text /\ c(i) = p \o s
      BY <2>0, Zenon
    <3>3. Len(s) = ScalarSize(vs[i]) /\ Len(s) \in Nat
      <4>1. <<>> \in Text
        BY DEF Text
      <4> QED  BY <2>0, <4>1, PutItem, Zenon
    <3> HIDE DEF p, s
    <3>4. Len(p \o s) = Len(p) + Len(s)
      BY <3>1, <3>2, JoinText, Zenon
    <3>5. Len(c(i)) = Len(p) + ScalarSize(vs[i]) /\ Len(p) \in Nat /\ ScalarSize(vs[i]) \in Nat
      BY <3>1, <3>2, <3>3, <3>4, Zenon
    <3> QED  BY <2>w, <3>5 DEF p
  <2>3. w = F(w)
    <3> DEFINE p(i) == 1 + W + Len(c(i))
               q(i) == IF i = 0 THEN 1 + W ELSE w[i - 1] + ScalarSize(vs[i])
    <3>1. ASSUME NEW i \in 0 .. N PROVE p(i) = q(i)
      <4>1. CASE i = 0
        BY <2>1, <2>w, <4>1
      <4>2. CASE i # 0
        <5>1. i \in 1 .. N /\ i - 1 \in 0 .. N
          BY <2>0, <4>2
        <5>2. w[i - 1] = 1 + W + Len(c(i - 1))
          BY <5>1, Zenon
        <5> HIDE DEF w
        <5> QED  BY <2>2, <4>2, <5>1, <5>2, Zenon
      <4> QED  BY <4>1, <4>2, Zenon
    <3>2. w = [i \in 0 .. N |-> p(i)]
      BY Zenon
    <3> HIDE DEF p, q, w
    <3>3. w = [i \in 0 .. N |-> q(i)]
      BY <3>1, <3>2, Zenon
    <3> QED  BY <3>3, Zenon DEF q
  <2>4. n = F(n)
    <3> HIDE DEF F, w
    <3> QED  BY <2>3, Zenon
  <2> HIDE DEF n
  <2>5. n[0] = 1 + W /\ \A i \in 1 .. N : n[i] = n[i - 1] + ScalarSize(vs[i])
    <3> DEFINE q(i) == n[i - 1] + ScalarSize(vs[i])
    <3>1. n = [i \in 0 .. N |-> IF i = 0 THEN 1 + W ELSE q(i)]
      BY <2>4, Zenon
    <3> HIDE DEF q
    <3>2. 0 \in 0 .. N /\ \A i \in 1 .. N : i \in 0 .. N /\ i # 0
      BY <2>0
    <3>3. n[0] = 1 + W /\ \A i \in 1 .. N : n[i] = q(i)
      BY <3>1, <3>2, Zenon
    <3> QED  BY <3>3, Zenon DEF q
  <2>6. \A i \in 0 .. N : w[i] = 1 + W + Len(c(i))
    BY Zenon
  <2> HIDE DEF w
  <2>7. \A i \in 0 .. N : n[i] = w[i]
    <3>0. N \in Nat
      BY <2>0, Zenon
    <3>1. n[0] = w[0]
      <4>1. 0 \in 0 .. N
        BY <3>0
      <4> QED  BY <2>1, <2>5, <2>6, <2>w, <4>1
    <3>2. ASSUME NEW i \in 1 .. N, n[i - 1] = w[i - 1] PROVE n[i] = w[i]
      <4>1. i \in 0 .. N /\ i - 1 \in 0 .. N
        BY <2>0
      <4> QED  BY <2>2, <2>5, <2>6, <3>2, <4>1, Zenon
    <3>3. SameStep(n, w, N)
      BY <3>1, <3>2, Zenon DEF SameStep
    <3> QED  BY <3>0, <3>3, SameRecursion, ZenonT(60)
  <2>8. Size(v) = 1 + W + Len(c(N))
    BY <2>0, <2>6, <2>7, <2>a, Zenon
  <2>9. Len(Enc(v)) = 1 + W + Len(c(N))
    <3> DEFINE t == <<TAG_ARR>>
               u == u32(N)
               p == c(N)
    <3>1. t \in Text /\ Len(t) = 1
      BY TagText DEF TAG_ARR
    <3>2. u \in Text /\ Len(u) = W
      BY <2>0, u32Bytes, Zenon
    <3>3. p \in Text
      BY <2>0, Zenon
    <3>4. Enc(v) = t \o u \o p
      BY <1>2, <2>b, Zenon DEF Enc, N, vs
    <3> HIDE DEF t, u, p
    <3>5. Len(t \o u \o p) = Len(t) + Len(u) + Len(p)
      BY <3>1, <3>2, <3>3, JoinLength, Zenon
    <3> QED  BY <3>1, <3>2, <3>4, <3>5, Zenon DEF p
  <2> QED  BY <2>0, <2>1, <2>8, <2>9, <2>w
<1> QED  BY <1>1, <1>2, AnswerCases, Zenon

\* The errors are values, they fit in a frame, and out_err writes them.
LEMMA ErrorsAre ==
    ASSUME NEW e \in {TooBig, MergeFailed}
    PROVE  /\ e \in Answers /\ e.tag # TAG_ARR /\ Size(e) <= MaxMsg
           /\ \A buf \in Text : out_err(buf, e.n, e.s) = buf \o Enc(e)
<1>0. Power[W] \in Nat /\ 2 < Power[W] /\ W \in Nat \ {0} /\ MaxMsg \in Nat /\ B > 5 /\ B \in Nat
  <2>1. W \in 0 .. 2 * W /\ W \in Nat \ {0} /\ B > 5 /\ B \in Nat
    BY WidthAssumption, TagAssumption DEF TAG_ARR
  <2>2. Power[W] \in Nat
    BY <2>1, PowerRule, Zenon
  <2> QED  BY <2>1, <2>2, RangeAssumption, LimitAssumption, ErrorAssumption
<1>1. <<1>> \in Text /\ <<2>> \in Text /\ 1 \in 0 .. Power[W] - 1 /\ 2 \in 0 .. Power[W] - 1
  <2>1. 1 \in Byte /\ 2 \in Byte
    BY <1>0 DEF Byte
  <2> QED  BY <1>0, <2>1 DEF Text
<1>2. e \in Scalars
  <2>1. TooBig \in {Err(c, s) : c \in 0 .. Power[W] - 1, s \in Text}
    BY <1>1 DEF TooBig, ERR_TOO_BIG
  <2>2. MergeFailed \in {Err(c, s) : c \in 0 .. Power[W] - 1, s \in Text}
    BY <1>1 DEF MergeFailed, ERR_UNKNOWN
  <2> HIDE DEF TooBig, MergeFailed
  <2> QED  BY <2>1, <2>2 DEF Scalars
<1>3. e.tag = TAG_ERR /\ Len(e.s) = 1
  <2>1. TooBig.tag = TAG_ERR /\ TooBig.s = <<2>>
    BY Zenon DEF TooBig, Err, Value
  <2>2. MergeFailed.tag = TAG_ERR /\ MergeFailed.s = <<1>>
    BY Zenon DEF MergeFailed, Err, Value
  <2> QED  BY <2>1, <2>2
<1>4. e.tag # TAG_ARR
  BY <1>3 DEF TAG_ERR, TAG_ARR
<1>5. Size(e) <= MaxMsg
  <2>1. Size(e) = 1 + 2 * W + Len(e.s)
    BY <1>3, <1>4 DEF Size, ScalarSize, TAG_NIL, TAG_ERR, TAG_STR, TAG_INT, TAG_DBL
  <2> QED  BY <1>0, <1>3, <2>1, ErrorAssumption
<1>6. ASSUME NEW buf \in Text PROVE out_err(buf, e.n, e.s) = buf \o Enc(e)
  <2>1. Put(buf, e) = buf \o Item(e)
    BY <1>2, PutItem, Zenon
  <2>2. Put(buf, e) = out_err(buf, e.n, e.s)
    BY <1>3 DEF Put, TAG_NIL, TAG_ERR, TAG_STR, TAG_INT, TAG_DBL
  <2> QED  BY <1>4, <2>1, <2>2, Zenon DEF Enc
<1> QED  BY <1>2, <1>4, <1>5, <1>6, Zenon DEF Answers

\* response_end leaves what was in the output before the response as it was.
LEMMA EndIs ==
    ASSUME NEW o \in Text, NEW body \in Text
    PROVE  response_end(response_begin(o) \o body, Len(o)) =
               LET b == IF Len(body) > MaxMsg THEN Enc(TooBig) ELSE body
               IN  o \o u32(Len(b)) \o b
<1> DEFINE z == u32(0)
           oz == o \o z
           buf == oz \o body
           e == Enc(TooBig)
<1>0. W \in Nat /\ MaxMsg \in Nat /\ Len(o) \in Nat /\ Len(body) \in Nat
  BY WidthAssumption, LimitAssumption DEF Text
<1>1. z \in Text /\ Len(z) = W
  BY u32Bytes, Zenon
<1>z. z \in Text
  BY <1>1, Zenon
<1> HIDE DEF z
<1>2. oz \in Text /\ Len(oz) = Len(o) + Len(z)
  BY <1>z, JoinText, Zenon
<1>3. Len(buf) = Len(oz) + Len(body)
  BY <1>2, JoinText, Zenon
<1>4. Len(oz) = Len(o) + W
  BY <1>1, <1>2, Zenon
<1>5. response_begin(o) \o body = buf
  BY Zenon DEF response_begin, z
<1>b. TooBig \in Answers /\ <<>> \in Text
  BY ErrorsAre DEF Text
<1>e. e \in Text
  BY <1>b, WriteIs, Zenon
<1>6. ASSUME NEW b \in Text PROVE Patch(oz \o b, Len(o), Len(oz \o b) - Len(o) - W) = o \o u32(Len(b)) \o b
  <2>1. Len(oz \o b) = Len(oz) + Len(b) /\ Len(b) \in Nat
    BY <1>2, JoinText DEF Text
  <2>2. Len(oz \o b) - Len(o) - W = Len(b)
    BY <1>0, <1>4, <2>1
  <2>3. Len(z) = W /\ Len(b) \in Nat
    BY <1>1, <2>1, Zenon
  <2>4. Patch(o \o z \o b, Len(o), Len(b)) = o \o u32(Len(b)) \o b
    BY <1>z, <2>3, PatchIs, ZenonT(60)
  <2> QED  BY <2>2, <2>4, Zenon
<1>7. SubSeq(buf, 1, Len(o) + W) = oz
  <2>1. <<>> \in Text
    BY DEF Text
  <2> HIDE DEF oz
  <2>2. At(<<>> \o oz \o body, 0, Len(oz)) = oz
    BY <1>2, <2>1, AtKnown, Zenon
  <2>3. <<>> \o oz = oz
    BY <1>2 DEF Text
  <2> QED  BY <1>0, <1>4, <2>2, <2>3 DEF At
<1>8. Len(buf) - Len(o) - W = Len(body)
  BY <1>0, <1>3, <1>4
<1> HIDE DEF e, oz, buf
<1>9. CASE Len(body) > MaxMsg
  <2>1. out_err(SubSeq(buf, 1, Len(o) + W), TooBig.n, TooBig.s) = oz \o e
    BY <1>2, <1>7, ErrorsAre, Zenon DEF e
  <2>2. response_end(buf, Len(o)) = Patch(oz \o e, Len(o), Len(oz \o e) - Len(o) - W)
    BY <1>8, <1>9, <2>1, Zenon DEF response_end
  <2> QED  BY <1>5, <1>6, <1>9, <1>e, <2>2, Zenon DEF e
<1>10. CASE ~(Len(body) > MaxMsg)
  <2>1. response_end(buf, Len(o)) = Patch(buf, Len(o), Len(buf) - Len(o) - W)
    BY <1>8, <1>10, Zenon DEF response_end
  <2> QED  BY <1>5, <1>6, <1>10, <2>1, ZenonT(60) DEF buf
<1> QED  BY <1>9, <1>10, Zenon

\* A request is answered with one frame, which holds the value or the error.
LEMMA FrameOfAnswer ==
    ASSUME NEW o \in Text, NEW v \in Answers
    PROVE  /\ response_end(response_begin(o) \o Enc(v), Len(o)) =
                  o \o u32(Len(Enc(Shown(v)))) \o Enc(Shown(v))
           /\ Shown(v) \in Answers /\ Enc(Shown(v)) \in Text /\ Len(Enc(Shown(v))) <= MaxMsg
           /\ Len(Enc(Shown(v))) \in Nat \ {0}
<1>1. Enc(v) \in Text
  BY WriteIs, Zenon
<1>2. Size(v) = Len(Enc(v)) /\ Len(Enc(v)) \in Nat \ {0}
  BY SizeIs, Zenon
<1>3. TooBig \in Answers /\ Size(TooBig) <= MaxMsg
  BY ErrorsAre, Zenon
<1>4. Shown(v) \in Answers /\ Size(Shown(v)) <= MaxMsg
  BY <1>2, <1>3, LimitAssumption DEF Shown
<1>5. Enc(Shown(v)) = IF Len(Enc(v)) > MaxMsg THEN Enc(TooBig) ELSE Enc(v)
  BY <1>2, Zenon DEF Shown
<1>6. Enc(Shown(v)) \in Text
  BY <1>1, <1>4, WriteIs, Zenon
<1>7. Size(Shown(v)) = Len(Enc(Shown(v))) /\ Len(Enc(Shown(v))) \in Nat \ {0}
  BY <1>4, SizeIs, Zenon
<1>8. response_end(response_begin(o) \o Enc(v), Len(o)) =
          LET b == IF Len(Enc(v)) > MaxMsg THEN Enc(TooBig) ELSE Enc(v) IN o \o u32(Len(b)) \o b
  BY <1>1, EndIs, Zenon
<1> HIDE DEF Shown
<1> QED  BY <1>4, <1>5, <1>6, <1>7, <1>8, ZenonT(60)

-----------------------------------------------------------------------------
\* The bytes of an array up to its member k.
Before(v, k) == <<TAG_ARR>> \o u32(Len(v.items)) \o Chain(Items(v.items))[k]

\* Each member takes some bytes.
LEMMA BeforeIs ==
    ASSUME NEW v \in Answers, v.tag = TAG_ARR
    PROVE  LET N == Len(v.items)
           IN  /\ N \in Nat /\ v.items \in Seq(Scalars)
               /\ \A k \in 0 .. N : Before(v, k) \in Text
               /\ \A k \in 0 .. N : Len(Before(v, k)) \in Nat /\ Len(Before(v, k)) >= 1 + W + k
               /\ \A k \in 1 .. N : /\ Len(Before(v, k)) = Len(Before(v, k - 1)) + Len(Item(v.items[k]))
                                    /\ Item(v.items[k]) \in Text /\ Len(Item(v.items[k])) \in Nat \ {0}
               /\ Len(Before(v, 0)) = 1 + W
               /\ Before(v, N) = Enc(v)
<1> DEFINE vs == v.items
           N == Len(vs)
           c(k) == Chain(Items(vs))[k]
           t == <<TAG_ARR>>
           u == u32(N)
           b(k) == Before(v, k)
           s(k) == Item(vs[k])
           G == {k \in 0 .. N : Len(c(k)) >= k}
<1>v. vs \in Seq(Scalars)
  BY AnswerCases, Zenon
<1>0. /\ N \in Nat /\ N \in 0 .. N /\ c(0) = <<>>
      /\ \A i \in 0 .. N : c(i) \in Text
      /\ \A i \in 1 .. N : vs[i] \in Scalars /\ c(i) = c(i - 1) \o Item(vs[i]) /\ Item(vs[i]) \in Text
  BY <1>v, ChainItems, Zenon
<1>1. t \in Text /\ Len(t) = 1 /\ W \in Nat
  BY TagText, WidthAssumption DEF TAG_ARR
<1>2. u \in Text /\ Len(u) = W
  BY <1>0, u32Bytes, Zenon
<1>3. b(N) = Enc(v) /\ \A k : b(k) = t \o u \o c(k)
  BY Zenon DEF Before, Enc, Packed
<1>4. ASSUME NEW k \in 1 .. N PROVE s(k) \in Text /\ Len(s(k)) \in Nat \ {0}
  <2>1. <<>> \in Text
    BY DEF Text
  <2> QED  BY <1>0, <2>1, PutItem, Zenon
<1> HIDE DEF t, u, c, b, s, N, vs
<1>5. ASSUME NEW k \in 0 .. N PROVE b(k) \in Text /\ Len(c(k)) \in Nat /\ Len(b(k)) = 1 + W + Len(c(k))
  <2> DEFINE d == c(k)
  <2>1. d \in Text
    BY <1>0, Zenon
  <2>2. b(k) = t \o u \o d
    BY <1>3, Zenon
  <2>3. t \in Text
    BY <1>1, Zenon
  <2>4. u \in Text
    BY <1>2, Zenon
  <2>5. Len(d) \in Nat
    BY <2>1 DEF Text
  <2> HIDE DEF d
  <2>6. t \o u \o d \in Text /\ Len(t \o u \o d) = Len(t) + Len(u) + Len(d)
    BY <2>1, <2>3, <2>4, JoinLength, ZenonT(60)
  <2> QED  BY <1>1, <1>2, <2>2, <2>5, <2>6, ZenonT(60) DEF d
<1>6. ASSUME NEW k \in 1 .. N PROVE k - 1 \in 0 .. N /\ k \in 0 .. N /\ Len(c(k)) = Len(c(k - 1)) + Len(s(k))
  <2> DEFINE d == c(k - 1)
             i == s(k)
  <2>1. k - 1 \in 0 .. N /\ k \in 0 .. N
    BY <1>0
  <2>2. d \in Text
    BY <1>0, <2>1, Zenon
  <2>3. i \in Text
    BY <1>4, Zenon
  <2>4. c(k) = d \o i
    BY <1>0, Zenon DEF s
  <2> HIDE DEF d, i
  <2>5. Len(d \o i) = Len(d) + Len(i)
    BY <2>2, <2>3, JoinText, Zenon
  <2> QED  BY <2>1, <2>4, <2>5, Zenon DEF d, i
<1>7. \A k \in 0 .. N : Len(c(k)) >= k
  <2>1. 0 \in G
    BY <1>0
  <2>2. ASSUME NEW k \in 0 .. N - 1, k \in G PROVE k + 1 \in G
    <3>1. k + 1 \in 1 .. N /\ (k + 1) - 1 = k /\ k + 1 \in 0 .. N /\ k \in 0 .. N
      BY <1>0
    <3>2. Len(c(k + 1)) = Len(c(k)) + Len(s(k + 1)) /\ Len(s(k + 1)) \in Nat \ {0} /\ Len(c(k)) \in Nat
      BY <1>4, <1>5, <1>6, <3>1, ZenonT(60)
    <3>3. Len(c(k)) >= k
      BY <2>2, Zenon
    <3>4. Len(c(k + 1)) >= k + 1
      BY <3>1, <3>2, <3>3
    <3> QED  BY <3>1, <3>4, Zenon
  <2>3. \A k \in 0 .. N - 1 : k \in G => k + 1 \in G
    BY <2>2, ZenonT(60)
  <2>4. \A m \in 0 .. N : m \in G
    <3> HIDE DEF G
    <3>1. N \in Nat
      BY <1>0, Zenon
    <3> QED  BY <2>1, <2>3, <3>1, InductionUpto, ZenonT(60)
  <2> QED  BY <2>4, Zenon
<1>8. ASSUME NEW k \in 0 .. N PROVE Len(b(k)) \in Nat /\ Len(b(k)) >= 1 + W + k
  BY <1>0, <1>1, <1>5, <1>7
<1>9. ASSUME NEW k \in 1 .. N PROVE Len(b(k)) = Len(b(k - 1)) + Len(s(k))
  <2>1. Len(b(k)) = 1 + W + Len(c(k)) /\ Len(b(k - 1)) = 1 + W + Len(c(k - 1)) /\ Len(c(k - 1)) \in Nat
    BY <1>5, <1>6, Zenon
  <2>2. Len(c(k)) = Len(c(k - 1)) + Len(s(k)) /\ Len(s(k)) \in Nat
    BY <1>4, <1>6, Zenon
  <2> QED  BY <1>1, <2>1, <2>2
<1>10. Len(b(0)) = 1 + W
  <2>1. 0 \in 0 .. N /\ Len(c(0)) = 0
    BY <1>0
  <2> QED  BY <1>1, <1>5, <2>1
<1>11. \A k \in 0 .. N : b(k) \in Text
  BY <1>5, Zenon
<1> QED  BY <1>v, <1>0, <1>3, <1>4, <1>8, <1>9, <1>10, <1>11, ZenonT(60) DEF b, s, N, vs

\* A member with what follows it.
LEMMA RestOf ==
    ASSUME NEW v \in Answers, v.tag = TAG_ARR, NEW k \in 1 .. Len(v.items)
    PROVE  \E rest \in Text : Enc(v) = Before(v, k - 1) \o (Item(v.items[k]) \o rest)
<1> DEFINE vs == v.items
           N == Len(vs)
           c(i) == Chain(Items(vs))[i]
           h == <<TAG_ARR>> \o u32(N)
           s == Item(vs[k])
           d == c(k - 1)
<1>v. vs \in Seq(Scalars)
  BY AnswerCases, Zenon
<1>0. /\ N \in Nat /\ \A i \in 0 .. N : c(i) \in Text
      /\ \A i \in 1 .. N : vs[i] \in Scalars /\ c(i) = c(i - 1) \o Item(vs[i]) /\ Item(vs[i]) \in Text
  BY <1>v, ChainItems, Zenon
<1>1. \E rest \in Text : c(N) = c(k) \o rest
  <2>1. Items(vs) \in Command /\ Len(Items(vs)) = N
    BY <1>v, ItemsAre, Zenon
  <2>2. k \in 0 .. N
    BY <1>0
  <2> QED  BY <2>1, <2>2, ChainExtend, ZenonT(60)
<1>2. Enc(v) = h \o c(N) /\ Before(v, k - 1) = h \o d
  BY Zenon DEF Enc, Packed, Before
<1>3. h \in Text
  <2>1. <<TAG_ARR>> \in Text
    BY TagText DEF TAG_ARR
  <2>2. u32(N) \in Text
    BY <1>0, u32Bytes, Zenon
  <2> QED  BY <2>1, <2>2, JoinText, ZenonT(60)
<1>4. s \in Text /\ c(k) = d \o s
  BY <1>0, Zenon
<1>5. s \in Text
  BY <1>4, Zenon
<1>6. d \in Text
  <2>1. k - 1 \in 0 .. N
    BY <1>0
  <2> QED  BY <1>0, <2>1, Zenon
<1>7. PICK rest \in Text : c(N) = c(k) \o rest
  BY <1>1, Zenon
<1> HIDE DEF h, s, d, c
<1>8. s \o rest \in Text
  BY <1>5, JoinText, Zenon
<1>9. (d \o s) \o rest = d \o (s \o rest)
  BY <1>5, <1>6, Grouping, Zenon
<1>10. h \o (d \o (s \o rest)) = (h \o d) \o (s \o rest)
  <2> DEFINE sr == s \o rest
  <2>1. sr \in Text
    BY <1>8, Zenon
  <2> HIDE DEF sr
  <2>2. (h \o d) \o sr = h \o (d \o sr)
    BY <1>3, <1>6, <2>1, Grouping, ZenonT(60)
  <2> QED  BY <2>2, Zenon DEF sr
<1>11. Enc(v) = Before(v, k - 1) \o (s \o rest)
  BY <1>2, <1>4, <1>7, <1>9, <1>10, Zenon
<1> QED  BY <1>11, Zenon DEF s, vs

\* The tag and the number of members come first.
LEMMA HeadOf ==
    ASSUME NEW v \in Answers, v.tag = TAG_ARR, Len(Enc(v)) <= MaxMsg
    PROVE  Enc(v)[1] = TAG_ARR /\ U32(At(Enc(v), 1, W)) = Len(v.items) /\ Len(Enc(v)) >= 1 + W
<1> DEFINE N == Len(v.items)
           t == <<TAG_ARR>>
           u == u32(N)
           p == Packed(v.items)
<1>0. N \in Nat /\ Len(Enc(v)) \in Nat /\ Len(Enc(v)) >= 1 + W + N
  <2>1. N \in Nat /\ N \in 0 .. N
    BY BeforeIs
  <2> QED  BY <2>1, BeforeIs, Zenon
<1>1. N < Power[W] /\ Len(Enc(v)) >= 1 + W
  <2>1. W \in 0 .. 2 * W /\ W \in Nat
    BY WidthAssumption
  <2>2. Power[W] \in Nat
    BY <2>1, PowerRule, Zenon
  <2>3. W \in Nat /\ MaxMsg \in Nat /\ MaxMsg < Power[W]
    BY <2>1, RangeAssumption, LimitAssumption, Zenon
  <2>4. N <= MaxMsg /\ Len(Enc(v)) >= 1 + W
    <3> HIDE DEF N
    <3> QED  BY <1>0, <2>3
  <2> HIDE DEF N
  <2> QED  BY <1>0, <2>2, <2>3, <2>4
<1>2. t \in Text /\ Len(t) = 1 /\ \A x \in Text : (t \o x)[1] = TAG_ARR
  BY TagText DEF TAG_ARR
<1>3. u \in Text /\ Len(u) = W
  BY <1>0, u32Bytes, Zenon
<1>4. p \in Text
  <2>1. v.items \in Seq(Scalars) /\ <<>> \in Text
    BY AnswerCases DEF Text
  <2> QED  BY <2>1, PutAllIs, Zenon
<1>5. Enc(v) = t \o u \o p
  BY Zenon DEF Enc
<1>6. U32(u) = N
  BY <1>0, <1>1, u32Inverse, ZenonT(60)
<1>7. t \in Text
  BY <1>2, Zenon
<1>8. u \in Text
  BY <1>3, Zenon
<1> HIDE DEF t, u, p, N
<1>9. At(t \o u \o p, Len(t), Len(u)) = u
  BY <1>4, <1>7, <1>8, AtKnown, Zenon
<1>10. t \o u \o p = t \o (u \o p)
  BY <1>4, <1>7, <1>8, Grouping, Zenon
<1>11. u \o p \in Text
  BY <1>4, <1>8, JoinText, Zenon
<1> QED  BY <1>1, <1>2, <1>3, <1>5, <1>6, <1>9, <1>10, <1>11, Zenon DEF N

\* The first elements of a sequence, one more at a time.
LEMMA Prefixes ==
    ASSUME NEW S, NEW vs \in Seq(S)
    PROVE  /\ SubSeq(vs, 1, 0) = <<>> /\ SubSeq(vs, 1, Len(vs)) = vs
           /\ \A k \in 1 .. Len(vs) : Append(SubSeq(vs, 1, k - 1), vs[k]) = SubSeq(vs, 1, k)
<1> DEFINE N == Len(vs)
           p(k) == SubSeq(vs, 1, k)
<1>0. N \in Nat /\ vs = [i \in 1 .. N |-> vs[i]]
  OBVIOUS
<1>1. ASSUME NEW k \in 0 .. N
      PROVE  p(k) \in Seq(S) /\ Len(p(k)) = k /\ \A i \in 1 .. k : p(k)[i] = vs[i]
  BY <1>0
<1>2. p(0) = <<>>
  BY <1>0
<1>3. p(N) = vs
  <2>1. p(N) \in Seq(S) /\ Len(p(N)) = N /\ \A i \in 1 .. N : p(N)[i] = vs[i]
    BY <1>0, <1>1
  <2> HIDE DEF p
  <2> QED  BY <1>0, <2>1, SameElements, Zenon
<1>4. ASSUME NEW k \in 1 .. N PROVE Append(p(k - 1), vs[k]) = p(k)
  <2> DEFINE a == Append(p(k - 1), vs[k])
  <2>0. k - 1 \in 0 .. N /\ k \in 0 .. N /\ vs[k] \in S
    BY <1>0
  <2>1. p(k - 1) \in Seq(S) /\ Len(p(k - 1)) = k - 1 /\ \A i \in 1 .. k - 1 : p(k - 1)[i] = vs[i]
    BY <1>1, <2>0, Zenon
  <2>2. p(k) \in Seq(S) /\ Len(p(k)) = k /\ \A i \in 1 .. k : p(k)[i] = vs[i]
    BY <1>1, <2>0, Zenon
  <2> HIDE DEF p
  <2>3. a \in Seq(S) /\ Len(a) = k /\ \A i \in 1 .. k : a[i] = vs[i]
    BY <2>0, <2>1
  <2> HIDE DEF a
  <2>4. a = p(k)
    BY <2>2, <2>3, SameElements, ZenonT(60)
  <2> QED  BY <2>4, Zenon DEF a
<1> QED  BY <1>2, <1>3, <1>4, ZenonT(60)

\* An array is printed member by member.
LEMMA PrintArray ==
    ASSUME NEW deeper, NEW v \in Answers, v.tag = TAG_ARR, Len(Enc(v)) <= MaxMsg
    PROVE  Printing(Printing(deeper))[Enc(v)] = [n |-> Len(Enc(v)), v |-> v]
<1> DEFINE inner == Printing(deeper)
           data == Enc(v)
           vs == v.items
           N == Len(vs)
           b(k) == Len(Before(v, k))
           p(k) == Arr(SubSeq(vs, 1, k))
           w == [k \in 0 .. N |-> [n |-> b(k), v |-> p(k)]]
           Step(done) == LET r == inner[At(data, done.n, Len(data) - done.n)]
                         IN  IF done.n < 0 \/ r.n < 0 THEN Failed
                             ELSE [n |-> done.n + r.n, v |-> Arr(Append(done.v.items, r.v))]
           start == [n |-> 1 + W, v |-> Arr(<<>>)]
           F(f) == [k \in 0 .. N |-> IF k = 0 THEN start ELSE Step(f[k - 1])]
           loop == CHOOSE f : f = F(f)
<1>0. data[1] = TAG_ARR /\ U32(At(data, 1, W)) = N /\ Len(data) >= 1 + W /\ v = Arr(vs)
  BY HeadOf, AnswerCases, Zenon
<1>1. N \in Nat /\ vs \in Seq(Scalars) /\ b(0) = 1 + W /\ b(N) = Len(data) /\ data \in Text /\ N \in 0 .. N
  <2>1. N \in Nat /\ vs \in Seq(Scalars)
    BY BeforeIs, Zenon
  <2>2. b(0) = 1 + W /\ Before(v, N) = data
    BY BeforeIs, Zenon
  <2>3. data \in Text
    BY <2>1, <2>2, BeforeIs
  <2> QED  BY <2>1, <2>2, <2>3
<1>2. /\ \A k \in 0 .. N : Before(v, k) \in Text
      /\ \A k \in 0 .. N : b(k) \in Nat /\ b(k) >= 1 + W + k
      /\ \A k \in 1 .. N : b(k) = b(k - 1) + Len(Item(vs[k])) /\ Item(vs[k]) \in Text /\ Len(Item(vs[k])) \in Nat \ {0}
  BY BeforeIs, Zenon
<1>3. ASSUME NEW k \in 1 .. N PROVE inner[At(data, b(k - 1), Len(data) - b(k - 1))] = [n |-> Len(Item(vs[k])), v |-> vs[k]]
  <2> DEFINE x == Before(v, k - 1)
             s == Item(vs[k])
  <2>1. PICK rest \in Text : data = x \o (s \o rest)
    BY RestOf, Zenon
  <2>2. k - 1 \in 0 .. N /\ vs[k] \in Scalars
    BY <1>1
  <2>3. x \in Text
    BY <1>2, <2>2, Zenon
  <2>4. s \in Text /\ Len(s) \in Nat
    BY <1>2, Zenon
  <2>5. s \o rest \in Text /\ Len(s \o rest) = Len(s) + Len(rest) /\ Len(rest) \in Nat
    BY <2>4, JoinText DEF Text
  <2> HIDE DEF x, s, data
  <2>6. /\ Len(x \o (s \o rest)) = Len(x) + Len(s \o rest) /\ Len(x) \in Nat
        /\ At(x \o (s \o rest), Len(x), Len(x \o (s \o rest)) - Len(x)) = s \o rest
    <3> DEFINE y == s \o rest
    <3>1. y \in Text
      BY <2>5, Zenon
    <3> HIDE DEF y
    <3>2. /\ Len(x \o y) = Len(x) + Len(y) /\ Len(x) \in Nat
          /\ At(x \o y, Len(x), Len(x \o y) - Len(x)) = y
      BY <2>3, <3>1, AtRest, ZenonT(60)
    <3> QED  BY <3>2, Zenon DEF y
  <2>7. Len(s) <= MaxMsg
    <3>1. Len(x) + (Len(s) + Len(rest)) <= MaxMsg
      BY <2>1, <2>5, <2>6, Zenon DEF data
    <3> QED  BY <2>4, <2>5, <2>6, <3>1, LimitAssumption
  <2>8. inner[s \o rest] = [n |-> Len(s), v |-> vs[k]]
    BY <2>2, <2>7, PrintItem, ZenonT(60) DEF s
  <2> QED  BY <2>1, <2>6, <2>8, Zenon DEF x, s
<1>4. /\ p(0) = Arr(<<>>) /\ p(N) = v
      /\ \A k \in 1 .. N : Arr(Append(p(k - 1).items, vs[k])) = p(k)
  <2>1. \A vv : Arr(vv).items = vv
    BY Zenon DEF Arr, Value
  <2>2. SubSeq(vs, 1, 0) = <<>> /\ SubSeq(vs, 1, N) = vs
    BY <1>1, Prefixes, Zenon
  <2>3. \A k \in 1 .. N : Append(SubSeq(vs, 1, k - 1), vs[k]) = SubSeq(vs, 1, k)
    BY <1>1, Prefixes, Zenon
  <2> QED  BY <1>0, <2>1, <2>2, <2>3, Zenon
<1>a. data \in Seq(Int) /\ Len(data) \in Nat \ {0}
  <2>1. data \in Seq(Byte)
    BY <1>1, Zenon DEF Text
  <2> HIDE DEF data
  <2>2. data \in Seq(Int)
    <3>1. Len(data) \in Nat /\ DOMAIN data = 1 .. Len(data) /\ data = [i \in 1 .. Len(data) |-> data[i]]
      BY <2>1
    <3>2. \A i \in 1 .. Len(data) : data[i] \in Int
      BY <2>1, <3>1, WidthAssumption DEF Byte
    <3>3. data \in [1 .. Len(data) -> Int]
      BY <3>1, <3>2, Zenon
    <3> QED  BY <3>1, <3>3
  <2>3. Len(data) \in Nat
    BY <2>1
  <2> QED  BY <1>0, <2>2, <2>3, WidthAssumption
<1>5. Printing(inner)[data] = Members(inner, data)[Word(data, 0)] /\ Word(data, 0) = N
  <2>1. Word(data, 0) = U32(At(data, 1, W))
    BY WidthAssumption DEF Word
  <2>2. Printing(inner)[data] = Members(inner, data)[Word(data, 0)]
    <3> HIDE DEF inner, data
    <3> QED  BY <1>0, <1>a, PrintingIs, Zenon
  <2> QED  BY <1>0, <2>1, <2>2, Zenon
<1>6. Members(inner, data) = loop
  BY <1>5, ZenonT(60) DEF Members
<1> HIDE DEF inner, data, vs, N, b, p, start
<1>7. ASSUME NEW k \in 1 .. N PROVE Step([n |-> b(k - 1), v |-> p(k - 1)]) = [n |-> b(k), v |-> p(k)]
  <2> DEFINE d == [n |-> b(k - 1), v |-> p(k - 1)]
             r == inner[At(data, d.n, Len(data) - d.n)]
  <2>1. d.n = b(k - 1) /\ d.v = p(k - 1)
    BY Zenon
  <2>2. r = [n |-> Len(Item(vs[k])), v |-> vs[k]]
    BY <1>3, <2>1, Zenon
  <2>3. r.n = Len(Item(vs[k])) /\ r.v = vs[k]
    BY <2>2
  <2>4. b(k - 1) \in Nat /\ Len(Item(vs[k])) \in Nat /\ b(k) = b(k - 1) + Len(Item(vs[k]))
    <3>1. k - 1 \in 0 .. N
      BY <1>1
    <3> QED  BY <1>2, <3>1, Zenon
  <2> HIDE DEF d, r
  <2>5. ~(d.n < 0 \/ r.n < 0)
    BY <2>1, <2>3, <2>4
  <2>6. Step(d) = [n |-> d.n + r.n, v |-> Arr(Append(d.v.items, r.v))]
    BY <2>5, Zenon DEF Step, r
  <2> QED  BY <1>4, <2>1, <2>3, <2>4, <2>6, ZenonT(60) DEF d
<1> HIDE DEF Step
<1>8. w = F(w)
  <2> DEFINE e(k) == [n |-> b(k), v |-> p(k)]
             q(k) == IF k = 0 THEN start ELSE Step(w[k - 1])
  <2>1. ASSUME NEW k \in 0 .. N PROVE e(k) = q(k)
    <3>1. CASE k = 0
      BY <1>1, <1>4, <3>1, Zenon DEF start
    <3>2. CASE k # 0
      <4>1. k \in 1 .. N /\ k - 1 \in 0 .. N
        BY <1>1, <3>2
      <4>2. w[k - 1] = e(k - 1)
        BY <4>1, Zenon
      <4> HIDE DEF w
      <4> QED  BY <1>7, <3>2, <4>1, <4>2, ZenonT(60)
    <3> QED  BY <3>1, <3>2, Zenon
  <2>2. w = [k \in 0 .. N |-> e(k)]
    BY Zenon
  <2> HIDE DEF e, q, w
  <2>3. w = [k \in 0 .. N |-> q(k)]
    BY <2>1, <2>2, Zenon
  <2> QED  BY <2>3, Zenon DEF q
<1>9. loop = F(loop)
  <2> HIDE DEF F, w
  <2> QED  BY <1>8, Zenon
<1> HIDE DEF loop
<1>11. loop[0] = start /\ \A k \in 1 .. N : loop[k] = Step(loop[k - 1])
  BY <1>1, <1>9
<1>12. w[N] = [n |-> Len(data), v |-> v]
  BY <1>1, <1>4, Zenon
<1> HIDE DEF w
<1>10. w[0] = start /\ \A k \in 1 .. N : w[k] = Step(w[k - 1])
  <2> DEFINE q(k) == Step(w[k - 1])
  <2>1. w = [k \in 0 .. N |-> IF k = 0 THEN start ELSE q(k)]
    BY <1>8, Zenon
  <2> HIDE DEF q
  <2>2. 0 \in 0 .. N /\ \A k \in 1 .. N : k \in 0 .. N /\ k # 0
    BY <1>1
  <2>3. w[0] = start /\ \A k \in 1 .. N : w[k] = q(k)
    BY <2>1, <2>2, Zenon
  <2> QED  BY <2>3, Zenon DEF q
<1>13. SameStep(loop, w, N)
  BY <1>10, <1>11, Zenon DEF SameStep
<1>14. loop[N] = w[N]
  BY <1>1, <1>13, SameRecursion, ZenonT(60)
<1> QED  BY <1>5, <1>6, <1>12, <1>14, ZenonT(60) DEF inner, data

\* A value in a frame is shown as it is, and to the last byte.
LEMMA PrintAnswer ==
    ASSUME NEW v \in Answers, Len(Enc(v)) <= MaxMsg
    PROVE  print_response(Enc(v), 0) = [n |-> Len(Enc(v)), v |-> v]
<1>1. MaxDepth \in Nat \ {0} /\ MaxDepth \in 1 .. MaxDepth + 1 /\ MaxDepth + 1 \in 1 .. MaxDepth + 1
  BY DepthAssumption
<1>2. Printer[MaxDepth + 1] = Printing(Printer[MaxDepth]) /\ Printer[MaxDepth] = Printing(Printer[MaxDepth - 1])
  <2>1. (MaxDepth + 1) - 1 = MaxDepth
    BY <1>1
  <2> QED  BY <1>1, <2>1, PrinterRule, Zenon
<1>3. print_response(Enc(v), 0) = Printing(Printer[MaxDepth])[Enc(v)]
  BY <1>1, <1>2 DEF print_response
<1>4. CASE v \in Scalars /\ v.tag # TAG_ARR
  <2>1. <<>> \in Text
    BY DEF Text
  <2>2. Enc(v) = Item(v) /\ Item(v) \in Text
    BY <1>4, <2>1, PutItem, Zenon DEF Enc
  <2>3. Item(v) \o <<>> = Item(v)
    BY <2>2 DEF Text
  <2>4. Printing(Printer[MaxDepth])[Item(v) \o <<>>] = [n |-> Len(Item(v)), v |-> v]
    BY <1>4, <2>1, <2>2, PrintItem, ZenonT(60)
  <2> QED  BY <1>3, <2>2, <2>3, <2>4, Zenon
<1>5. CASE v.tag = TAG_ARR
  <2>1. Printing(Printing(Printer[MaxDepth - 1]))[Enc(v)] = [n |-> Len(Enc(v)), v |-> v]
    BY <1>5, PrintArray, Zenon
  <2> QED
    BY <1>2, <1>3, <2>1, Zenon
<1> QED  BY <1>4, <1>5, AnswerCases, Zenon

-----------------------------------------------------------------------------
\* A value with the tag of a string is one, and written as its length and text.
LEMMA StringIs ==
    ASSUME NEW v \in Scalars, v.tag = TAG_STR
    PROVE  v.s \in Text /\ v = Str(v.s) /\ Item(v) = <<TAG_STR>> \o u32(Len(v.s)) \o v.s
<1>1. \A s : Str(s).s = s
  BY Zenon DEF Str, Value
<1>2. v # Nil
  BY DEF Nil, Value, TAG_NIL, TAG_STR
<1>3. \A n : v # Num64(n)
  BY DEF Num64, Value, TAG_INT, TAG_STR
<1>4. \A b : v # Dbl(b)
  BY DEF Dbl, Value, TAG_DBL, TAG_STR
<1>5. \A c, s : v # Err(c, s)
  BY DEF Err, Value, TAG_ERR, TAG_STR
<1>6. PICK s \in Text : v = Str(s)
  BY <1>2, <1>3, <1>4, <1>5, ScalarCases, Zenon
<1>7. v.s = s
  BY <1>1, <1>6, Zenon
<1>8. Item(Str(s)) = <<TAG_STR>> \o u32(Len(s)) \o s
  BY ItemIs, Zenon
<1> QED  BY <1>6, <1>7, <1>8, Zenon

\* The tag of a member, behind whatever there is.
LEMMA TagAt ==
    ASSUME NEW x \in Text, NEW v \in Scalars, NEW rest \in Text
    PROVE  (x \o (Item(v) \o rest))[Len(x) + 1] = v.tag
<1> DEFINE s == Item(v)
           y == s \o rest
<1>1. s \in Text /\ Len(s) \in Nat \ {0} /\ s[1] = v.tag
  <2>1. <<>> \in Text
    BY DEF Text
  <2> QED  BY <2>1, PutItem, Zenon
<1>2. y \in Text /\ Len(y) = Len(s) + Len(rest) /\ Len(rest) \in Nat
  BY <1>1, JoinText DEF Text
<1> HIDE DEF s
<1>3. y[1] = v.tag
  <2>1. s \in Seq(Byte) /\ rest \in Seq(Byte)
    BY <1>1, Zenon DEF Text
  <2> QED  BY <1>1, <1>2, <2>1
<1> HIDE DEF y
<1>4. Len(x) \in Nat /\ x \in Seq(Byte) /\ y \in Seq(Byte) /\ Len(y) >= 1
  BY <1>1, <1>2 DEF Text
<1>5. (x \o y)[Len(x) + 1] = y[1]
  BY <1>4
<1> QED  BY <1>3, <1>5, Zenon DEF y, s

\* A member between what comes before it and what follows.
Holds(d, x, v, rest) == d = x \o (Item(v) \o rest)

\* A string, behind whatever there is.
LEMMA StringAt ==
    ASSUME NEW x \in Text, NEW v \in Scalars, v.tag = TAG_STR, NEW rest \in Text,
           NEW body, Holds(body, x, v, rest), Len(v.s) <= MaxMsg
    PROVE  /\ U32(At(body, Len(x) + 1, W)) = Len(v.s)
           /\ At(body, Len(x) + 1 + W, Len(v.s)) = v.s
           /\ Len(body) = Len(x) + 1 + W + Len(v.s) + Len(rest)
           /\ Len(x) \in Nat /\ Len(v.s) \in Nat /\ Len(rest) \in Nat
           /\ Len(Item(v)) = 1 + W + Len(v.s)
<1> DEFINE s == v.s
           u == u32(Len(s))
           t == <<TAG_STR>>
           g == x \o t
           tu == t \o u
<1>1. s \in Text
  BY StringIs, Zenon
<1>2. Item(v) = t \o u \o s
  BY StringIs, Zenon
<1>3. Len(s) \in Nat /\ Len(x) \in Nat /\ Len(rest) \in Nat
  BY <1>1 DEF Text
<1>4. u \in Text
  BY <1>3, u32Bytes, Zenon
<1>5. Len(u) = W
  BY <1>3, u32Bytes, Zenon
<1>6. t \in Text
  BY TagText DEF TAG_STR, TAG_ARR
<1>7. Len(t) = 1
  BY Zenon
<1>8. U32(u) = Len(s)
  <2>1. W \in 0 .. 2 * W
    BY WidthAssumption
  <2>2. Power[W] \in Nat
    BY <2>1, PowerRule, Zenon
  <2>3. Len(s) < Power[W]
    <3> HIDE DEF s
    <3> QED  BY <1>3, <2>2, RangeAssumption, LimitAssumption DEF s
  <2> QED  BY <1>3, <2>3, u32Inverse, Zenon
<1> HIDE DEF s, u, t
<1>9. g \in Text /\ Len(g) = Len(x) + 1
  <2>1. g \in Text /\ Len(g) = Len(x) + Len(t)
    BY <1>6, JoinText, Zenon
  <2> QED  BY <1>7, <2>1, Zenon
<1>10. body = g \o u \o s \o rest
  <2>1. tu \in Text
    BY <1>4, <1>6, JoinText, Zenon
  <2> DEFINE i == tu \o s
             sr == s \o rest
  <2>2. i \o rest = tu \o sr
    <3> HIDE DEF tu
    <3> QED  BY <1>1, <2>1, Grouping, Zenon
  <2>3. sr \in Text
    BY <1>1, JoinText, Zenon
  <2>4. tu \o sr = t \o (u \o sr)
    <3> HIDE DEF sr
    <3> QED  BY <1>4, <1>6, <2>3, Grouping, ZenonT(60)
  <2>5. u \o sr \in Text
    <3> HIDE DEF sr
    <3> QED  BY <1>4, <2>3, JoinText, Zenon
  <2>6. x \o (t \o (u \o sr)) = g \o (u \o sr)
    <3> DEFINE y == u \o sr
    <3>1. y \in Text
      BY <2>5, Zenon
    <3> HIDE DEF y
    <3>2. (x \o t) \o y = x \o (t \o y)
      BY <1>6, <3>1, Grouping, ZenonT(60)
    <3> QED  BY <3>2, Zenon DEF y
  <2>7. g \in Text
    BY <1>9, Zenon
  <2> HIDE DEF g
  <2>8. g \o (u \o sr) = (g \o u) \o sr
    <3> HIDE DEF sr
    <3> QED  BY <1>4, <2>3, <2>7, Grouping, ZenonT(60)
  <2>9. g \o u \in Text
    BY <1>4, <2>7, JoinText, Zenon
  <2>10. (g \o u) \o sr = (g \o u) \o s \o rest
    <3> DEFINE y == g \o u
    <3>1. y \in Text
      BY <2>9, Zenon
    <3> HIDE DEF y
    <3>2. (y \o s) \o rest = y \o (s \o rest)
      BY <1>1, <3>1, Grouping, Zenon
    <3> QED  BY <3>2, Zenon DEF y
  <2> QED  BY <1>2, <2>2, <2>4, <2>6, <2>8, <2>10, ZenonT(60) DEF Holds
<1>11. /\ Len(body) = Len(g) + Len(u) + Len(s) + Len(rest)
       /\ At(body, Len(g), Len(u)) = u
       /\ At(body, Len(g) + Len(u), Len(s)) = s
  <2>1. g \in Text
    BY <1>9, Zenon
  <2> HIDE DEF g
  <2>2. Laid(body, g, u, s, rest)
    BY <1>10, Zenon DEF Laid
  <2>3. \A d : Laid(d, g, u, s, rest) =>
                  /\ Len(d) = Len(g) + Len(u) + Len(s) + Len(rest)
                  /\ At(d, Len(g), Len(u)) = u
                  /\ At(d, Len(g) + Len(u), Len(s)) = s
    BY <1>1, <1>4, <2>1, TwoParts
  <2> QED  BY <2>2, <2>3, Zenon
<1>12. Len(t \o u \o s) = Len(t) + Len(u) + Len(s)
  BY <1>1, <1>4, <1>6, JoinLength, SMTT(30)
<1> HIDE DEF g
<1> QED  BY <1>2, <1>3, <1>5, <1>7, <1>8, <1>9, <1>11, <1>12, ZenonT(60) DEF s

\* The text of each member.
Texts(v) == [i \in 1 .. Len(v.items) |-> v.items[i].s]

\* One pass of the loop of merge_key_arrays over the members of a body.
KeyStep(body, done) ==
    LET at   == done.off + 1 + W
        slen == U32(At(body, done.off + 1, W))
    IN  IF done.off < 0 \/ Len(body) < at \/ body[done.off + 1] # TAG_STR
        THEN [off |-> -1, keys |-> <<>>]
        ELSE IF at + slen > Len(body) THEN [off |-> -1, keys |-> <<>>]
        ELSE [off |-> at + slen, keys |-> Append(done.keys, At(body, at, slen))]

\* It takes a string, and stops at a member that is none.
LEMMA KeyStepIs ==
    ASSUME NEW v \in Answers, v.tag = TAG_ARR, Len(Enc(v)) <= MaxMsg,
           NEW k \in 1 .. Len(v.items), NEW done, done.off = Len(Before(v, k - 1))
    PROVE  KeyStep(Enc(v), done) =
               IF v.items[k].tag = TAG_STR
               THEN [off |-> Len(Before(v, k)), keys |-> Append(done.keys, v.items[k].s)]
               ELSE [off |-> -1, keys |-> <<>>]
<1> DEFINE body == Enc(v)
           m == v.items[k]
           x == Before(v, k - 1)
           s == m.s
           a == Len(x)
           slen == U32(At(body, a + 1, W))
           bad == [off |-> -1, keys |-> <<>>]
<1>1. PICK rest \in Text : body = x \o (Item(m) \o rest)
  BY RestOf, Zenon
<1>2. m \in Scalars /\ k - 1 \in 0 .. Len(v.items)
  <2>1. Len(v.items) \in Nat /\ v.items \in Seq(Scalars)
    BY BeforeIs, Zenon
  <2> QED  BY <2>1
<1>3. x \in Text
  BY <1>2, BeforeIs, Zenon
<1>4. a \in Nat /\ Len(Before(v, k)) = a + Len(Item(m)) /\ Item(m) \in Text /\ Len(Item(m)) \in Nat
  BY <1>2, BeforeIs, Zenon
<1>5. body[a + 1] = m.tag
  <2>1. m \in Scalars
    BY <1>2, Zenon
  <2> HIDE DEF body, m, x
  <2>2. (x \o (Item(m) \o rest))[Len(x) + 1] = m.tag
    BY <1>3, <2>1, TagAt, Zenon
  <2> QED  BY <1>1, <2>2, Zenon
<1>w. W \in Nat /\ MaxMsg \in Nat
  BY WidthAssumption, LimitAssumption, Zenon
<1>6. KeyStep(body, done) =
          IF a < 0 \/ Len(body) < a + 1 + W \/ body[a + 1] # TAG_STR THEN bad
          ELSE IF a + 1 + W + slen > Len(body) THEN bad
          ELSE [off |-> a + 1 + W + slen, keys |-> Append(done.keys, At(body, a + 1 + W, slen))]
  BY Zenon DEF KeyStep
<1> HIDE DEF a, slen, bad
<1>7. CASE m.tag # TAG_STR
  BY <1>5, <1>6, <1>7, ZenonT(60) DEF bad
<1>8. CASE m.tag = TAG_STR
  <2>1. Len(s) <= MaxMsg /\ Len(s) \in Nat
    <3>1. s \in Text
      BY <1>2, <1>8, StringIs, Zenon
    <3> DEFINE y == <<TAG_STR>> \o u32(Len(s))
    <3>2. Item(m) = y \o s
      BY <1>2, <1>8, StringIs, Zenon
    <3>3. Len(s) \in Nat
      BY <3>1 DEF Text
    <3>4. y \in Text
      <4>1. <<TAG_STR>> \in Text
        BY TagText DEF TAG_STR, TAG_ARR
      <4>2. u32(Len(s)) \in Text
        BY <3>3, u32Bytes, Zenon
      <4> QED  BY <4>1, <4>2, JoinText, Zenon
    <3> HIDE DEF y, s
    <3>5. Len(Item(m)) = Len(y) + Len(s) /\ Len(y) \in Nat
      BY <3>1, <3>2, <3>4, JoinText DEF Text
    <3> DEFINE z == Item(m) \o rest
    <3>6. z \in Text /\ Len(z) = Len(Item(m)) + Len(rest) /\ Len(rest) \in Nat
      BY <1>4, JoinText DEF Text
    <3>7. Len(x \o z) = a + Len(z)
      <4> HIDE DEF z, x
      <4> QED  BY <1>3, <3>6, JoinText, Zenon DEF a
    <3>8. Len(x \o z) <= MaxMsg
      BY <1>1, Zenon
    <3> HIDE DEF z, x
    <3> QED  BY <1>4, <1>w, <3>3, <3>5, <3>6, <3>7, <3>8
  <2>2. /\ slen = Len(s)
        /\ At(body, a + 1 + W, Len(s)) = s
        /\ Len(body) = a + 1 + W + Len(s) + Len(rest)
        /\ Len(rest) \in Nat
        /\ Len(Item(m)) = 1 + W + Len(s)
    <3>1. m \in Scalars
      BY <1>2, Zenon
    <3>2. m.tag = TAG_STR
      BY <1>8, Zenon
    <3>3. Len(m.s) <= MaxMsg
      BY <2>1, Zenon
    <3> HIDE DEF body, m, x
    <3>4. \A d : Holds(d, x, m, rest) =>
                   /\ U32(At(d, Len(x) + 1, W)) = Len(m.s)
                   /\ At(d, Len(x) + 1 + W, Len(m.s)) = m.s
                   /\ Len(d) = Len(x) + 1 + W + Len(m.s) + Len(rest)
                   /\ Len(rest) \in Nat
                   /\ Len(Item(m)) = 1 + W + Len(m.s)
      BY <1>3, <3>1, <3>2, <3>3, StringAt
    <3>5. Holds(body, x, m, rest)
      BY <1>1, Zenon DEF Holds
    <3> QED  BY <3>4, <3>5, Zenon DEF a, slen
  <2> HIDE DEF body, m, x, s
  <2>3. ~(a < 0 \/ Len(body) < a + 1 + W \/ body[a + 1] # TAG_STR)
    <3>1. body[a + 1] = TAG_STR
      BY <1>5, <1>8, Zenon
    <3>2. /\ a \in Nat /\ W \in Nat /\ Len(s) \in Nat /\ Len(rest) \in Nat
          /\ Len(body) = a + 1 + W + Len(s) + Len(rest)
      BY <1>4, <1>w, <2>1, <2>2, Zenon
    <3>3. ~(a < 0) /\ ~(Len(body) < a + 1 + W)
      BY ONLY <3>2
    <3> QED  BY <3>1, <3>3, Zenon
  <2>4. ~(a + 1 + W + slen > Len(body))
    BY <1>4, <1>w, <2>1, <2>2
  <2>5. a + 1 + W + slen = Len(Before(v, k))
    BY <1>4, <1>w, <2>1, <2>2
  <2>6. KeyStep(body, done) = [off |-> Len(Before(v, k)), keys |-> Append(done.keys, s)]
    BY <1>6, <2>2, <2>3, <2>4, <2>5, Zenon
  <2> QED  BY <1>8, <2>6, ZenonT(60) DEF body, m, s
<1> QED  BY <1>7, <1>8, Zenon

\* merge_key_arrays takes the keys of a body, and only of an array of keys.
LEMMA KeysInIs ==
    ASSUME NEW v \in Answers, Len(Enc(v)) <= MaxMsg
    PROVE  KeysIn(Enc(v)) = IF IsKeys(v) THEN Texts(v) ELSE NoKeys
<1>1. CASE v \in Scalars /\ v.tag # TAG_ARR
  <2>1. <<>> \in Text
    BY DEF Text
  <2>2. Enc(v)[1] = v.tag
    BY <1>1, <2>1, PutItem, Zenon DEF Enc
  <2> HIDE DEF Enc
  <2> QED  BY <1>1, <2>2, Zenon DEF KeysIn, IsKeys
<1>2. CASE v.tag = TAG_ARR
  <2> DEFINE body == Enc(v)
             vs == v.items
             N == Len(vs)
             b(k) == Len(Before(v, k))
             ks == Texts(v)
             bad == [off |-> -1, keys |-> <<>>]
             good(k) == [off |-> b(k), keys |-> SubSeq(ks, 1, k)]
             All(k) == \A i \in 1 .. k : vs[i].tag = TAG_STR
             start == [off |-> 1 + W, keys |-> <<>>]
             e(k) == IF All(k) THEN good(k) ELSE bad
             w == [k \in 0 .. N |-> e(k)]
             Step(done) == KeyStep(body, done)
             F(f) == [k \in 0 .. N |-> IF k = 0 THEN start ELSE Step(f[k - 1])]
             loop == CHOOSE f : f = F(f)
  <2>0. body[1] = TAG_ARR /\ U32(At(body, 1, W)) = N /\ Len(body) >= 1 + W
    BY <1>2, HeadOf, Zenon
  <2>1. N \in Nat /\ vs \in Seq(Scalars) /\ b(0) = 1 + W /\ b(N) = Len(body) /\ N \in 0 .. N /\ W \in Nat
    <3>1. N \in Nat /\ vs \in Seq(Scalars)
      BY <1>2, BeforeIs, Zenon
    <3>2. b(0) = 1 + W /\ Before(v, N) = body
      BY <1>2, BeforeIs, Zenon
    <3> QED  BY <3>1, <3>2, WidthAssumption
  <2>2. \A k \in 0 .. N : b(k) \in Nat
    BY <1>2, BeforeIs, Zenon
  <2>3. KeysIn(body) = IF Len(body) < 1 + W \/ body[1] # TAG_ARR \/ loop[N].off # Len(body) THEN NoKeys
                       ELSE loop[N].keys
    <3> DEFINE n == U32(At(body, 1, W))
               Fn(f) == [k \in 0 .. n |-> IF k = 0 THEN start ELSE Step(f[k - 1])]
               run == CHOOSE f : f = Fn(f)
    <3>1. KeysIn(body) = IF Len(body) < 1 + W \/ body[1] # TAG_ARR \/ run[n].off # Len(body) THEN NoKeys
                         ELSE run[n].keys
      <4> HIDE DEF body
      <4> QED  BY Zenon DEF KeysIn, KeyStep
    <3>2. n = N
      BY <2>0, Zenon
    <3> HIDE DEF body, n, N, Step
    <3>3. run = loop
      BY <3>2, Zenon
    <3> QED  BY <3>1, <3>2, <3>3, Zenon
  <2>4. IsKeys(v) <=> All(N)
    <3>1. DOMAIN vs = 1 .. N
      BY <2>1
    <3> QED  BY <1>2, <3>1, Zenon DEF IsKeys
  <2>5. /\ SubSeq(ks, 1, 0) = <<>> /\ SubSeq(ks, 1, N) = ks
        /\ \A k \in 1 .. N : Append(SubSeq(ks, 1, k - 1), vs[k].s) = SubSeq(ks, 1, k)
    <3> DEFINE S == {vs[i].s : i \in 1 .. N}
    <3>1. ks = [i \in 1 .. N |-> vs[i].s]
      BY Zenon DEF Texts
    <3>n. N \in Nat
      BY <2>1, Zenon
    <3> HIDE DEF ks, N
    <3>2. ks \in [1 .. N -> S]
      BY <3>1, Zenon
    <3>4. \A k \in 1 .. N : ks[k] = vs[k].s
      BY <3>1, Zenon
    <3> HIDE DEF S
    <3>3. ks \in Seq(S) /\ Len(ks) = N
      BY <3>n, <3>2
    <3>5. SubSeq(ks, 1, 0) = <<>> /\ SubSeq(ks, 1, N) = ks
      BY <3>3, Prefixes, Zenon
    <3>6. \A k \in 1 .. N : Append(SubSeq(ks, 1, k - 1), ks[k]) = SubSeq(ks, 1, k)
      BY <3>3, Prefixes, Zenon
    <3> QED  BY <3>4, <3>5, <3>6, Zenon
  <2>6. ASSUME NEW k \in 1 .. N, NEW done, done.off = b(k - 1)
        PROVE  Step(done) = IF vs[k].tag = TAG_STR THEN [off |-> b(k), keys |-> Append(done.keys, vs[k].s)] ELSE bad
    BY <1>2, <2>6, KeyStepIs, Zenon
  <2>7. ASSUME NEW done, done.off < 0 PROVE Step(done) = bad
    BY <2>7, Zenon DEF KeyStep
  <2> HIDE DEF body, vs, N, b, ks, Step
  <2>8. ASSUME NEW k \in 1 .. N PROVE Step(e(k - 1)) = e(k)
    <3>1. CASE ~All(k - 1)
      <4>1. ~All(k)
        <5>1. \A i \in 1 .. k - 1 : i \in 1 .. k
          BY <2>1
        <5> QED  BY <3>1, <5>1, Zenon
      <4>2. bad.off < 0
        OBVIOUS
      <4>3. Step(bad) = bad
        BY <2>7, <4>2, Zenon
      <4> HIDE DEF All, good, bad
      <4> QED  BY <3>1, <4>1, <4>3, ZenonT(60)
    <3>2. CASE All(k - 1)
      <4>1. All(k) <=> vs[k].tag = TAG_STR
        <5>1. \A i \in 1 .. k : i \in 1 .. k - 1 \/ i = k
          BY <2>1
        <5>2. k \in 1 .. k
          BY <2>1
        <5> QED  BY <3>2, <5>1, <5>2, Zenon
      <4>2. good(k - 1).off = b(k - 1) /\ good(k - 1).keys = SubSeq(ks, 1, k - 1)
        BY Zenon
      <4>3. Step(good(k - 1)) = IF vs[k].tag = TAG_STR THEN [off |-> b(k), keys |-> Append(SubSeq(ks, 1, k - 1), vs[k].s)] ELSE bad
        <5> HIDE DEF good, bad
        <5> QED  BY <2>6, <4>2, Zenon
      <4>4. good(k) = [off |-> b(k), keys |-> Append(SubSeq(ks, 1, k - 1), vs[k].s)]
        BY <2>5, Zenon
      <4> HIDE DEF All, good, bad
      <4> QED  BY <3>2, <4>1, <4>3, <4>4, ZenonT(60)
    <3> QED  BY <3>1, <3>2, Zenon
  <2>9. e(0) = start
    <3>1. All(0)
      OBVIOUS
    <3> QED  BY <2>1, <2>5, <3>1, Zenon
  <2>10. /\ IsKeys(v) => e(N).off = Len(body) /\ e(N).keys = ks
         /\ ~IsKeys(v) => e(N).off = -1
    BY <2>1, <2>4, <2>5, Zenon
  <2> HIDE DEF e, start
  <2>11. w = F(w)
    <3> DEFINE q(k) == IF k = 0 THEN start ELSE Step(w[k - 1])
    <3>1. ASSUME NEW k \in 0 .. N PROVE e(k) = q(k)
      <4>1. CASE k = 0
        BY <2>9, <4>1, Zenon
      <4>2. CASE k # 0
        <5>1. k \in 1 .. N /\ k - 1 \in 0 .. N
          BY <2>1, <4>2
        <5>2. w[k - 1] = e(k - 1)
          BY <5>1, Zenon
        <5> HIDE DEF w
        <5> QED  BY <2>8, <4>2, <5>1, <5>2, ZenonT(60)
      <4> QED  BY <4>1, <4>2, Zenon
    <3>2. w = [k \in 0 .. N |-> e(k)]
      BY Zenon
    <3> HIDE DEF q, w
    <3>3. w = [k \in 0 .. N |-> q(k)]
      BY <3>1, <3>2, Zenon
    <3> QED  BY <3>3, Zenon DEF q
  <2>12. loop = F(loop)
    <3> HIDE DEF F, w
    <3> QED  BY <2>11, Zenon
  <2>13. w[N] = e(N)
    BY <2>1, Zenon
  <2> HIDE DEF w, loop
  <2>14. ASSUME NEW f, f = F(f) PROVE f[0] = start /\ \A k \in 1 .. N : f[k] = Step(f[k - 1])
    <3> DEFINE q(k) == Step(f[k - 1])
    <3>1. f = [k \in 0 .. N |-> IF k = 0 THEN start ELSE q(k)]
      BY <2>14, Zenon
    <3> HIDE DEF q
    <3>2. 0 \in 0 .. N /\ \A k \in 1 .. N : k \in 0 .. N /\ k # 0
      BY <2>1
    <3>3. f[0] = start /\ \A k \in 1 .. N : f[k] = q(k)
      BY <3>1, <3>2, Zenon
    <3> QED  BY <3>3, ZenonT(60) DEF q
  <2> HIDE DEF F
  <2>15. SameStep(loop, w, N)
    BY <2>11, <2>12, <2>14, ZenonT(60) DEF SameStep
  <2>16. loop[N] = e(N)
    BY <2>1, <2>13, <2>15, SameRecursion
  <2>17. Len(body) \in Nat
    BY <2>1, <2>2, Zenon
  <2>18. KeysIn(body) = IF IsKeys(v) THEN ks ELSE NoKeys
    BY <2>0, <2>1, <2>3, <2>10, <2>16, <2>17
  <2> QED  BY <2>18, Zenon DEF body, ks
<1> QED  BY <1>1, <1>2, AnswerCases, Zenon

\* The keys of some bodies, put together.
AllKeys(bodies) ==
    LET all[i \in 0 .. Len(bodies)] == IF i = 0 THEN <<>> ELSE all[i - 1] \o KeysIn(bodies[i])
    IN  all[Len(bodies)]

\* The keys of two bodies.
LEMMA BothKeys ==
    ASSUME NEW x, NEW y, NEW S, KeysIn(x) \in Seq(S), KeysIn(y) \in Seq(S)
    PROVE  AllKeys(<<x, y>>) = KeysIn(x) \o KeysIn(y)
<1> DEFINE p == KeysIn(x)
           q == KeysIn(y)
           k(i) == KeysIn(<<x, y>>[i])
           F(f) == [i \in 0 .. 2 |-> IF i = 0 THEN <<>> ELSE f[i - 1] \o k(i)]
           all == CHOOSE f : f = F(f)
           w == [i \in 0 .. 2 |-> IF i = 0 THEN <<>> ELSE IF i = 1 THEN p ELSE p \o q]
<1>1. k(1) = p /\ k(2) = q /\ Len(<<x, y>>) = 2
  BY Zenon
<1>2. p \in Seq(S) /\ <<>> \o p = p
  OBVIOUS
<1> HIDE DEF k, p, q
<1>3. w = F(w)
  <2>1. w[0] = <<>> /\ w[1] = p
    OBVIOUS
  <2> DEFINE a(i) == IF i = 0 THEN <<>> ELSE IF i = 1 THEN p ELSE p \o q
             b(i) == IF i = 0 THEN <<>> ELSE w[i - 1] \o k(i)
  <2>2. ASSUME NEW i \in 0 .. 2 PROVE a(i) = b(i)
    <3>1. i = 0 \/ i = 1 \/ i = 2
      OBVIOUS
    <3>2. 1 - 1 = 0 /\ 2 - 1 = 1
      OBVIOUS
    <3> HIDE DEF w
    <3> QED  BY <1>1, <1>2, <2>1, <3>1, <3>2, ZenonT(60)
  <2>3. w = [i \in 0 .. 2 |-> a(i)]
    BY Zenon
  <2> HIDE DEF a, b, w
  <2>4. w = [i \in 0 .. 2 |-> b(i)]
    BY <2>2, <2>3, Zenon
  <2> QED  BY <2>4, Zenon DEF b
<1>4. all = F(all)
  <2> HIDE DEF F, w
  <2> QED  BY <1>3, Zenon
<1> HIDE DEF all
<1>5. all[0] = <<>>
  BY <1>4
<1>6. all[1] = all[0] \o k(1)
  BY <1>4, SMTT(30)
<1>7. all[2] = all[1] \o k(2)
  <2>1. 2 \in 0 .. 2 /\ 2 # 0 /\ 2 - 1 = 1
    OBVIOUS
  <2> HIDE DEF k
  <2> QED  BY <1>4, <2>1, Zenon
<1>8. all[2] = p \o q
  BY <1>1, <1>2, <1>5, <1>6, <1>7, ZenonT(60)
<1> QED  BY <1>1, <1>8, Zenon DEF AllKeys, all, k, p, q

\* The members of two arrays of keys, from their texts.
LEMMA TextsAre ==
    ASSUME NEW v \in Answers, IsKeys(v)
    PROVE  /\ v.items \in Seq(Scalars) /\ Texts(v) \in Seq(Text) /\ Len(Texts(v)) = Len(v.items)
           /\ Texts(v) # NoKeys
           /\ \A i \in 1 .. Len(v.items) : Str(Texts(v)[i]) = v.items[i] /\ v.items[i].tag = TAG_STR
<1> DEFINE vs == v.items
           N == Len(vs)
           ks == Texts(v)
<1>1. v.tag = TAG_ARR
  BY Zenon DEF IsKeys
<1>2. vs \in Seq(Scalars)
  BY <1>1, AnswerCases, ZenonT(60)
<1>3. N \in Nat /\ DOMAIN vs = 1 .. N /\ \A i \in 1 .. N : vs[i] \in Scalars
  BY <1>2
<1>4. \A i \in 1 .. N : vs[i].tag = TAG_STR
  BY <1>3, Zenon DEF IsKeys
<1>5. ASSUME NEW i \in 1 .. N PROVE vs[i].s \in Text /\ Str(vs[i].s) = vs[i]
  BY <1>3, <1>4, StringIs, Zenon
<1>6. ks = [i \in 1 .. N |-> vs[i].s]
  BY Zenon DEF Texts
<1> HIDE DEF ks, N, vs
<1>7. ks \in [1 .. N -> Text] /\ \A i \in 1 .. N : ks[i] = vs[i].s
  BY <1>5, <1>6, Zenon
<1>8. ks \in Seq(Text) /\ Len(ks) = N
  BY <1>3, <1>7
<1>9. ks # NoKeys
  <2> SUFFICES ASSUME ks = NoKeys PROVE FALSE
    BY Zenon
  <2>1. Len(ks) = 1 /\ ks[1] = <<-1>>
    BY Zenon DEF NoKeys, NoBody
  <2>2. <<-1>> \in Text
    BY <1>7, <1>8, <2>1
  <2>3. <<-1>>[1] \in Byte
    BY <2>2 DEF Text
  <2> QED  BY <2>3 DEF Byte
<1>10. \A i \in 1 .. N : Str(ks[i]) = vs[i] /\ vs[i].tag = TAG_STR
  BY <1>4, <1>5, <1>7, Zenon
<1> QED  BY <1>2, <1>8, <1>9, <1>10, ZenonT(60) DEF ks, N, vs

\* The proxy writes what a shard with the keys of both would have written.
LEMMA MergeIs ==
    ASSUME NEW v \in Answers, NEW w \in Answers, NEW buf \in Text,
           Len(Enc(v)) <= MaxMsg, Len(Enc(w)) <= MaxMsg
    PROVE  /\ Merged(v, w) \in Answers
           /\ merge_key_arrays(<<Enc(v), Enc(w)>>, buf) = buf \o Enc(Merged(v, w))
<1> DEFINE x == Enc(v)
           y == Enc(w)
           bodies == <<x, y>>
<1>1. KeysIn(x) = (IF IsKeys(v) THEN Texts(v) ELSE NoKeys) /\ KeysIn(y) = IF IsKeys(w) THEN Texts(w) ELSE NoKeys
  BY KeysInIs, Zenon
<1>2. DOMAIN bodies = {1, 2} /\ bodies[1] = x /\ bodies[2] = y
  <2>1. 1 .. 2 = {1, 2}
    OBVIOUS
  <2> QED  BY <2>1
<1> HIDE DEF x, y, bodies
<1>3. CASE ~(IsKeys(v) /\ IsKeys(w))
  <2>1. \E i \in DOMAIN bodies : KeysIn(bodies[i]) = NoKeys
    BY <1>1, <1>2, <1>3, Zenon
  <2>2. merge_key_arrays(bodies, buf) = out_err(buf, MergeFailed.n, MergeFailed.s)
    BY <2>1, Zenon DEF merge_key_arrays
  <2>3. MergeFailed \in Answers /\ out_err(buf, MergeFailed.n, MergeFailed.s) = buf \o Enc(MergeFailed)
    BY ErrorsAre, Zenon
  <2> QED  BY <1>3, <2>2, <2>3, Zenon DEF Merged, bodies, x, y
<1>4. CASE IsKeys(v) /\ IsKeys(w)
  <2> DEFINE p == v.items
             q == w.items
             vs == p \o q
             ks == Texts(v)
             ls == Texts(w)
             keys == ks \o ls
             m == Arr(vs)
  <2>1. /\ p \in Seq(Scalars) /\ ks \in Seq(Text) /\ Len(ks) = Len(p) /\ ks # NoKeys
        /\ \A i \in 1 .. Len(p) : Str(ks[i]) = p[i] /\ p[i].tag = TAG_STR
    BY <1>4, TextsAre, Zenon
  <2>2. /\ q \in Seq(Scalars) /\ ls \in Seq(Text) /\ Len(ls) = Len(q) /\ ls # NoKeys
        /\ \A i \in 1 .. Len(q) : Str(ls[i]) = q[i] /\ q[i].tag = TAG_STR
    BY <1>4, TextsAre, Zenon
  <2>3. Merged(v, w) = m /\ m.tag = TAG_ARR /\ m.items = vs
    BY <1>4, Zenon DEF Merged, Arr, Value
  <2>4. KeysIn(x) = ks /\ KeysIn(y) = ls
    BY <1>1, <1>4, Zenon
  <2>5. ~\E i \in DOMAIN bodies : KeysIn(bodies[i]) = NoKeys
    BY <1>2, <2>1, <2>2, <2>4, ZenonT(60)
  <2>6. AllKeys(bodies) = keys
    <3>1. ks \in Seq(Text) /\ ls \in Seq(Text)
      BY <2>1, <2>2, Zenon
    <3> HIDE DEF ks, ls
    <3> QED  BY <2>4, <3>1, BothKeys, Zenon DEF bodies
  <2>7. merge_key_arrays(bodies, buf) = PutAll(out_arr(buf, Len(keys)), [i \in DOMAIN keys |-> Str(keys[i])])
    <3>1. merge_key_arrays(bodies, buf) =
              PutAll(out_arr(buf, Len(AllKeys(bodies))), [i \in DOMAIN AllKeys(bodies) |-> Str(AllKeys(bodies)[i])])
      BY <2>5, Zenon DEF merge_key_arrays, AllKeys
    <3> HIDE DEF keys
    <3> QED  BY <2>6, <3>1, Zenon
  <2> HIDE DEF p, q, ks, ls
  <2>8. /\ vs \in Seq(Scalars) /\ Len(vs) = Len(p) + Len(q) /\ Len(p) \in Nat /\ Len(q) \in Nat
        /\ \A i \in 1 .. Len(p) + Len(q) : vs[i] = IF i <= Len(p) THEN p[i] ELSE q[i - Len(p)]
    BY <2>1, <2>2
  <2>9. /\ keys \in Seq(Text) /\ Len(keys) = Len(vs)
        /\ \A i \in 1 .. Len(p) + Len(q) : keys[i] = IF i <= Len(p) THEN ks[i] ELSE ls[i - Len(p)]
    <3>1. /\ keys \in Seq(Text) /\ Len(keys) = Len(ks) + Len(ls)
          /\ \A i \in 1 .. Len(ks) + Len(ls) : keys[i] = IF i <= Len(ks) THEN ks[i] ELSE ls[i - Len(ks)]
      <4>1. ks \in Seq(Text) /\ ls \in Seq(Text)
        BY <2>1, <2>2, Zenon
      <4> QED  BY <4>1
    <3> HIDE DEF vs, keys
    <3> QED  BY <2>1, <2>2, <2>8, <3>1, ZenonT(60)
  <2> HIDE DEF vs, keys
  <2>10. ASSUME NEW i \in 1 .. Len(vs) PROVE Str(keys[i]) = vs[i] /\ vs[i].tag = TAG_STR
    <3>1. CASE i <= Len(p)
      <4>1. i \in 1 .. Len(p) /\ i \in 1 .. Len(p) + Len(q)
        BY <2>8, <3>1
      <4> QED  BY <2>1, <2>8, <2>9, <3>1, <4>1, ZenonT(60)
    <3>2. CASE ~(i <= Len(p))
      <4>1. i - Len(p) \in 1 .. Len(q) /\ i \in 1 .. Len(p) + Len(q)
        BY <2>8, <3>2
      <4> QED  BY <2>2, <2>8, <2>9, <3>2, <4>1, ZenonT(60)
    <3> QED  BY <3>1, <3>2, Zenon
  <2>11. [i \in DOMAIN keys |-> Str(keys[i])] = vs
    <3>1. DOMAIN keys = 1 .. Len(vs) /\ vs = [i \in 1 .. Len(vs) |-> vs[i]]
      BY <2>8, <2>9, SMTT(30)
    <3> QED  BY <2>10, <3>1, Zenon
  <2>12. m \in Answers /\ IsKeys(m)
    <3>1. m \in Answers
      BY <2>8, Zenon DEF Answers
    <3>2. DOMAIN vs = 1 .. Len(vs)
      BY <2>8
    <3> QED  BY <2>3, <2>10, <3>1, <3>2, ZenonT(60) DEF IsKeys
  <2>13. Write(buf, m) = PutAll(out_arr(buf, Len(vs)), vs)
    BY <2>3, <2>12, Zenon DEF Write, do_keys
  <2>14. Write(buf, m) = buf \o Enc(m)
    BY <2>12, WriteIs, Zenon
  <2> QED  BY <2>3, <2>7, <2>9, <2>11, <2>12, <2>13, <2>14, Zenon DEF bodies, x, y
<1> QED  BY <1>3, <1>4, Zenon

-----------------------------------------------------------------------------
\* The frame of a body, which starts with its length.
Frame(b) == u32(Len(b)) \o b

\* Whoever reads a frame takes its bytes and no others, finds the body in it,
\* and is left with what follows.
LEMMA ReadFrame ==
    ASSUME NEW b \in Text, Len(b) <= MaxMsg, NEW rest \in Text
    PROVE  /\ Frame(b) \o rest \in Text /\ Frame(b) \in Text
           /\ tcp_rpc_raw(Frame(b) \o rest) = Frame(b)
           /\ tcp_rpc_raw(Frame(b) \o rest) # NoBody
           /\ extract_response_body(Frame(b)) = b
           /\ At(Frame(b) \o rest, Len(Frame(b)), Len(Frame(b) \o rest) - Len(Frame(b))) = rest
<1> DEFINE u == u32(Len(b))
           f == Frame(b)
           buf == f \o rest
           nil == <<>>
<1>0. Len(b) \in Nat /\ Len(rest) \in Nat /\ W \in Nat \ {0} /\ MaxMsg \in Nat
  BY WidthAssumption, LimitAssumption DEF Text
<1>1. u \in Text
  BY <1>0, u32Bytes, Zenon
<1>2. Len(u) = W
  BY <1>0, u32Bytes, Zenon
<1>3. U32(u) = Len(b)
  <2>1. W \in 0 .. 2 * W
    BY <1>0
  <2>2. Power[W] \in Nat
    BY <2>1, PowerRule, ZenonT(60)
  <2>3. Len(b) < Power[W]
    BY <1>0, <2>2, RangeAssumption
  <2> QED  BY <1>0, <2>3, u32Inverse, ZenonT(60)
<1>n. nil \in Text
  BY DEF Text
<1> HIDE DEF u, nil
<1>4. f = u \o b
  BY Zenon DEF Frame, u
<1>5. f \in Text /\ Len(f) = W + Len(b)
  BY <1>1, <1>2, <1>4, JoinText, Zenon
<1>6. At(u \o b \o rest, 0, W) = u /\ At(u \o b, 0, W) = u /\ At(f \o rest, 0, Len(f)) = f
  <2>1. ASSUME NEW p \in Text, NEW q \in Text PROVE At(p \o q, 0, Len(p)) = p
    <3>1. At(nil \o p \o q, Len(nil), Len(p)) = p
      BY <1>n, AtKnown, Zenon
    <3>2. nil \o p = p /\ Len(nil) = 0
      BY DEF Text, nil
    <3> QED  BY <3>1, <3>2, Zenon
  <2>2. u \o b \o rest = u \o (b \o rest)
    BY <1>1, Grouping, Zenon
  <2>3. b \o rest \in Text
    BY JoinText, Zenon
  <2>4. At(u \o (b \o rest), 0, Len(u)) = u
    BY <1>1, <2>1, <2>3, ZenonT(60)
  <2>5. At(u \o b, 0, Len(u)) = u
    BY <1>1, <2>1, Zenon
  <2>6. f \in Text
    BY <1>5, Zenon
  <2> HIDE DEF f
  <2>7. At(f \o rest, 0, Len(f)) = f
    BY <2>1, <2>6, Zenon
  <2> QED  BY <1>2, <2>2, <2>4, <2>5, <2>7, ZenonT(60)
<1>7. At(f, W, Len(f) - W) = b
  <2>1. At(u \o b, Len(u), Len(u \o b) - Len(u)) = b
    BY <1>1, AtRest, ZenonT(60)
  <2> QED  BY <1>2, <1>4, <2>1, Zenon
<1>f. f \in Text
  BY <1>5, Zenon
<1> HIDE DEF f
<1>8. buf \in Text /\ Len(buf) = Len(f) + Len(rest) /\ At(buf, Len(f), Len(buf) - Len(f)) = rest
  BY <1>f, AtRest, Zenon
<1>9. tcp_rpc_raw(buf) = f
  <2>1. At(buf, 0, W) = u
    BY <1>4, <1>6, Zenon
  <2>2. ~(Len(buf) < W \/ Len(b) > MaxMsg \/ Len(buf) < W + Len(b))
    <3> HIDE DEF buf
    <3> QED  BY <1>0, <1>5, <1>8
  <2>3. At(buf, 0, W + Len(b)) = f
    BY <1>5, <1>6, Zenon
  <2> HIDE DEF buf
  <2> QED  BY <1>3, <2>1, <2>2, <2>3, Zenon DEF tcp_rpc_raw
<1>10. extract_response_body(f) = b
  <2>1. U32(At(f, 0, W)) = Len(b)
    BY <1>3, <1>4, <1>6, ZenonT(60)
  <2>2. ~(Len(f) < W \/ Len(b) # Len(f) - W)
    BY <1>0, <1>5
  <2> QED  BY <1>7, <2>1, <2>2, Zenon DEF extract_response_body
<1>11. f # NoBody
  <2> SUFFICES ASSUME f = NoBody PROVE FALSE
    BY Zenon
  <2>1. <<-1>> \in Text
    BY <1>f, Zenon DEF NoBody
  <2>2. <<-1>>[1] \in Byte
    BY <2>1 DEF Text
  <2> QED  BY <2>2 DEF Byte
<1> QED  BY <1>5, <1>8, <1>9, <1>10, <1>11, ZenonT(60) DEF f

\* The proxy has the body of what the shard answered.
LEMMA BodyIs ==
    ASSUME NEW v \in Answers
    PROVE  Body(v) = Enc(Shown(v))
<1> DEFINE e == Enc(Shown(v))
           nil == <<>>
           z == u32(0)
<1>1. nil \in Text /\ Len(nil) = 0
  BY DEF Text
<1>2. /\ response_end(response_begin(nil) \o Enc(v), Len(nil)) = nil \o u32(Len(e)) \o e
      /\ e \in Text /\ Len(e) <= MaxMsg /\ Len(e) \in Nat
  BY <1>1, FrameOfAnswer, Zenon
<1>3. z \in Text
  BY u32Bytes, Zenon
<1>4. response_begin(nil) \in Text
  <2>1. nil \o z \in Text
    BY <1>1, <1>3, JoinText, ZenonT(60)
  <2> QED  BY <2>1, Zenon DEF response_begin
<1>5. Write(response_begin(nil), v) = response_begin(nil) \o Enc(v)
  BY <1>4, WriteIs, Zenon
<1>6. e \in Text
  BY <1>2, Zenon
<1> HIDE DEF e
<1>7. nil \o u32(Len(e)) \o e = Frame(e) \o nil
  <2>1. u32(Len(e)) \in Text
    BY <1>2, u32Bytes, Zenon
  <2>2. nil \o u32(Len(e)) = u32(Len(e))
    BY <2>1 DEF Text
  <2>3. Frame(e) \in Text
    BY <1>6, <2>1, JoinText, ZenonT(60) DEF Frame
  <2>4. Frame(e) \o nil = Frame(e)
    BY <2>3 DEF Text
  <2> QED  BY <2>2, <2>4, Zenon DEF Frame
<1>8. tcp_rpc_raw(Frame(e) \o nil) = Frame(e) /\ extract_response_body(Frame(e)) = e
  BY <1>1, <1>2, <1>6, ReadFrame, Zenon
<1> QED  BY <1>1, <1>2, <1>5, <1>7, <1>8, Zenon DEF Body, e

\* What a handler makes of arguments that are texts is a value.
LEMMA ValuesAre ==
    ASSUME out \in Command
    PROVE  Values \subseteq Answers
<1> DEFINE N == Len(out)
           D == 2 * W
<1>0. N \in Nat /\ DOMAIN out = 1 .. N /\ \A i \in 1 .. N : out[i] \in Text
  BY DEF Command
<1>1. \A s \in Text : Str(s) \in Scalars
  BY DEF Scalars
<1>2. Dbl(Score) \in Scalars
  <2>1. \A i \in 1 .. D : i % B \in Byte
    <3>1. D \in Nat /\ B \in Nat \ {0}
      BY WidthAssumption
    <3> HIDE DEF D
    <3> QED  BY <3>1 DEF Byte
  <2>2. Score \in [1 .. D -> Byte]
    <3>1. Score = [i \in 1 .. D |-> i % B]
      BY ZenonT(60) DEF Score
    <3> HIDE DEF D
    <3> QED  BY <2>1, <3>1, Zenon
  <2> QED  BY <2>2 DEF Scalars
<1>3. Nil \in Scalars
  BY DEF Scalars
<1>4. \A n \in Num : Num64(n) \in Scalars
  <2>1. \A n \in Num : n \in Int64
    BY NumAssumption, ZenonT(60) DEF Int64
  <2> QED  BY <2>1 DEF Scalars
<1>5. Err(ERR_UNKNOWN, <<>>) \in Scalars
  <2>1. 1 \in 0 .. Power[W] - 1
    <3>1. W \in 0 .. 2 * W /\ W \in Nat \ {0}
      BY WidthAssumption
    <3>2. Power[W] \in Nat
      BY <3>1, PowerRule, Zenon
    <3>3. Power[W] > 1
      BY <3>1, <3>2, RangeAssumption, LimitAssumption
    <3> QED  BY <3>2, <3>3
  <2>2. ERR_UNKNOWN \in 0 .. Power[W] - 1 /\ <<>> \in Text
    BY <2>1 DEF ERR_UNKNOWN, Text
  <2>3. Err(ERR_UNKNOWN, <<>>) \in {Err(c, s) : c \in 0 .. Power[W] - 1, s \in Text}
    BY <2>2
  <2> QED  BY <2>3 DEF Scalars
<1>6. Arr([i \in DOMAIN out |-> Str(out[i])]) \in Answers
  <2> DEFINE q == [i \in 1 .. N |-> Str(out[i])]
  <2>1. \A i \in 1 .. N : Str(out[i]) \in Scalars
    BY <1>0, <1>1, Zenon
  <2>2. q \in [1 .. N -> Scalars]
    <3> HIDE DEF N
    <3> QED  BY <2>1, Zenon
  <2> HIDE DEF q
  <2>3. q \in Seq(Scalars)
    <3> HIDE DEF N
    <3> QED  BY <1>0, <2>2
  <2>4. Arr(q) \in Answers
    BY <2>3, Zenon DEF Answers
  <2> QED  BY <1>0, <2>4, Zenon DEF q
<1>7. Arr(Pairs) \in Answers
  <2> DEFINE M == 2 * N
             a(j) == IF j % 2 = 1 THEN Str(out[(j + 1) \div 2]) ELSE Dbl(Score)
  <2>m. M \in Nat
    BY <1>0
  <2>1. ASSUME NEW j \in 1 .. M PROVE a(j) \in Scalars
    <3>1. (j + 1) \div 2 \in 1 .. N
      <4> HIDE DEF N
      <4> QED  BY <1>0
    <3>2. Str(out[(j + 1) \div 2]) \in Scalars
      BY <1>0, <1>1, <3>1, ZenonT(60)
    <3> QED  BY <1>2, <3>2, Zenon
  <2>2. Pairs = [j \in 1 .. M |-> a(j)]
    BY Zenon DEF Pairs
  <2> HIDE DEF a, M
  <2>3. Pairs \in [1 .. M -> Scalars]
    BY <2>1, <2>2, ZenonT(60)
  <2>4. Pairs \in Seq(Scalars)
    BY <2>m, <2>3
  <2> QED  BY <2>4, Zenon DEF Answers
<1>8. \A i \in DOMAIN out : Str(out[i]) \in Scalars
  BY <1>0, <1>1, Zenon
<1> QED  BY <1>2, <1>3, <1>4, <1>5, <1>6, <1>7, <1>8, Zenon DEF Values, Answers
-----------------------------------------------------------------------------
Encs(vs) == [i \in 1 .. Len(vs) |-> Enc(vs[i])]

\* The output is the frames of the replies, one after the other.
ReplyInv ==
    /\ replies \in Seq(Answers)
    /\ \A i \in 1 .. Len(replies) : Len(Enc(replies[i])) <= MaxMsg
    /\ outgoing = Arguments(Encs(replies))

\* The frames of replies are laid out as the arguments of a command are.
LEMMA EncsAre ==
    ASSUME NEW vs \in Seq(Answers)
    PROVE  /\ Encs(vs) \in Command /\ Len(Encs(vs)) = Len(vs) /\ Len(vs) \in Nat
           /\ \A i \in 1 .. Len(vs) : Encs(vs)[i] = Enc(vs[i]) /\ vs[i] \in Answers /\ Enc(vs[i]) \in Text
           /\ \A v \in Answers : Encs(Append(vs, v)) = Append(Encs(vs), Enc(v))
<1> DEFINE N == Len(vs)
           c == Encs(vs)
<1>0. N \in Nat /\ \A i \in 1 .. N : vs[i] \in Answers
  OBVIOUS
<1>1. \A i \in 1 .. N : Enc(vs[i]) \in Text
  <2>1. <<>> \in Text
    BY DEF Text
  <2> QED  BY <1>0, <2>1, WriteIs, ZenonT(60)
<1>2. c = [i \in 1 .. N |-> Enc(vs[i])]
  BY Zenon DEF Encs
<1> HIDE DEF c
<1>3. c \in [1 .. N -> Text] /\ \A i \in 1 .. N : c[i] = Enc(vs[i])
  <2> HIDE DEF N
  <2> QED  BY <1>1, <1>2, Zenon
<1>4. c \in Command /\ Len(c) = N
  <2> HIDE DEF N
  <2> QED  BY <1>0, <1>3 DEF Command
<1>5. ASSUME NEW v \in Answers PROVE Encs(Append(vs, v)) = Append(c, Enc(v))
  <2> DEFINE ws == Append(vs, v)
             d == Append(c, Enc(v))
             e == Enc(v)
  <2>1. Len(ws) = N + 1 /\ \A i \in 1 .. N + 1 : ws[i] = IF i = N + 1 THEN v ELSE vs[i]
    OBVIOUS
  <2>2. Encs(ws) = [i \in 1 .. N + 1 |-> Enc(ws[i])]
    <3> HIDE DEF ws, N
    <3> QED  BY <2>1, Zenon DEF Encs
  <2>3. c \in Seq(Text)
    BY <1>4, Zenon DEF Command
  <2>4. e \in Text
    <3>1. <<>> \in Text
      BY DEF Text
    <3> QED  BY <3>1, WriteIs, Zenon
  <2> HIDE DEF e, ws, N
  <2>5. d = [i \in 1 .. N + 1 |-> IF i = N + 1 THEN e ELSE c[i]]
    <3>1. d \in Seq(Text) /\ Len(d) = N + 1 /\ \A i \in 1 .. N + 1 : d[i] = IF i = N + 1 THEN e ELSE c[i]
      BY <1>4, <2>3, <2>4 DEF e
    <3> HIDE DEF d
    <3>2. d = [i \in 1 .. N + 1 |-> d[i]]
      BY <1>0, <3>1
    <3> QED  BY <3>1, <3>2, Zenon
  <2>6. ASSUME NEW i \in 1 .. N + 1 PROVE Enc(ws[i]) = IF i = N + 1 THEN e ELSE c[i]
    <3>1. i # N + 1 => i \in 1 .. N
      BY <1>0
    <3> QED  BY <1>3, <2>1, <3>1, Zenon DEF e
  <2> HIDE DEF d
  <2>7. Encs(ws) = d
    BY <2>2, <2>5, <2>6, Zenon
  <2> QED  BY <2>7, Zenon DEF ws, d
<1> QED  BY <1>0, <1>1, <1>3, <1>4, <1>5, ZenonT(60) DEF c

\* Each answer adds its frame and changes nothing before it.
LEMMA AnswerInv ==
    ASSUME IInv, ReplyInv, NEW v \in Answers, NEW w \in Answers, Shown(v) = Shown(w),
           Answer(v, response_begin(outgoing) \o Enc(w))
    PROVE  ReplyInv'
<1> DEFINE r == Shown(v)
           e == Enc(r)
           c == Encs(replies)
<1>1. replies \in Seq(Answers) /\ outgoing = Arguments(c)
  BY Zenon DEF ReplyInv
<1>2. /\ c \in Command /\ Len(replies) \in Nat
      /\ \A x \in Answers : Encs(Append(replies, x)) = Append(c, Enc(x))
  BY <1>1, EncsAre, Zenon
<1>3. outgoing \in Text
  <2> HIDE DEF c
  <2>1. Arguments(c) \in Text
    BY <1>2, SizeExact, Zenon
  <2> QED  BY <1>1, <2>1, ZenonT(60)
<1>4. /\ response_end(response_begin(outgoing) \o Enc(w), Len(outgoing)) = outgoing \o u32(Len(e)) \o e
      /\ r \in Answers /\ e \in Text /\ Len(e) <= MaxMsg
  BY <1>3, FrameOfAnswer, Zenon
<1> HIDE DEF r, c
<1>5. outgoing' = outgoing \o u32(Len(e)) \o e /\ replies' = Append(replies, r)
  BY <1>4, Zenon DEF Answer, r
<1>6. replies' \in Seq(Answers) /\ \A i \in 1 .. Len(replies') : Len(Enc(replies'[i])) <= MaxMsg
  <2>1. /\ Append(replies, r) \in Seq(Answers) /\ Len(Append(replies, r)) = Len(replies) + 1
        /\ \A i \in 1 .. Len(replies) + 1 : Append(replies, r)[i] = IF i = Len(replies) + 1 THEN r ELSE replies[i]
    BY <1>1, <1>4
  <2>2. \A i \in 1 .. Len(replies) : Len(Enc(replies[i])) <= MaxMsg
    BY Zenon DEF ReplyInv
  <2>3. ASSUME NEW i \in 1 .. Len(replies) + 1 PROVE Len(Enc(Append(replies, r)[i])) <= MaxMsg
    <3>1. i # Len(replies) + 1 => i \in 1 .. Len(replies)
      BY <1>2
    <3> QED  BY <1>4, <2>1, <2>2, <3>1, ZenonT(60)
  <2> QED  BY <1>5, <2>1, <2>3, ZenonT(60)
<1>7. outgoing' = Arguments(Encs(replies'))
  <2>1. e \in Text
    BY <1>4, Zenon
  <2> HIDE DEF e
  <2>2. Arguments(Append(c, e)) = Arguments(c) \o u32(Len(e)) \o e
    BY <1>2, <2>1, ArgumentsAppend, ZenonT(60)
  <2>3. Encs(replies') = Append(c, e)
    BY <1>2, <1>4, <1>5, ZenonT(60) DEF e
  <2> QED  BY <1>1, <1>5, <2>2, <2>3, ZenonT(60)
<1> QED  BY <1>6, <1>7, Zenon DEF ReplyInv

\* Whoever answers writes the value's bytes after response_begin: the shard's
\* handler, the proxy that passes a body on, and the proxy that merges two.
LEMMA StepInv == IInv /\ ReplyInv /\ [ResponseNext]_allvars => ReplyInv'
<1> SUFFICES ASSUME IInv, ReplyInv, [ResponseNext]_allvars PROVE ReplyInv'
  BY Zenon
<1> DEFINE buf == response_begin(outgoing)
<1>1. outgoing \in Text /\ buf \in Text
  <2>1. Encs(replies) \in Command
    BY EncsAre, Zenon DEF ReplyInv
  <2>2. Arguments(Encs(replies)) \in Text
    BY <2>1, SizeExact, Zenon
  <2>3. outgoing \in Text
    BY <2>2, Zenon DEF ReplyInv
  <2>4. u32(0) \in Text
    BY u32Bytes, Zenon
  <2> QED  BY <2>3, <2>4, JoinText, Zenon DEF response_begin
<1>2. Values \subseteq Answers
  BY ValuesAre, Zenon DEF IInv, TypeInv
<1>3. \A v \in Answers : /\ Shown(v) \in Answers /\ Len(Enc(Shown(v))) <= MaxMsg
                         /\ Shown(Shown(v)) = Shown(v)
  <2> SUFFICES ASSUME NEW v \in Answers
               PROVE  /\ Shown(v) \in Answers /\ Len(Enc(Shown(v))) <= MaxMsg
                      /\ Shown(Shown(v)) = Shown(v)
    BY Zenon
  <2> DEFINE r == Shown(v)
  <2>1. r \in Answers /\ Len(Enc(r)) <= MaxMsg /\ Len(Enc(r)) \in Nat
    BY <1>1, FrameOfAnswer, Zenon
  <2> HIDE DEF r
  <2>2. Size(r) = Len(Enc(r))
    BY <2>1, SizeIs, Zenon
  <2>3. Shown(r) = r
    BY <2>1, <2>2, LimitAssumption DEF Shown
  <2> QED  BY <2>1, <2>3, Zenon DEF r
<1>4. CASE UNCHANGED <<outgoing, replies>>
  BY <1>4, Zenon DEF ReplyInv
<1>5. ASSUME NEW v \in Values, Reply(v) PROVE ReplyInv'
  <2>1. v \in Answers
    BY <1>2, Zenon
  <2>2. Write(buf, v) = buf \o Enc(v)
    BY <1>1, <2>1, WriteIs, ZenonT(60)
  <2>3. Answer(v, buf \o Enc(v))
    BY <1>5, <2>2, Zenon DEF Reply
  <2> QED  BY <2>1, <2>3, AnswerInv, Zenon
<1>6. ASSUME NEW v \in Values, Forward(v) PROVE ReplyInv'
  <2>1. v \in Answers
    BY <1>2, Zenon
  <2>2. Body(v) = Enc(Shown(v))
    BY <2>1, BodyIs, Zenon
  <2>3. Answer(v, buf \o Enc(Shown(v)))
    BY <1>6, <2>2, Zenon DEF Forward
  <2>4. Shown(v) \in Answers /\ Shown(Shown(v)) = Shown(v)
    BY <1>3, <2>1, Zenon
  <2> QED  BY <2>1, <2>3, <2>4, AnswerInv, ZenonT(60)
<1>7. ASSUME NEW v \in Values, NEW w \in Values, Gather(v, w) PROVE ReplyInv'
  <2> DEFINE p == Shown(v)
             q == Shown(w)
             m == Merged(p, q)
  <2>1. v \in Answers /\ w \in Answers
    BY <1>2, Zenon
  <2>2. Body(v) = Enc(p) /\ Body(w) = Enc(q)
    BY <2>1, BodyIs, Zenon
  <2>3. p \in Answers /\ q \in Answers /\ Len(Enc(p)) <= MaxMsg /\ Len(Enc(q)) <= MaxMsg
    BY <1>3, <2>1, Zenon
  <2>4. m \in Answers /\ merge_key_arrays(<<Enc(p), Enc(q)>>, buf) = buf \o Enc(m)
    <3> HIDE DEF p, q, buf
    <3> QED  BY <1>1, <2>3, MergeIs, Zenon
  <2>5. Answer(m, buf \o Enc(m))
    BY <1>7, <2>2, <2>4, Zenon DEF Gather
  <2> HIDE DEF m
  <2> QED  BY <2>4, <2>5, AnswerInv, ZenonT(60)
<1> QED  BY <1>4, <1>5, <1>6, <1>7, ZenonT(60) DEF ResponseNext, allvars

\* What is left to read after each reply.
Unread(cs, i) == CHOOSE rest \in Text : Arguments(cs) = Parts(cs)[i] \o rest

\* It starts with the frame of the next.
LEMMA UnreadIs ==
    ASSUME NEW cs \in Command
    PROVE  /\ \A i \in 0 .. Len(cs) : Unread(cs, i) \in Text
           /\ Unread(cs, 0) = Arguments(cs) /\ Unread(cs, Len(cs)) = <<>>
           /\ \A i \in 1 .. Len(cs) : Unread(cs, i - 1) = Frame(cs[i]) \o Unread(cs, i)
<1> DEFINE N == Len(cs)
           p(i) == Parts(cs)[i]
           a == Arguments(cs)
           l(i) == Unread(cs, i)
<1>n. N \in Nat /\ N \in 0 .. N /\ 0 \in 0 .. N /\ \A i \in 1 .. N : cs[i] \in Text
  BY DEF Command
<1>0. /\ \A i \in 0 .. N : p(i) \in Text
      /\ p(0) = <<>> /\ a = p(N)
      /\ \A i \in 1 .. N : p(i) = p(i - 1) \o u32(Len(cs[i])) \o cs[i]
  <2> HIDE DEF N
  <2> QED  BY PartsRule, Zenon DEF N
<1>1. ASSUME NEW i \in 0 .. N PROVE l(i) \in Text /\ a = p(i) \o l(i)
  <2>1. \E rest \in Text : a = p(i) \o rest
    BY PartsExtend, Zenon
  <2> QED  BY <2>1, Zenon DEF Unread
<1>2. ASSUME NEW i \in 0 .. N, NEW t \in Text, a = p(i) \o t PROVE l(i) = t
  <2> DEFINE x == p(i)
             y == l(i)
  <2>1. x \in Text
    BY <1>0, Zenon
  <2>2. y \in Text
    BY <1>1, Zenon
  <2>3. x \o y = x \o t
    BY <1>1, <1>2, Zenon
  <2> HIDE DEF x, y
  <2>4. y = t
    BY <2>1, <2>2, <2>3, Cancel, Zenon
  <2> QED  BY <2>4, Zenon DEF y
<1> HIDE DEF p, l, a, N
<1>3. a \in Text
  BY <1>0, <1>n, ZenonT(60)
<1>4. l(0) = a
  <2>1. <<>> \o a = a
    BY <1>3 DEF Text
  <2> QED  BY <1>0, <1>2, <1>3, <1>n, <2>1, Zenon
<1>5. l(N) = <<>>
  <2>1. a \o <<>> = a /\ <<>> \in Text
    BY <1>3 DEF Text
  <2> QED  BY <1>0, <1>2, <1>n, <2>1, Zenon
<1>6. ASSUME NEW i \in 1 .. N PROVE l(i - 1) = Frame(cs[i]) \o l(i)
  <2> DEFINE x == p(i - 1)
             s == cs[i]
             u == u32(Len(s))
             y == l(i)
             f == u \o s
  <2>0. i - 1 \in 0 .. N /\ i \in 0 .. N
    BY <1>n
  <2>1. x \in Text
    BY <1>0, <2>0, Zenon
  <2>2. s \in Text
    BY <1>n, Zenon
  <2>3. u \in Text
    <3>1. Len(s) \in Nat
      BY <2>2 DEF Text
    <3> QED  BY <3>1, u32Bytes, Zenon
  <2>4. y \in Text
    BY <1>1, <2>0, Zenon
  <2>5. a = ((x \o u) \o s) \o y
    BY <1>0, <1>1, <2>0, Zenon
  <2> HIDE DEF x, s, u, y
  <2>6. (x \o u) \o s = x \o f
    BY <2>1, <2>2, <2>3, Grouping, Zenon
  <2>7. f \in Text
    BY <2>2, <2>3, JoinText, ZenonT(60)
  <2> HIDE DEF f
  <2>8. (x \o f) \o y = x \o (f \o y)
    BY <2>1, <2>4, <2>7, Grouping, Zenon
  <2>9. f \o y \in Text
    BY <2>4, <2>7, JoinText, Zenon
  <2>10. l(i - 1) = f \o y
    BY <1>2, <2>0, <2>5, <2>6, <2>8, <2>9, Zenon DEF x
  <2> QED  BY <2>10, Zenon DEF f, u, s, y, Frame
<1> QED  BY <1>1, <1>4, <1>5, <1>6, ZenonT(60) DEF l, a, N

\* The frames of the replies are what a client needs to see each of them.
LEMMA RepliesRead == ReplyInv => ResponsesExact
<1> SUFFICES ASSUME ReplyInv PROVE ResponsesExact
  BY Zenon
<1> DEFINE cs == Encs(replies)
           N == Len(replies)
           w == [i \in 0 .. N |-> Unread(cs, i)]
           Step(buf) == LET len == Len(tcp_rpc_raw(buf)) IN At(buf, len, Len(buf) - len)
           F(f) == [i \in 0 .. N |-> IF i = 0 THEN outgoing ELSE Step(f[i - 1])]
           unread == CHOOSE f : f = F(f)
           body(i) == extract_response_body(tcp_rpc_raw(unread[i - 1]))
<1>1. replies \in Seq(Answers) /\ outgoing = Arguments(cs) /\ \A i \in 1 .. N : Len(Enc(replies[i])) <= MaxMsg
  BY Zenon DEF ReplyInv
<1>2. /\ cs \in Command /\ Len(cs) = N /\ N \in Nat
      /\ \A i \in 1 .. N : cs[i] = Enc(replies[i]) /\ replies[i] \in Answers /\ Enc(replies[i]) \in Text
  BY <1>1, EncsAre, Zenon
<1> HIDE DEF cs
<1>3. /\ \A i \in 0 .. N : Unread(cs, i) \in Text
      /\ Unread(cs, 0) = outgoing /\ Unread(cs, N) = <<>>
      /\ \A i \in 1 .. N : Unread(cs, i - 1) = Frame(cs[i]) \o Unread(cs, i)
  <2> HIDE DEF N
  <2> QED  BY <1>1, <1>2, UnreadIs, Zenon
<1>4. ResponsesExact <=>
          /\ \A i \in DOMAIN replies :
                 /\ tcp_rpc_raw(unread[i - 1]) # NoBody
                 /\ print_response(body(i), 0) = [n |-> Len(body(i)), v |-> replies[i]]
          /\ unread[N] = <<>>
  BY Zenon DEF ResponsesExact
<1>d. DOMAIN replies = 1 .. N
  BY <1>1
<1> HIDE DEF N
<1>5. ASSUME NEW i \in 1 .. N
      PROVE  /\ i - 1 \in 0 .. N /\ i \in 0 .. N /\ i # 0
             /\ tcp_rpc_raw(Unread(cs, i - 1)) = Frame(cs[i]) /\ tcp_rpc_raw(Unread(cs, i - 1)) # NoBody
             /\ extract_response_body(Frame(cs[i])) = cs[i]
             /\ Step(Unread(cs, i - 1)) = Unread(cs, i)
  <2> DEFINE b == cs[i]
             rest == Unread(cs, i)
             buf == Unread(cs, i - 1)
  <2>1. i - 1 \in 0 .. N /\ i \in 0 .. N /\ i # 0
    BY <1>2
  <2>2. b \in Text
    BY <1>2, Zenon
  <2>3. Len(b) <= MaxMsg
    BY <1>1, <1>2, Zenon
  <2>4. rest \in Text
    BY <1>3, <2>1, Zenon
  <2>5. buf = Frame(b) \o rest
    BY <1>3, Zenon
  <2> HIDE DEF b, rest, buf
  <2>6. /\ tcp_rpc_raw(Frame(b) \o rest) = Frame(b)
        /\ tcp_rpc_raw(Frame(b) \o rest) # NoBody
        /\ extract_response_body(Frame(b)) = b
        /\ At(Frame(b) \o rest, Len(Frame(b)), Len(Frame(b) \o rest) - Len(Frame(b))) = rest
    BY <2>2, <2>3, <2>4, ReadFrame, ZenonT(60)
  <2>7. Step(buf) = rest
    BY <2>5, <2>6, Zenon
  <2> QED  BY <2>1, <2>5, <2>6, <2>7, ZenonT(60) DEF b, rest, buf
<1> HIDE DEF Step
<1>6. w = F(w)
  <2> DEFINE e(i) == Unread(cs, i)
             q(i) == IF i = 0 THEN outgoing ELSE Step(w[i - 1])
  <2>1. ASSUME NEW i \in 0 .. N PROVE e(i) = q(i)
    <3>1. CASE i = 0
      BY <1>3, <3>1, Zenon
    <3>2. CASE i # 0
      <4>1. i \in 1 .. N /\ i - 1 \in 0 .. N
        BY <1>2, <3>2
      <4>2. w[i - 1] = e(i - 1)
        BY <4>1, Zenon
      <4> HIDE DEF w
      <4> QED  BY <1>5, <3>2, <4>1, <4>2, ZenonT(60)
    <3> QED  BY <3>1, <3>2, Zenon
  <2>2. w = [i \in 0 .. N |-> e(i)]
    BY Zenon
  <2> HIDE DEF e, q, w
  <2>3. w = [i \in 0 .. N |-> q(i)]
    BY <2>1, <2>2, Zenon
  <2> QED  BY <2>3, Zenon DEF q
<1>7. unread = F(unread)
  <2> HIDE DEF F, w
  <2> QED  BY <1>6, Zenon
<1>8. \A i \in 0 .. N : w[i] = Unread(cs, i)
  BY Zenon
<1> HIDE DEF w, unread
<1>9. ASSUME NEW f, f = F(f) PROVE f[0] = outgoing /\ \A i \in 1 .. N : f[i] = Step(f[i - 1])
  <2> DEFINE q(i) == Step(f[i - 1])
  <2>1. f = [i \in 0 .. N |-> IF i = 0 THEN outgoing ELSE q(i)]
    BY <1>9, Zenon
  <2> HIDE DEF q
  <2>2. 0 \in 0 .. N /\ \A i \in 1 .. N : i \in 0 .. N /\ i # 0
    BY <1>2
  <2>3. f[0] = outgoing /\ \A i \in 1 .. N : f[i] = q(i)
    BY <2>1, <2>2, Zenon
  <2> QED  BY <2>3, Zenon DEF q
<1> HIDE DEF F
<1>10. SameStep(unread, w, N)
  BY <1>6, <1>7, <1>9, Zenon DEF SameStep
<1>11. \A i \in 0 .. N : unread[i] = Unread(cs, i)
  <2>1. \A i \in 0 .. N : unread[i] = w[i]
    BY <1>2, <1>10, SameRecursion, SMTT(30)
  <2> QED  BY <1>8, <2>1, Zenon
<1>12. ASSUME NEW i \in 1 .. N
       PROVE  /\ tcp_rpc_raw(unread[i - 1]) # NoBody
              /\ print_response(body(i), 0) = [n |-> Len(body(i)), v |-> replies[i]]
  <2>1. unread[i - 1] = Unread(cs, i - 1)
    BY <1>5, <1>11, Zenon
  <2>2. body(i) = Enc(replies[i]) /\ tcp_rpc_raw(unread[i - 1]) # NoBody
    BY <1>2, <1>5, <2>1, Zenon
  <2>3. print_response(Enc(replies[i]), 0) = [n |-> Len(Enc(replies[i])), v |-> replies[i]]
    BY <1>1, <1>2, PrintAnswer, Zenon
  <2> QED  BY <2>2, <2>3, Zenon
<1>13. unread[N] = <<>>
  <2>1. N \in 0 .. N
    BY <1>2
  <2> QED  BY <1>3, <1>11, <2>1, Zenon
<1> HIDE DEF body
<1> QED  BY <1>4, <1>d, <1>12, <1>13, Zenon

\* No reply: nothing written.
LEMMA ResponseInitInv == ResponseInit => IInv /\ ReplyInv
<1> SUFFICES ASSUME ResponseInit PROVE IInv /\ ReplyInv
  BY Zenon
<1>1. replies = <<>> /\ outgoing = <<>> /\ Init
  BY Zenon DEF ResponseInit
<1>2. Encs(<<>>) = <<>>
  BY DEF Encs
<1> QED  BY <1>1, <1>2, InitInv, NoArguments DEF ReplyInv

\* Answering leaves the parser alone.
LEMMA ParserStep == [ResponseNext]_allvars => [Next]_vars
BY Zenon DEF ResponseNext, allvars, vars, Reply, Forward, Gather, Answer

\* With responses being written the parser is the one of Protocol, so what holds
\* of parse_req there holds here.
THEOREM ParserUnaffected == ResponseSpec => Spec
<1>1. ResponseInit => Init
  BY Zenon DEF ResponseInit
<1> QED  BY <1>1, ParserStep, PTL DEF ResponseSpec, Spec

\* However responses are pipelined, replaced because they are too big, passed
\* on or merged by the proxy, a client that reads frame by frame gets, for each
\* request in order, the value it was answered with, and nothing is left over;
\* for every width, limit and number of replies.
THEOREM ExactResponses == ResponseSpec => []ResponsesExact
<1>1. IInv /\ ReplyInv /\ [ResponseNext]_allvars => (IInv /\ ReplyInv)'
  BY StepInv, ParserStep, ParserInv, Zenon
<1> QED  BY <1>1, ResponseInitInv, RepliesRead, PTL DEF ResponseSpec
=============================================================================
