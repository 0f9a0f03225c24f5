-------------------------- MODULE ServerLoopProofs --------------------------
(***************************************************************************)
(* Proofs about ServerLoop, for any number of descriptors and frames, any  *)
(* backlog and any idle timeout.                                           *)
(***************************************************************************)
EXTENDS ServerLoop, SequenceTheorems, WellFoundedInduction, TLAPS

\* The values a Conn and its socket may have.
ConnRec ==
    [want_read : BOOLEAN, want_write : BOOLEAN, want_close : BOOLEAN,
     incoming : Seq(Int), outgoing : Seq(Int),
     sent : Seq(Int), wire : Seq(Int), recv : Seq(Int), peer : {"open", "fin", "gone"}]

TypeInv ==
    /\ pc \in {"top", "poll", "accept", "conns", "closed"}
    /\ conn \in [FD -> {Null} \cup ConnRec]
    /\ idle \in Seq(FD)
    /\ age \in [FD -> Nat]
    /\ revents \in [FD -> SUBSET {"in", "out", "err"}]

\* The units of the responses made so far, written or waiting.
Answers(c) == c.recv \o c.outgoing

\* What holds of every connection between two events: nothing it was sent is
\* lost or reordered, it waits for one direction, whole requests were served,
\* and only whole acceptable requests were answered.
Sound(c) ==
    /\ Answers(c) \o c.incoming \o c.wire = c.sent
    /\ c.want_read = ~c.want_write
    /\ c.want_write <=> c.outgoing # <<>>
    /\ Served(c.incoming) = 0
    /\ \A j \in 1 .. Len(Answers(c)) : Answers(c)[j] > 0
    /\ Len(Answers(c)) % 2 = 0

ConnsSound == \A f \in Live : Sound(conn[f]) /\ ~conn[f].want_close

\* What poll reported is still true when its turn comes.
ReportsTrue ==
    \A f \in FD : /\ "in" \in revents[f] => conn[f].want_read
                  /\ "err" \in revents[f] => conn[f].peer = "gone"

\* Between rounds nothing is left over from the last poll.
Quiet == pc \notin {"accept", "conns"} => Ready = {}

\* The inductive invariant.
IInv ==
    TypeInv /\ ConnsSound /\ ReportsTrue /\ ReportedAlive /\ Quiet /\ IdleListExact
-----------------------------------------------------------------------------
\* Every set of naturals that is not empty has a least element, which is its Min.
LEMMA LeastIs ==
    ASSUME NEW T \in SUBSET Nat, T # {}
    PROVE  Min(T) \in T /\ \A y \in T : Min(T) <= y
<1> DEFINE R == OpToRel(<, Nat)
<1>1. PICK m \in T : \A y \in T : ~(<<y, m>> \in R)
  BY NatLessThanWellFounded, WFMin, Zenon
<1>2. \A y \in T : m <= y
  <2>1. SUFFICES ASSUME NEW y \in T PROVE m <= y
    BY Zenon
  <2>2. ~(y < m)
    BY <1>1, Zenon DEF OpToRel
  <2> QED
    BY <2>2
<1> QED
  BY <1>2, Zenon DEF Min

\* A set of naturals with a bound has a greatest element, which is its Max.
LEMMA BoundedMax ==
    ASSUME NEW k \in Nat, NEW S, S \subseteq 0 .. k, S # {}
    PROVE  Max(S) \in S /\ \A y \in S : y <= Max(S)
<1> DEFINE T == {k - x : x \in S}
           m == Min(T)
<1>1. T \in SUBSET Nat /\ T # {}
  <2>1. \A x \in S : k - x \in Nat
    OBVIOUS
  <2>2. PICK x \in S : TRUE
    BY Zenon
  <2> QED
    BY <2>1, <2>2, Zenon
<1>2. m \in T /\ \A y \in T : m <= y
  BY <1>1, LeastIs, Zenon
<1> HIDE DEF m
<1>3. PICK x \in S : m = k - x
  BY <1>2, Zenon
<1>4. \A y \in S : x >= y
  <2>1. SUFFICES ASSUME NEW y \in S PROVE x >= y
    BY Zenon
  <2>2. k - y \in T
    BY Zenon
  <2> QED
    BY <1>2, <1>3, <2>2
<1>5. Max(S) \in S /\ \A y \in S : Max(S) >= y
  BY <1>4, Zenon DEF Max
<1> QED
  BY <1>5, Zenon

\* What Served returns: the most whole frames at the front that are acceptable.
LEMMA ServedIs ==
    ASSUME NEW s \in Seq(Int)
    PROVE  /\ Served(s) \in Nat /\ 2 * Served(s) <= Len(s)
           /\ \A j \in 1 .. 2 * Served(s) : s[j] > 0
           /\ \A n \in Nat : 2 * n <= Len(s) /\ (\A j \in 1 .. 2 * n : s[j] > 0) => n <= Served(s)
<1> DEFINE S == {n \in 0 .. Len(s) \div 2 : \A j \in 1 .. 2 * n : s[j] > 0}
<1>1. Len(s) \in Nat /\ Len(s) \div 2 \in Nat
  OBVIOUS
<1>2. 0 \in S
  BY <1>1
<1>3. S \subseteq 0 .. Len(s) \div 2
  BY Zenon
<1> HIDE DEF S
<1>4. Max(S) \in S /\ \A y \in S : y <= Max(S)
  BY <1>1, <1>2, <1>3, BoundedMax, Zenon
<1>5. Served(s) = Max(S)
  BY Zenon DEF Served, S
<1>6. Served(s) \in S /\ \A y \in S : y <= Served(s)
  BY <1>4, <1>5, Zenon
<1>7. ASSUME NEW n \in Nat, 2 * n <= Len(s), \A j \in 1 .. 2 * n : s[j] > 0
      PROVE  n <= Served(s)
  <2>1. n \in S
    BY <1>1, <1>7 DEF S
  <2> QED
    BY <1>6, <2>1, Zenon
<1>8. /\ Served(s) \in Nat /\ 2 * Served(s) <= Len(s)
      /\ \A j \in 1 .. 2 * Served(s) : s[j] > 0
  BY <1>1, <1>6 DEF S
<1> QED
  BY <1>7, <1>8, Zenon

\* A sequence cut in two: the pieces, and that together they are the sequence.
LEMMA Cut ==
    ASSUME NEW S, NEW s \in Seq(S), NEW n \in 0 .. Len(s)
    PROVE  /\ SubSeq(s, 1, n) \in Seq(S) /\ SubSeq(s, n + 1, Len(s)) \in Seq(S)
           /\ Len(SubSeq(s, 1, n)) = n /\ Len(SubSeq(s, n + 1, Len(s))) = Len(s) - n
           /\ \A j \in 1 .. n : SubSeq(s, 1, n)[j] = s[j]
           /\ \A j \in 1 .. Len(s) - n : SubSeq(s, n + 1, Len(s))[j] = s[n + j]
           /\ SubSeq(s, 1, n) \o SubSeq(s, n + 1, Len(s)) = s
<1>1. Len(s) \in Nat /\ n \in Int /\ n <= Len(s) /\ 0 <= n
  BY LenProperties
<1>2. \A i \in 1 .. Len(s) : s[i] \in S
  BY ElementOfSeq, Zenon
<1>3. /\ SubSeq(s, 1, n) \in Seq(S)
      /\ Len(SubSeq(s, 1, n)) = IF 1 <= n THEN n - 1 + 1 ELSE 0
      /\ \A i \in 1 .. n - 1 + 1 : SubSeq(s, 1, n)[i] = s[1 + i - 1]
  <2>1. \A i \in 1 .. n : s[i] \in S
    BY <1>1, <1>2
  <2> QED
    BY <1>1, <2>1, SubSeqProperties
<1>4. /\ SubSeq(s, n + 1, Len(s)) \in Seq(S)
      /\ Len(SubSeq(s, n + 1, Len(s))) = IF n + 1 <= Len(s) THEN Len(s) - (n + 1) + 1 ELSE 0
      /\ \A i \in 1 .. Len(s) - (n + 1) + 1 : SubSeq(s, n + 1, Len(s))[i] = s[(n + 1) + i - 1]
  <2>1. \A i \in n + 1 .. Len(s) : s[i] \in S
    BY <1>1, <1>2
  <2>2. n + 1 \in Int /\ Len(s) \in Int
    BY <1>1
  <2> QED
    BY <2>1, <2>2, SubSeqProperties
<1>5. Len(SubSeq(s, 1, n)) = n /\ Len(SubSeq(s, n + 1, Len(s))) = Len(s) - n
  BY <1>1, <1>3, <1>4
<1>6. \A j \in 1 .. n : SubSeq(s, 1, n)[j] = s[j]
  <2>1. \A j \in 1 .. n : 1 + j - 1 = j /\ j \in 1 .. n - 1 + 1
    BY <1>1
  <2> QED
    BY <1>3, <2>1, Zenon
<1>7. \A j \in 1 .. Len(s) - n : SubSeq(s, n + 1, Len(s))[j] = s[n + j]
  <2>1. \A j \in 1 .. Len(s) - n : (n + 1) + j - 1 = n + j /\ j \in 1 .. Len(s) - (n + 1) + 1
    BY <1>1
  <2> QED
    BY <1>4, <2>1, Zenon
<1>8. SubSeq(s, 1, n) \o SubSeq(s, n + 1, Len(s)) = SubSeq(s, 1, Len(s))
  <2>1. 1 \in 1 .. Len(s) + 1 /\ n \in 1 - 1 .. Len(s) /\ Len(s) \in n .. Len(s)
    BY <1>1
  <2> QED
    BY <2>1, ConcatAdjacentSubSeq, Zenon
<1>9. SubSeq(s, 1, n) \o SubSeq(s, n + 1, Len(s)) = s
  BY <1>8, SubSeqFull, Zenon
<1> QED
  BY <1>3, <1>4, <1>5, <1>6, <1>7, <1>9, Zenon

\* After the whole acceptable frames at the front are taken, none is left there.
LEMMA ServedRest ==
    ASSUME NEW s \in Seq(Int)
    PROVE  Served(SubSeq(s, 2 * Served(s) + 1, Len(s))) = 0
<1> DEFINE n == Served(s)
           r == SubSeq(s, 2 * n + 1, Len(s))
           m == Served(r)
<1>1. /\ n \in Nat /\ 2 * n <= Len(s) /\ \A j \in 1 .. 2 * n : s[j] > 0
      /\ \A k \in Nat : 2 * k <= Len(s) /\ (\A j \in 1 .. 2 * k : s[j] > 0) => k <= n
  BY ServedIs, Zenon
<1> HIDE DEF n
<1>2. /\ r \in Seq(Int) /\ Len(r) = Len(s) - 2 * n /\ Len(s) \in Nat
      /\ \A j \in 1 .. Len(r) : r[j] = s[2 * n + j]
  <2>1. 2 * n \in 0 .. Len(s) /\ Len(s) \in Nat
    BY <1>1
  <2> QED
    BY <2>1, Cut
<1> HIDE DEF r
<1>3. m \in Nat /\ 2 * m <= Len(r) /\ \A j \in 1 .. 2 * m : r[j] > 0
  BY <1>2, ServedIs, Zenon
<1> HIDE DEF m
<1>4. ASSUME NEW j \in 1 .. 2 * (n + m), j > 2 * n PROVE s[j] > 0
  <2>1. j - 2 * n \in 1 .. 2 * m /\ j - 2 * n \in 1 .. Len(r)
    BY <1>1, <1>2, <1>3, <1>4
  <2>2. r[j - 2 * n] = s[2 * n + (j - 2 * n)] /\ r[j - 2 * n] > 0
    BY <1>2, <1>3, <2>1, Zenon
  <2>3. 2 * n + (j - 2 * n) = j
    BY <1>1
  <2> QED
    BY <2>2, <2>3, Zenon
<1>5. \A j \in 1 .. 2 * (n + m) : s[j] > 0
  BY <1>1, <1>3, <1>4
<1>6. n + m \in Nat /\ 2 * (n + m) <= Len(s)
  BY <1>1, <1>2, <1>3
<1>7. n + m <= n
  BY <1>1, <1>5, <1>6, Zenon
<1>8. m = 0
  BY <1>1, <1>3, <1>7
<1> QED
  BY <1>8, Zenon DEF m, r, n

\* Whole acceptable frames in front of what has none count for what they are.
LEMMA ServedConcat ==
    ASSUME NEW s \in Seq(Int), NEW t \in Seq(Int), Len(s) % 2 = 0,
           \A j \in 1 .. Len(s) : s[j] > 0, Served(t) = 0
    PROVE  Len(s) = 2 * Served(s \o t)
<1> DEFINE u == s \o t
           m == Served(u)
<1>1. /\ u \in Seq(Int) /\ Len(u) = Len(s) + Len(t) /\ Len(s) \in Nat /\ Len(t) \in Nat
      /\ \A j \in 1 .. Len(s) : u[j] = s[j]
      /\ \A j \in 1 .. Len(t) : u[Len(s) + j] = t[j]
  OBVIOUS
<1> HIDE DEF u
<1>2. /\ m \in Nat /\ 2 * m <= Len(u) /\ \A j \in 1 .. 2 * m : u[j] > 0
      /\ \A k \in Nat : 2 * k <= Len(u) /\ (\A j \in 1 .. 2 * k : u[j] > 0) => k <= m
  BY <1>1, ServedIs, Zenon
<1> HIDE DEF m
<1>3. PICK k \in Nat : Len(s) = 2 * k
  <2>1. Len(s) = 2 * (Len(s) \div 2) /\ Len(s) \div 2 \in Nat
    BY <1>1
  <2> QED
    BY <2>1, Zenon
<1>4. k <= m
  <2>1. 2 * k <= Len(u) /\ \A j \in 1 .. 2 * k : u[j] > 0
    BY <1>1, <1>3
  <2> QED
    BY <1>2, <2>1, Zenon
<1>5. ASSUME k < m PROVE FALSE
  <2>1. 1 .. 2 \subseteq 1 .. Len(t)
    BY <1>1, <1>2, <1>3, <1>5
  <2>2. \A j \in 1 .. 2 : Len(s) + j \in 1 .. 2 * m
    BY <1>1, <1>2, <1>3, <1>5
  <2>3. ASSUME NEW j \in 1 .. 2 * 1 PROVE t[j] > 0
    <3>1. j \in 1 .. 2
      OBVIOUS
    <3>2. u[Len(s) + j] = t[j]
      BY <1>1, <2>1, <3>1, Zenon
    <3> QED
      BY <1>2, <2>2, <3>1, <3>2, Zenon
  <2>4. 2 * 1 <= Len(t)
    BY <1>1, <1>2, <1>3, <1>5
  <2>5. 1 <= Served(t)
    BY <2>3, <2>4, ServedIs, Zenon
  <2> QED
    BY <2>5
<1> QED
  BY <1>2, <1>3, <1>4, <1>5 DEF m, u
-----------------------------------------------------------------------------
\* Concatenation of units is associative.
LEMMA Assoc == \A s, t, u \in Seq(Int) : (s \o t) \o u = s \o (t \o u)
OBVIOUS

\* A connection is not the absence of one.
LEMMA NotNull ==
    ASSUME NEW c \in ConnRec
    PROVE  c # Null
<1>1. "peer" \in DOMAIN c
  BY Zenon DEF ConnRec
<1>2. DOMAIN Null = {}
  BY DEF Null
<1> QED
  BY <1>1, <1>2, Zenon

\* Two pieces of a connection's stream, as sequences of units.
LEMMA AnswersIs ==
    ASSUME NEW c \in ConnRec
    PROVE  /\ Answers(c) \in Seq(Int)
           /\ Len(Answers(c)) = Len(c.recv) + Len(c.outgoing)
           /\ c.outgoing = <<>> => Answers(c) = c.recv
<1>1. c.recv \in Seq(Int) /\ c.outgoing \in Seq(Int)
  BY Zenon DEF ConnRec
<1>2. /\ c.recv \o c.outgoing \in Seq(Int)
      /\ Len(c.recv \o c.outgoing) = Len(c.recv) + Len(c.outgoing)
  BY <1>1, ConcatProperties, Zenon
<1>3. c.recv \o <<>> = c.recv
  BY <1>1, ConcatEmptySeq, Zenon
<1> QED
  BY <1>2, <1>3, Zenon DEF Answers

\* A write moves units from the buffer to the client and changes nothing else
\* of the stream.
LEMMA WroteSound ==
    ASSUME NEW c \in ConnRec, Sound(c), NEW n \in 1 .. Len(c.outgoing)
    PROVE  /\ Wrote(c, n) \in ConnRec /\ Sound(Wrote(c, n))
           /\ Wrote(c, n).want_close = c.want_close /\ Wrote(c, n).peer = c.peer
<1> DEFINE d    == Wrote(c, n)
           rest == SubSeq(c.outgoing, n + 1, Len(c.outgoing))
           out  == SubSeq(c.outgoing, 1, n)
<1>1. c.recv \in Seq(Int) /\ c.outgoing \in Seq(Int) /\ n \in 0 .. Len(c.outgoing)
  BY DEF ConnRec
<1>2. rest \in Seq(Int) /\ out \in Seq(Int) /\ out \o rest = c.outgoing
  BY <1>1, Cut, Zenon
<1>3. /\ d.outgoing = rest /\ d.recv = c.recv \o out
      /\ d.want_read = (c.want_read \/ rest = <<>>)
      /\ d.want_write = (c.want_write /\ rest # <<>>)
      /\ d.want_close = c.want_close /\ d.incoming = c.incoming /\ d.wire = c.wire
      /\ d.sent = c.sent /\ d.peer = c.peer
  BY Zenon DEF Wrote, ConnRec
<1>4. d \in ConnRec
  <2>1. c.recv \o out \in Seq(Int)
    BY <1>1, <1>2, ConcatProperties, Zenon
  <2> HIDE DEF rest, out
  <2>2. d = [c EXCEPT !.outgoing = rest, !.recv = c.recv \o out,
                      !.want_read = c.want_read \/ rest = <<>>,
                      !.want_write = c.want_write /\ rest # <<>>]
    BY Zenon DEF Wrote, rest, out
  <2> QED
    BY <1>2, <2>1, <2>2, ZenonT(60) DEF ConnRec
<1>5. Answers(d) = Answers(c)
  <2>1. (c.recv \o out) \o rest = c.recv \o (out \o rest)
    BY <1>1, <1>2, Assoc, Zenon
  <2> QED
    BY <1>2, <1>3, <2>1, Zenon DEF Answers
<1>6. c.want_write = TRUE /\ c.want_read = FALSE
  <2>1. c.outgoing # <<>>
    BY <1>1
  <2> QED
    BY <2>1, Zenon DEF Sound, ConnRec
<1>7. d.want_read = ~d.want_write /\ (d.want_write <=> d.outgoing # <<>>)
  BY <1>3, <1>6, Zenon
<1> HIDE DEF d
<1>8. Sound(d)
  BY <1>3, <1>5, <1>7, Zenon DEF Sound
<1> QED
  BY <1>3, <1>4, <1>8, Zenon DEF d

\* handle_write keeps a connection sound, and gives it up only if the client has.
LEMMA WriteSound ==
    ASSUME NEW c \in ConnRec, Sound(c), NEW d \in handle_write(c)
    PROVE  /\ d \in ConnRec /\ Sound(d) /\ d.peer = c.peer
           /\ d.want_close => c.want_close \/ c.peer = "gone"
<1>1. CASE d = c
  BY <1>1, Zenon
<1>2. CASE c.peer = "gone" /\ d = [c EXCEPT !.want_close = TRUE]
  <2>1. d \in ConnRec
    BY <1>2, Zenon DEF ConnRec
  <2>2. /\ d.recv = c.recv /\ d.outgoing = c.outgoing /\ d.incoming = c.incoming
        /\ d.wire = c.wire /\ d.sent = c.sent /\ d.want_read = c.want_read
        /\ d.want_write = c.want_write /\ d.peer = c.peer
    BY <1>2, Zenon DEF ConnRec
  <2>3. Sound(d)
    BY <2>2, Zenon DEF Sound, Answers
  <2> QED
    BY <1>2, <2>1, <2>2, <2>3, Zenon
<1>3. CASE \E n \in 1 .. Len(c.outgoing) : d = Wrote(c, n)
  BY <1>3, WroteSound
<1> QED
  BY <1>1, <1>2, <1>3, Zenon DEF handle_write

\* The part of Sound that reading and serving do not interrupt.
Stream(c) ==
    /\ Answers(c) \o c.incoming \o c.wire = c.sent
    /\ \A j \in 1 .. Len(Answers(c)) : Answers(c)[j] > 0
    /\ Len(Answers(c)) % 2 = 0

\* A unit of c that belongs to no acceptable frame.
BadUnit(c) == \E j \in 1 .. Len(c.sent) : ~(c.sent[j] > 0)

\* try_one_request until it returns false: the requests served are answered in
\* order, none is left, and a connection is given up only for a bad frame.
LEMMA RequestsSound ==
    ASSUME NEW c \in ConnRec, Stream(c)
    PROVE  LET d == try_requests(c)
           IN  /\ d \in ConnRec /\ Stream(d) /\ Served(d.incoming) = 0
               /\ d.want_read = c.want_read /\ d.want_write = c.want_write
               /\ d.sent = c.sent /\ d.peer = c.peer /\ d.wire = c.wire
               /\ d.want_close => c.want_close \/ BadUnit(d)
<1> DEFINE d    == try_requests(c)
           n    == Served(c.incoming)
           rest == SubSeq(c.incoming, 2 * n + 1, Len(c.incoming))
           good == SubSeq(c.incoming, 1, 2 * n)
           bad  == \/ Len(rest) >= 1 /\ rest[1] = Long
                   \/ Len(rest) >= 2 /\ rest[1] = Malformed
<1>1. /\ c.recv \in Seq(Int) /\ c.outgoing \in Seq(Int) /\ c.incoming \in Seq(Int)
      /\ c.wire \in Seq(Int) /\ c.sent \in Seq(Int)
  BY Zenon DEF ConnRec
<1>2. /\ n \in Nat /\ 2 * n \in 0 .. Len(c.incoming)
      /\ \A j \in 1 .. 2 * n : c.incoming[j] > 0
  <2>1. /\ n \in Nat /\ 2 * n <= Len(c.incoming) /\ Len(c.incoming) \in Nat
        /\ \A j \in 1 .. 2 * n : c.incoming[j] > 0
    BY <1>1, ServedIs, LenProperties, Zenon
  <2> HIDE DEF n
  <2> QED
    BY <2>1
<1>3. Served(rest) = 0
  BY <1>1, ServedRest, Zenon
<1>4. d = [c EXCEPT !.incoming = rest, !.outgoing = c.outgoing \o good,
                    !.want_close = c.want_close \/ bad]
  BY Zenon DEF try_requests
<1> HIDE DEF n
<1>5. /\ rest \in Seq(Int) /\ good \in Seq(Int) /\ good \o rest = c.incoming
      /\ Len(good) = 2 * n /\ \A j \in 1 .. 2 * n : good[j] = c.incoming[j]
  BY <1>1, <1>2, Cut
<1>6. c.outgoing \o good \in Seq(Int)
  BY <1>1, <1>5, ConcatProperties, Zenon
<1>7. bad \in BOOLEAN
  BY Zenon
<1> HIDE DEF d, good
<1> HIDE DEF rest
<1>8. bad => Len(rest) >= 1 /\ ~(rest[1] > 0)
  <2>1. Len(rest) \in Nat
    BY <1>5, LenProperties, Zenon
  <2> QED
    BY <2>1 DEF Long, Malformed
<1> HIDE DEF bad
<1>9. d \in ConnRec
  BY <1>4, <1>5, <1>6, <1>7, Zenon DEF ConnRec
<1>10. /\ d.incoming = rest /\ d.outgoing = c.outgoing \o good
       /\ d.want_close = (c.want_close \/ bad) /\ d.recv = c.recv
       /\ d.want_read = c.want_read /\ d.want_write = c.want_write
       /\ d.sent = c.sent /\ d.peer = c.peer /\ d.wire = c.wire
  BY <1>4, Zenon DEF ConnRec
<1>11. Answers(c) \in Seq(Int) /\ Answers(d) \in Seq(Int)
  BY <1>9, AnswersIs, Zenon
<1>12. Answers(d) = Answers(c) \o good
  <2>1. (c.recv \o c.outgoing) \o good = c.recv \o (c.outgoing \o good)
    <3>1. c.recv \in Seq(Int) /\ c.outgoing \in Seq(Int) /\ good \in Seq(Int)
      BY <1>1, <1>5, Zenon
    <3> QED
      BY <3>1, Assoc, Zenon
  <2> QED
    BY <1>10, <2>1, Zenon DEF Answers
<1>13. Answers(d) \o rest = Answers(c) \o c.incoming
  <2>1. (Answers(c) \o good) \o rest = Answers(c) \o (good \o rest)
    BY <1>5, <1>11, Assoc, Zenon
  <2> QED
    BY <1>5, <1>12, <2>1, Zenon
<1>14. Len(Answers(d)) = Len(Answers(c)) + 2 * n /\ Len(Answers(c)) \in Nat
  <2>1. Len(Answers(c) \o good) = Len(Answers(c)) + Len(good)
    BY <1>5, <1>11, ConcatProperties, Zenon
  <2> QED
    BY <1>5, <1>11, <1>12, <2>1, LenProperties, Zenon
<1>15. Len(Answers(d)) % 2 = 0
  BY <1>2, <1>14 DEF Stream
<1>16. ASSUME NEW j \in 1 .. Len(Answers(d)) PROVE Answers(d)[j] > 0
  <2>1. \A i \in 1 .. Len(Answers(c)) + Len(good) : (Answers(c) \o good)[i] =
            IF i <= Len(Answers(c)) THEN Answers(c)[i] ELSE good[i - Len(Answers(c))]
    BY <1>5, <1>11, ConcatProperties, Zenon
  <2>2. Answers(d)[j] = IF j <= Len(Answers(c)) THEN Answers(c)[j] ELSE good[j - Len(Answers(c))]
    BY <1>5, <1>12, <1>14, <2>1, Zenon
  <2>3. CASE j <= Len(Answers(c))
    <3>1. j \in 1 .. Len(Answers(c))
      BY <1>14, <2>3
    <3> QED
      BY <2>2, <2>3, <3>1, Zenon DEF Stream
  <2>4. CASE ~(j <= Len(Answers(c)))
    <3>1. j - Len(Answers(c)) \in 1 .. 2 * n
      BY <1>2, <1>14, <2>4
    <3>2. good[j - Len(Answers(c))] > 0
      BY <1>2, <1>5, <3>1, Zenon
    <3> QED
      BY <2>2, <2>4, <3>2, Zenon
  <2> QED
    BY <2>3, <2>4, Zenon
<1>17. Stream(d)
  <2>1. Answers(d) \o d.incoming \o d.wire = d.sent
    BY <1>10, <1>13, Zenon DEF Stream
  <2> QED
    BY <1>15, <1>16, <2>1, Zenon DEF Stream
<1>18. ASSUME bad PROVE BadUnit(d)
  <2>1. /\ d.sent = (Answers(d) \o rest) \o c.wire
    BY <1>10, <1>17, Zenon DEF Stream
  <2> DEFINE a == Answers(d)
             i == Len(a) + 1
  <2>2. /\ a \in Seq(Int) /\ Len(a) \in Nat /\ Len(rest) \in Nat /\ Len(c.wire) \in Nat
        /\ Len(rest) >= 1
    BY <1>1, <1>5, <1>8, <1>11, <1>18, LenProperties, Zenon
  <2> HIDE DEF a
  <2>3. /\ a \o rest \in Seq(Int) /\ Len(a \o rest) = Len(a) + Len(rest)
        /\ \A k \in 1 .. Len(a) + Len(rest) : (a \o rest)[k] =
                IF k <= Len(a) THEN a[k] ELSE rest[k - Len(a)]
    BY <1>5, <2>2, ConcatProperties
  <2>4. (a \o rest)[i] = rest[1] /\ i \in 1 .. Len(a \o rest)
    <3>1. i \in 1 .. Len(a) + Len(rest) /\ ~(i <= Len(a)) /\ i - Len(a) = 1
      BY <2>2
    <3> QED
      BY <2>3, <3>1, Zenon
  <2> DEFINE b == a \o rest
  <2> HIDE DEF b
  <2>5. /\ Len(b \o c.wire) = Len(b) + Len(c.wire)
        /\ \A k \in 1 .. Len(b) + Len(c.wire) : (b \o c.wire)[k] =
                IF k <= Len(b) THEN b[k] ELSE c.wire[k - Len(b)]
    <3>1. b \in Seq(Int)
      BY <2>3, Zenon DEF b
    <3> QED
      BY <1>1, <3>1, ConcatProperties, ZenonT(60)
  <2>6. (b \o c.wire)[i] = rest[1] /\ i \in 1 .. Len(b \o c.wire)
    <3>1. b[i] = rest[1] /\ i \in 1 .. Len(b) /\ Len(b) \in Nat
      BY <2>2, <2>3, <2>4 DEF b
    <3>2. i \in 1 .. Len(b) + Len(c.wire) /\ i <= Len(b)
      BY <2>2, <3>1
    <3> QED
      BY <2>5, <3>1, <3>2, Zenon
  <2>7. ~(d.sent[i] > 0) /\ i \in 1 .. Len(d.sent)
    BY <1>8, <1>18, <2>1, <2>6, Zenon DEF a, b
  <2> QED
    BY <2>7, Zenon DEF BadUnit
<1>19. d.want_close => c.want_close \/ BadUnit(d)
  BY <1>10, <1>18, Zenon
<1> QED
  BY <1>3, <1>9, <1>10, <1>17, <1>19, Zenon DEF d

\* A read that takes n units from the socket, with all that follows it, keeps a
\* connection sound, and gives it up only for a bad frame or a client that is gone.
LEMMA ReceivedSound ==
    ASSUME NEW c \in ConnRec, Sound(c), c.want_read, NEW n \in 1 .. Len(c.wire),
           NEW d \in Received(c, n)
    PROVE  /\ d \in ConnRec /\ Sound(d) /\ d.peer = c.peer
           /\ d.want_close => c.want_close \/ c.peer = "gone" \/ BadUnit(c)
<1> DEFINE got == SubSeq(c.wire, 1, n)
           rest == SubSeq(c.wire, n + 1, Len(c.wire))
           b == [c EXCEPT !.incoming = c.incoming \o got, !.wire = rest]
           e == try_requests(b)
           w == [e EXCEPT !.want_read = FALSE, !.want_write = TRUE]
<1>1. /\ c.recv \in Seq(Int) /\ c.outgoing \in Seq(Int) /\ c.incoming \in Seq(Int)
      /\ c.wire \in Seq(Int) /\ c.sent \in Seq(Int) /\ n \in 0 .. Len(c.wire)
  BY DEF ConnRec
<1>2. got \in Seq(Int) /\ rest \in Seq(Int) /\ got \o rest = c.wire
  BY <1>1, Cut
<1>3. d \in (IF e.outgoing = <<>> THEN {e} ELSE handle_write(w))
  BY Zenon DEF Received
<1> HIDE DEF got, rest
<1>4. c.incoming \o got \in Seq(Int)
  BY <1>1, <1>2, ConcatProperties, Zenon
<1>5. b \in ConnRec
  BY <1>2, <1>4, Zenon DEF ConnRec
<1>6. /\ b.incoming = c.incoming \o got /\ b.wire = rest /\ b.recv = c.recv
      /\ b.outgoing = c.outgoing /\ b.sent = c.sent /\ b.peer = c.peer
      /\ b.want_read = c.want_read /\ b.want_write = c.want_write
      /\ b.want_close = c.want_close
  BY Zenon DEF ConnRec
<1> HIDE DEF b
<1>7. Stream(b)
  <2>1. Answers(b) = Answers(c) /\ Answers(c) \in Seq(Int)
    BY <1>6, AnswersIs, Zenon DEF Answers
  <2>2. (Answers(c) \o (c.incoming \o got)) \o rest = (Answers(c) \o c.incoming) \o c.wire
    <3> DEFINE a == Answers(c)
               i == c.incoming
    <3>1. a \in Seq(Int) /\ i \in Seq(Int) /\ got \in Seq(Int) /\ rest \in Seq(Int)
      BY <1>1, <1>2, <2>1, Zenon
    <3> HIDE DEF a, i
    <3>2. a \o i \in Seq(Int)
      BY <3>1, ConcatProperties, Zenon
    <3>3. (a \o i) \o got = a \o (i \o got)
      BY <3>1, Assoc, Zenon
    <3>4. ((a \o i) \o got) \o rest = (a \o i) \o (got \o rest)
      BY <3>1, <3>2, Assoc, Zenon
    <3> QED
      BY <1>2, <3>3, <3>4, Zenon DEF a, i
  <2> QED
    BY <1>6, <2>1, <2>2, Zenon DEF Stream, Sound
<1>8. /\ e \in ConnRec /\ Stream(e) /\ Served(e.incoming) = 0
      /\ e.want_read = c.want_read /\ e.want_write = c.want_write
      /\ e.sent = c.sent /\ e.peer = c.peer
      /\ e.want_close => c.want_close \/ BadUnit(e)
  BY <1>5, <1>6, <1>7, RequestsSound, Zenon
<1> HIDE DEF e
<1>9. BadUnit(e) => BadUnit(c)
  BY <1>8, Zenon DEF BadUnit
<1>10. CASE e.outgoing = <<>>
  <2>1. c.want_read = TRUE /\ c.want_write = FALSE
    BY Zenon DEF Sound, ConnRec
  <2>2. Sound(e)
    BY <1>8, <1>10, <2>1, Zenon DEF Sound, Stream
  <2> QED
    BY <1>3, <1>8, <1>9, <1>10, <2>2, Zenon
<1>11. CASE e.outgoing # <<>>
  <2>1. w \in ConnRec
    BY <1>8, Zenon DEF ConnRec
  <2>2. /\ w.incoming = e.incoming /\ w.wire = e.wire /\ w.recv = e.recv
        /\ w.outgoing = e.outgoing /\ w.sent = e.sent /\ w.peer = e.peer
        /\ w.want_read = FALSE /\ w.want_write = TRUE /\ w.want_close = e.want_close
    BY <1>8, Zenon DEF ConnRec
  <2> HIDE DEF w
  <2>3. Sound(w)
    BY <1>8, <1>11, <2>2, Zenon DEF Sound, Stream, Answers
  <2>4. d \in handle_write(w)
    BY <1>3, <1>11, Zenon
  <2>5. /\ d \in ConnRec /\ Sound(d) /\ d.peer = w.peer
        /\ d.want_close => w.want_close \/ w.peer = "gone"
    BY <2>1, <2>3, <2>4, WriteSound, Zenon
  <2> QED
    BY <1>8, <1>9, <2>2, <2>5, Zenon
<1> QED
  BY <1>10, <1>11, Zenon

\* handle_read keeps a connection sound.  Of a client that is not gone and sent
\* no bad frame it gives up only one that was answered in full.
LEMMA ReadSound ==
    ASSUME NEW c \in ConnRec, Sound(c), c.want_read, ~c.want_close, NEW d \in handle_read(c)
    PROVE  /\ d \in ConnRec /\ Sound(d) /\ d.peer = c.peer
           /\ d.want_close => \/ c.peer = "gone" \/ BadUnit(c)
                              \/ Len(c.recv) = 2 * Served(c.sent)
<1>1. CASE d = c
  BY <1>1, Zenon
<1>2. CASE /\ c.peer = "gone" \/ (c.peer = "fin" /\ c.wire = <<>>)
           /\ d = [c EXCEPT !.want_close = TRUE]
  <2>1. d \in ConnRec
    BY <1>2, Zenon DEF ConnRec
  <2>2. /\ d.recv = c.recv /\ d.outgoing = c.outgoing /\ d.incoming = c.incoming
        /\ d.wire = c.wire /\ d.sent = c.sent /\ d.want_read = c.want_read
        /\ d.want_write = c.want_write /\ d.peer = c.peer
    BY <1>2, Zenon DEF ConnRec
  <2>3. Sound(d)
    BY <2>2, Zenon DEF Sound, Answers
  <2>4. ASSUME c.wire = <<>> PROVE Len(c.recv) = 2 * Served(c.sent)
    <3>1. c.outgoing = <<>>
      BY Zenon DEF Sound
    <3>2. Answers(c) = c.recv /\ c.recv \in Seq(Int) /\ c.incoming \in Seq(Int)
      BY <3>1, AnswersIs, Zenon DEF ConnRec
    <3>3. c.recv \o c.incoming \in Seq(Int)
      BY <3>2, ConcatProperties, Zenon
    <3>4. (c.recv \o c.incoming) \o <<>> = c.recv \o c.incoming
      BY <3>3, ConcatEmptySeq, Zenon
    <3>5. c.sent = c.recv \o c.incoming
      BY <2>4, <3>2, <3>4, Zenon DEF Sound
    <3>6. /\ Len(c.recv) % 2 = 0 /\ \A j \in 1 .. Len(c.recv) : c.recv[j] > 0
          /\ Served(c.incoming) = 0
      BY <3>2, Zenon DEF Sound
    <3> QED
      BY <3>2, <3>5, <3>6, ServedConcat, Zenon
  <2> QED
    BY <1>2, <2>1, <2>2, <2>3, <2>4, Zenon
<1>3. CASE \E n \in 1 .. Len(c.wire) : d \in Received(c, n)
  BY <1>3, ReceivedSound, Zenon
<1> QED
  BY <1>1, <1>2, <1>3, Zenon DEF handle_read

\* The body of the loop over poll_args, in the same terms.
LEMMA HandledSound ==
    ASSUME NEW c \in ConnRec, Sound(c), ~c.want_close, NEW ev, "in" \in ev => c.want_read,
           NEW d \in Handled(c, ev)
    PROVE  /\ d \in ConnRec /\ Sound(d) /\ d.peer = c.peer
           /\ d.want_close => \/ c.peer = "gone" \/ BadUnit(c)
                              \/ Len(c.recv) = 2 * Served(c.sent)
<1>1. PICK e \in (IF "in" \in ev THEN handle_read(c) ELSE {c}) :
          d \in IF "out" \in ev /\ ~e.want_close /\ e.outgoing # <<>>
                THEN handle_write(e) ELSE {e}
  BY Zenon DEF Handled
<1>2. /\ e \in ConnRec /\ Sound(e) /\ e.peer = c.peer
      /\ e.want_close => \/ c.peer = "gone" \/ BadUnit(c)
                         \/ Len(c.recv) = 2 * Served(c.sent)
  <2>1. CASE "in" \in ev
    BY <1>1, <2>1, ReadSound, Zenon
  <2>2. CASE "in" \notin ev
    BY <1>1, <2>2, Zenon
  <2> QED
    BY <2>1, <2>2, Zenon
<1>3. CASE d = e
  BY <1>2, <1>3, Zenon
<1>4. CASE ~e.want_close /\ d \in handle_write(e)
  BY <1>2, <1>4, WriteSound, Zenon
<1> QED
  BY <1>1, <1>3, <1>4, Zenon
-----------------------------------------------------------------------------
\* The two halves of IdleListExact, for any list and any ages.
Elems(s) == {s[i] : i \in 1 .. Len(s)}
Ordered(s, a) == \A i, j \in 1 .. Len(s) : i < j => s[i] # s[j] /\ a[s[i]] >= a[s[j]]

\* Ages that keep the order of the old ones keep the list in order.
LEMMA OrderedAges ==
    ASSUME NEW s \in Seq(FD), NEW a, NEW b, Ordered(s, a),
           \A x, y \in Elems(s) : a[x] >= a[y] => b[x] >= b[y]
    PROVE  Ordered(s, b)
<1>1. \A i \in 1 .. Len(s) : s[i] \in Elems(s)
  BY Zenon DEF Elems
<1> QED
  BY <1>1, Zenon DEF Ordered

\* dlist_insert_before of the list's head: a connection that was just active.
LEMMA AppendOrdered ==
    ASSUME NEW s \in Seq(FD), NEW a \in [FD -> Nat], NEW f \in FD, Ordered(s, a), f \notin Elems(s)
    PROVE  /\ Append(s, f) \in Seq(FD)
           /\ Ordered(Append(s, f), [a EXCEPT ![f] = 0])
           /\ Elems(Append(s, f)) = Elems(s) \cup {f}
<1> DEFINE t == Append(s, f)
           b == [a EXCEPT ![f] = 0]
<1>1. /\ t \in Seq(FD) /\ Len(s) \in Nat /\ Len(t) = Len(s) + 1 /\ t[Len(s) + 1] = f
      /\ \A i \in 1 .. Len(s) : t[i] = s[i] /\ s[i] \in FD
  OBVIOUS
<1>2. \A x \in FD : b[x] = IF x = f THEN 0 ELSE a[x]
  BY Zenon
<1> HIDE DEF t, b
<1>3. \A i \in 1 .. Len(s) : s[i] # f
  BY Zenon DEF Elems
<1>4. ASSUME NEW i \in 1 .. Len(t), NEW j \in 1 .. Len(t), i < j
      PROVE  t[i] # t[j] /\ b[t[i]] >= b[t[j]]
  <2>1. i \in 1 .. Len(s) /\ t[i] = s[i] /\ b[t[i]] = a[s[i]] /\ a[s[i]] \in Nat
    BY <1>1, <1>2, <1>3, <1>4
  <2>2. CASE j = Len(s) + 1
    BY <1>1, <1>2, <1>3, <2>1, <2>2
  <2>3. CASE j \in 1 .. Len(s)
    <3>1. t[j] = s[j] /\ b[t[j]] = a[s[j]]
      BY <1>1, <1>2, <1>3, <2>3, Zenon
    <3> QED
      BY <1>4, <2>1, <2>3, <3>1, ZenonT(60) DEF Ordered
  <2> QED
    BY <1>1, <2>2, <2>3
<1>5. Ordered(t, b)
  BY <1>4, Zenon DEF Ordered
<1>6. Elems(t) = Elems(s) \cup {f}
  <2>1. \A i \in 1 .. Len(t) : i \in 1 .. Len(s) \/ i = Len(s) + 1
    BY <1>1
  <2>2. /\ \A i \in 1 .. Len(s) : i \in 1 .. Len(t)
        /\ Len(s) + 1 \in 1 .. Len(t)
    BY <1>1
  <2> QED
    BY <1>1, <2>1, <2>2, Zenon DEF Elems
<1> QED
  BY <1>1, <1>5, <1>6, Zenon DEF t, b

\* dlist_detach: the others keep their order.
LEMMA WithoutOrdered ==
    ASSUME idle \in Seq(FD), NEW a, Ordered(idle, a), NEW f \in Elems(idle)
    PROVE  /\ Without(f) \in Seq(FD)
           /\ Ordered(Without(f), a)
           /\ Elems(Without(f)) = Elems(idle) \ {f}
<1> DEFINE i == CHOOSE k \in 1 .. Len(idle) : idle[k] = f
           l == SubSeq(idle, 1, i - 1)
           r == SubSeq(idle, i + 1, Len(idle))
           w == Without(f)
<1>1. i \in 1 .. Len(idle) /\ idle[i] = f
  BY Zenon DEF Elems
<1>2. w = l \o r
  BY Zenon DEF Without
<1> HIDE DEF i
<1>3. /\ Len(idle) \in Nat /\ i \in Int /\ 1 <= i /\ i <= Len(idle)
      /\ i - 1 \in 0 .. Len(idle) /\ i \in 0 .. Len(idle)
  BY <1>1, LenProperties
<1>4. /\ l \in Seq(FD) /\ Len(l) = i - 1 /\ \A j \in 1 .. i - 1 : l[j] = idle[j]
  BY <1>3, Cut
<1>5. /\ r \in Seq(FD) /\ Len(r) = Len(idle) - i
      /\ \A j \in 1 .. Len(idle) - i : r[j] = idle[i + j]
  BY <1>3, Cut, ZenonT(60)
<1> HIDE DEF l, r, w
<1>6. /\ w \in Seq(FD) /\ Len(w) = (i - 1) + (Len(idle) - i)
      /\ \A j \in 1 .. (i - 1) + (Len(idle) - i) :
            w[j] = IF j <= i - 1 THEN l[j] ELSE r[j - (i - 1)]
  <2>1. /\ l \o r \in Seq(FD) /\ Len(l \o r) = Len(l) + Len(r)
        /\ \A j \in 1 .. Len(l) + Len(r) :
              (l \o r)[j] = IF j <= Len(l) THEN l[j] ELSE r[j - Len(l)]
    BY <1>4, <1>5, ConcatProperties, ZenonT(60)
  <2>2. Len(l) = i - 1 /\ Len(r) = Len(idle) - i
    BY <1>4, <1>5, Zenon
  <2> QED
    BY <1>2, <2>1, <2>2, Zenon
<1>7. Len(w) = Len(idle) - 1
  BY <1>3, <1>6
<1> DEFINE At(j) == IF j < i THEN j ELSE j + 1
<1>8. ASSUME NEW j \in 1 .. Len(w)
      PROVE  w[j] = idle[At(j)] /\ At(j) \in 1 .. Len(idle) /\ At(j) # i
  <2>1. CASE j < i
    <3>1. j \in 1 .. i - 1 /\ j <= i - 1 /\ j \in 1 .. (i - 1) + (Len(idle) - i)
      BY <1>3, <1>7, <2>1
    <3> QED
      BY <1>3, <1>4, <1>6, <1>7, <2>1, <3>1
  <2>2. CASE ~(j < i)
    <3>1. /\ j - (i - 1) \in 1 .. Len(idle) - i /\ ~(j <= i - 1)
          /\ j \in 1 .. (i - 1) + (Len(idle) - i) /\ i + (j - (i - 1)) = j + 1
      BY <1>3, <1>7, <2>2
    <3>2. w[j] = r[j - (i - 1)] /\ r[j - (i - 1)] = idle[i + (j - (i - 1))]
      BY <1>5, <1>6, <3>1, Zenon
    <3>3. At(j) = j + 1
      BY <2>2, Zenon
    <3>4. w[j] = idle[At(j)]
      BY <3>1, <3>2, <3>3, Zenon
    <3> QED
      BY <1>3, <1>7, <2>2, <3>3, <3>4
  <2> QED
    BY <2>1, <2>2, Zenon
<1>9. \A j, k \in 1 .. Len(w) : j < k => At(j) < At(k)
  BY <1>3
<1>10. ASSUME NEW k \in 1 .. Len(idle), k # i
       PROVE  \E j \in 1 .. Len(w) : At(j) = k
  <2>1. CASE k < i
    BY <1>3, <1>7, <2>1
  <2>2. CASE k > i
    <3>1. k - 1 \in 1 .. Len(w) /\ At(k - 1) = k
      BY <1>3, <1>7, <2>2
    <3> QED
      BY <3>1, Zenon
  <2> QED
    BY <1>3, <1>10, <2>1, <2>2
<1> HIDE DEF At
<1>11. Ordered(w, a)
  BY <1>8, <1>9, ZenonT(60) DEF Ordered
<1>12. \A k \in 1 .. Len(idle) : idle[k] = f => k = i
  BY <1>1, <1>3 DEF Ordered
<1>13. Elems(w) \subseteq Elems(idle) \ {f}
  BY <1>8, <1>12, ZenonT(60) DEF Elems
<1>14. Elems(idle) \ {f} \subseteq Elems(w)
  <2>1. SUFFICES ASSUME NEW k \in 1 .. Len(idle), idle[k] # f PROVE idle[k] \in Elems(w)
    BY Zenon DEF Elems
  <2>2. PICK j \in 1 .. Len(w) : At(j) = k
    BY <1>1, <1>10, <2>1, Zenon
  <2> QED
    BY <1>8, <2>2, Zenon DEF Elems
<1> QED
  BY <1>6, <1>11, <1>13, <1>14, Zenon DEF w

\* process_timers: what is left when the front of the list is taken off.
LEMMA SuffixOrdered ==
    ASSUME NEW s \in Seq(FD), NEW a, Ordered(s, a), NEW n \in 0 .. Len(s)
    PROVE  LET t == SubSeq(s, n + 1, Len(s))
           IN  /\ t \in Seq(FD) /\ Ordered(t, a)
               /\ Elems(t) = Elems(s) \ {s[j] : j \in 1 .. n}
<1> DEFINE t == SubSeq(s, n + 1, Len(s))
<1>1. /\ t \in Seq(FD) /\ Len(t) = Len(s) - n /\ Len(s) \in Nat
      /\ \A j \in 1 .. Len(s) - n : t[j] = s[n + j]
  BY Cut, LenProperties, ZenonT(60)
<1> HIDE DEF t
<1>2. \A j \in 1 .. Len(t) : t[j] = s[n + j] /\ n + j \in 1 .. Len(s)
  BY <1>1
<1>3. Ordered(t, a)
  <2>1. \A i, j \in 1 .. Len(t) : i < j => n + i < n + j
    BY <1>1
  <2> QED
    BY <1>2, <2>1, ZenonT(60) DEF Ordered
<1>4. Elems(t) \subseteq Elems(s) \ {s[j] : j \in 1 .. n}
  <2>1. SUFFICES ASSUME NEW j \in 1 .. Len(t), NEW k \in 1 .. n PROVE t[j] # s[k]
    BY <1>2, ZenonT(60) DEF Elems
  <2>2. k < n + j /\ k \in 1 .. Len(s)
    BY <1>1
  <2> QED
    BY <1>2, <2>2, Zenon DEF Ordered
<1>5. Elems(s) \ {s[j] : j \in 1 .. n} \subseteq Elems(t)
  <2>1. SUFFICES ASSUME NEW k \in 1 .. Len(s), k \notin 1 .. n PROVE s[k] \in Elems(t)
    BY Zenon DEF Elems
  <2>2. k - n \in 1 .. Len(t) /\ n + (k - n) = k
    BY <1>1, <2>1
  <2>3. t[k - n] = s[n + (k - n)]
    BY <1>2, <2>2, Zenon
  <2> QED
    BY <2>2, <2>3, Zenon DEF Elems
<1> QED
  BY <1>1, <1>3, <1>4, <1>5, Zenon DEF t

\* How far process_timers scans the list.
LEMMA ExpiredIs ==
    ASSUME idle \in Seq(FD)
    PROVE  Expired \in 0 .. Len(idle)
<1> DEFINE S == {n \in 0 .. Len(idle) : \A j \in 1 .. n : age[idle[j]] > IdleTimeout}
<1>1. Len(idle) \in Nat
  BY LenProperties, Zenon
<1>2. 0 \in S /\ S \subseteq 0 .. Len(idle)
  BY <1>1
<1> HIDE DEF S
<1>3. Max(S) \in S
  BY <1>1, <1>2, BoundedMax, Zenon
<1> QED
  BY <1>2, <1>3, Zenon DEF Expired, S

\* IdleListExact in the terms of these lemmas.
LEMMA IdleListIs == IdleListExact <=> Ordered(idle, age) /\ Elems(idle) = Live
BY Zenon DEF IdleListExact, Ordered, Elems
-----------------------------------------------------------------------------
\* A connection that is there has the type of one.
LEMMA LiveConn ==
    ASSUME TypeInv
    PROVE  \A f \in FD : f \in Live <=> conn[f] \in ConnRec
<1>1. \A c \in ConnRec : c # Null
  BY NotNull, Zenon
<1> QED
  BY <1>1, Zenon DEF TypeInv, Live

\* The loop starts with no connection.
LEMMA InitIInv == Init => IInv
<1> SUFFICES ASSUME Init PROVE IInv
  BY Zenon
<1>1. TypeInv
  BY DEF Init, TypeInv
<1>2. Live = {} /\ Ready = {}
  BY Zenon DEF Init, Live, Ready
<1>3. ConnsSound /\ ReportedAlive /\ Quiet
  BY <1>2, Zenon DEF ConnsSound, ReportedAlive, Quiet
<1>4. ReportsTrue
  BY Zenon DEF Init, ReportsTrue
<1>5. IdleListExact
  <2>1. Len(idle) = 0
    BY Zenon DEF Init
  <2> QED
    BY <1>2, <2>1 DEF IdleListExact
<1> QED
  BY <1>1, <1>3, <1>4, <1>5, Zenon DEF IInv

\* A step that changes at most flags, the backlog, and nothing the invariant is about.
LEMMA OtherIInv ==
    ASSUME IInv, UNCHANGED <<pc, conn, idle, age, revents>>
    PROVE  IInv'
BY DEF IInv, TypeInv, ConnsSound, ReportsTrue, ReportedAlive, Quiet, IdleListExact, Live, Ready

\* A step of a client, which changes its own connection.
LEMMA ClientIInv ==
    ASSUME IInv, NEW f \in Live, NEW d \in ConnRec, Sound(d), ~d.want_close,
           d.want_read = conn[f].want_read, conn[f].peer = "gone" => d.peer = "gone",
           conn' = [conn EXCEPT ![f] = d], UNCHANGED <<pc, idle, age, revents>>
    PROVE  IInv'
<1>1. TypeInv /\ f \in FD
  BY Zenon DEF IInv, Live
<1>2. d # Null
  BY NotNull, Zenon
<1>3. \A g \in FD : conn'[g] = IF g = f THEN d ELSE conn[g]
  BY <1>1, Zenon DEF TypeInv
<1>4. Live' = Live
  BY <1>2, <1>3, Zenon DEF Live
<1>5. TypeInv'
  BY <1>1, Zenon DEF TypeInv
<1>6. ConnsSound'
  <2>1. \A g \in Live : Sound(conn'[g]) /\ ~conn'[g].want_close
    BY <1>3 DEF IInv, ConnsSound, Live
  <2> QED
    BY <1>4, <2>1, Zenon DEF ConnsSound
<1>7. ReportsTrue'
  BY <1>3 DEF IInv, ReportsTrue
<1>8. Ready' = Ready
  BY Zenon DEF Ready
<1>9. ReportedAlive' /\ Quiet'
  BY <1>4, <1>8, Zenon DEF IInv, ReportedAlive, Quiet
<1>10. IdleListExact'
  BY <1>4, ZenonT(60) DEF IInv, IdleListExact
<1> QED
  BY <1>5, <1>6, <1>7, <1>9, <1>10, Zenon DEF IInv

\* A client sends a unit.
LEMMA SendIInv ==
    ASSUME IInv, NEW f \in FD, Send(f)
    PROVE  IInv'
<1> DEFINE c == conn[f]
<1>1. f \in Live /\ c \in ConnRec /\ Sound(c) /\ ~c.want_close
  BY LiveConn, Zenon DEF IInv, Send, ConnsSound
<1>2. PICK u \in Units(c.sent) :
          conn' = [conn EXCEPT ![f].sent = Append(@, u), ![f].wire = Append(@, u)]
  BY Zenon DEF Send
<1> DEFINE d == [c EXCEPT !.sent = Append(c.sent, u), !.wire = Append(c.wire, u)]
<1>3. conn' = [conn EXCEPT ![f] = d]
  BY <1>2, Zenon DEF IInv, TypeInv
<1>4. /\ c.sent \in Seq(Int) /\ c.wire \in Seq(Int) /\ c.incoming \in Seq(Int)
      /\ Answers(c) \in Seq(Int)
  BY <1>1, AnswersIs, Zenon DEF ConnRec
<1>5. u \in Int
  <2> DEFINE t == c.sent
  <2>1. t \in Seq(Int) /\ Len(t) \in Nat /\ u \in Units(t)
    BY <1>2, <1>4, LenProperties, Zenon
  <2> HIDE DEF t
  <2>2. CASE Len(t) % 2 = 1
    <3>1. Len(t) \in 1 .. Len(t)
      BY <2>1, <2>2
    <3>2. t[Len(t)] \in Int
      BY <2>1, <3>1, ElementOfSeq, Zenon
    <3> QED
      BY <2>1, <2>2, <3>2, Zenon DEF Units
  <2>3. CASE Len(t) % 2 # 1
    <3>1. Len(t) \div 2 + 1 \in Int
      BY <2>1
    <3> QED
      BY <2>1, <2>3, <3>1 DEF Units, Long, Malformed
  <2> QED
    BY <2>2, <2>3, Zenon
<1>6. c.peer = "open"
  BY Zenon DEF Send
<1> HIDE DEF c
<1>7. Append(c.sent, u) \in Seq(Int) /\ Append(c.wire, u) \in Seq(Int)
  BY <1>4, <1>5
<1>8. d \in ConnRec
  BY <1>1, <1>7, Zenon DEF ConnRec
<1>9. /\ d.sent = Append(c.sent, u) /\ d.wire = Append(c.wire, u) /\ d.recv = c.recv
      /\ d.outgoing = c.outgoing /\ d.incoming = c.incoming /\ d.want_read = c.want_read
      /\ d.want_write = c.want_write /\ d.want_close = c.want_close /\ d.peer = c.peer
  BY <1>1, Zenon DEF ConnRec
<1> HIDE DEF d
<1>10. Answers(d) \o d.incoming \o d.wire = d.sent
  <2> DEFINE x == Answers(c) \o c.incoming
  <2>1. x \in Seq(Int) /\ x \o c.wire = c.sent
    BY <1>1, <1>4, ConcatProperties, Zenon DEF Sound
  <2> HIDE DEF x
  <2>2. x \o Append(c.wire, u) = Append(x \o c.wire, u)
    <3>1. /\ x \o c.wire \in Seq(Int) /\ <<u>> \in Seq(Int) /\ c.wire \in Seq(Int)
      BY <1>4, <1>5, <2>1, ConcatProperties
    <3>2. Append(c.wire, u) = c.wire \o <<u>>
      BY <1>4, <1>5, AppendIsConcat, Zenon
    <3>3. Append(x \o c.wire, u) = (x \o c.wire) \o <<u>>
      BY <1>5, <3>1, AppendIsConcat, Zenon
    <3>4. (x \o c.wire) \o <<u>> = x \o (c.wire \o <<u>>)
      BY <2>1, <3>1, Assoc, Zenon
    <3> QED
      BY <3>2, <3>3, <3>4, Zenon
  <2>3. Answers(d) = Answers(c)
    BY <1>9, Zenon DEF Answers
  <2> QED
    BY <1>9, <2>1, <2>2, <2>3, ZenonT(60) DEF x
<1>11. Sound(d)
  <2>1. Answers(d) = Answers(c)
    BY <1>9, Zenon DEF Answers
  <2> QED
    BY <1>1, <1>9, <1>10, <2>1, ZenonT(60) DEF Sound
<1>12. UNCHANGED <<pc, idle, age, revents>>
  BY Zenon DEF Send
<1> QED
  BY <1>1, <1>3, <1>6, <1>8, <1>9, <1>11, <1>12, ClientIInv, Zenon DEF c

\* A client ends its sending side, or is gone.
LEMMA LeaveIInv ==
    ASSUME IInv, NEW f \in FD, NEW how \in {"fin", "gone"}, Leave(f, how)
    PROVE  IInv'
<1> DEFINE c == conn[f]
           d == [c EXCEPT !.peer = how]
<1>1. f \in Live /\ c \in ConnRec /\ Sound(c) /\ ~c.want_close /\ c.peer # "gone"
  BY LiveConn, Zenon DEF IInv, Leave, ConnsSound
<1>2. conn' = [conn EXCEPT ![f] = d]
  BY Zenon DEF Leave, IInv, TypeInv
<1> HIDE DEF c
<1>3. d \in ConnRec
  BY <1>1, Zenon DEF ConnRec
<1>4. /\ d.sent = c.sent /\ d.wire = c.wire /\ d.recv = c.recv
      /\ d.outgoing = c.outgoing /\ d.incoming = c.incoming /\ d.want_read = c.want_read
      /\ d.want_write = c.want_write /\ d.want_close = c.want_close
  BY <1>1, Zenon DEF ConnRec
<1> HIDE DEF d
<1>5. Sound(d)
  BY <1>1, <1>4, Zenon DEF Sound, Answers
<1>6. UNCHANGED <<pc, idle, age, revents>>
  BY Zenon DEF Leave
<1> QED
  BY <1>1, <1>2, <1>3, <1>4, <1>5, <1>6, ClientIInv, ZenonT(60) DEF c

\* Time passes for every connection alike, up to the timeout.
LEMMA TickIInv ==
    ASSUME IInv, Tick
    PROVE  IInv'
<1>1. TypeInv /\ Ordered(idle, age) /\ Elems(idle) = Live
  BY IdleListIs, Zenon DEF IInv
<1>2. \A f \in Live : age'[f] = IF age[f] <= IdleTimeout THEN age[f] + 1 ELSE age[f]
  BY Zenon DEF Tick, Live
<1>3. age' \in [FD -> Nat]
  BY <1>1 DEF Tick, TypeInv
<1>4. TypeInv' /\ Live' = Live /\ Ready' = Ready
  BY <1>1, <1>3, Zenon DEF Tick, TypeInv, Live, Ready
<1>5. \A x, y \in Elems(idle) : age[x] >= age[y] => age'[x] >= age'[y]
  <2>1. \A x \in Elems(idle) : age[x] \in Nat
    BY <1>1, Zenon DEF TypeInv, Live
  <2> QED
    BY <1>1, <1>2, <2>1, LoopAssumption
<1>6. Ordered(idle, age')
  BY <1>1, <1>5, OrderedAges, Zenon DEF TypeInv
<1>7. IdleListExact'
  BY <1>1, <1>4, <1>6, ZenonT(60) DEF Tick, IdleListExact, Ordered, Elems
<1>8. ConnsSound' /\ ReportsTrue' /\ ReportedAlive' /\ Quiet'
  BY <1>4, Zenon DEF Tick, IInv, ConnsSound, ReportsTrue, ReportedAlive, Quiet
<1> QED
  BY <1>4, <1>7, <1>8, Zenon DEF IInv

\* The head of the loop: the next poll, or the end of all connections.
LEMMA TopIInv ==
    ASSUME IInv, Top
    PROVE  IInv'
<1>1. TypeInv /\ Ready = {}
  BY Zenon DEF IInv, Top, Quiet
<1>2. Ready' = {}
  BY <1>1, Zenon DEF Top, Ready
<1>3. \A f \in FD : revents'[f] = {}
  BY <1>2, Zenon DEF Ready
<1>4. ReportsTrue' /\ ReportedAlive' /\ Quiet'
  BY <1>2, <1>3, Zenon DEF ReportsTrue, ReportedAlive, Quiet
<1>5. CASE stopping
  <2>1. conn' = [f \in FD |-> Null] /\ idle' = <<>> /\ age' = [f \in FD |-> 0] /\ pc' = "closed"
    BY <1>5, Zenon DEF Top
  <2>2. TypeInv'
    BY <1>1, <2>1 DEF Top, TypeInv
  <2>3. Live' = {} /\ Len(idle') = 0
    BY <2>1, Zenon DEF Live
  <2>4. ConnsSound' /\ IdleListExact'
    BY <2>3 DEF ConnsSound, IdleListExact
  <2> QED
    BY <1>4, <2>2, <2>4, Zenon DEF IInv
<1>6. CASE ~stopping
  <2>1. pc' = "poll" /\ UNCHANGED <<conn, idle, age, revents>>
    BY <1>6, Zenon DEF Top
  <2>2. TypeInv' /\ ConnsSound' /\ IdleListExact'
    BY <2>1 DEF IInv, TypeInv, ConnsSound, IdleListExact, Live
  <2> QED
    BY <1>4, <2>2, Zenon DEF IInv
<1> QED
  BY <1>5, <1>6, Zenon

\* poll reports of connections only what is true of them.
LEMMA PollIInv ==
    ASSUME IInv, Poll
    PROVE  IInv'
<1>1. PICK W \in SUBSET Live : revents' = [f \in FD |-> Revents(f, W)]
  BY Zenon DEF Poll
<1>2. UNCHANGED <<conn, idle, age>> /\ pc' = "accept"
  BY Zenon DEF Poll
<1>3. ASSUME NEW f \in FD
      PROVE  /\ revents'[f] \in SUBSET {"in", "out", "err"}
             /\ f \notin Live => revents'[f] = {}
             /\ "in" \in revents'[f] => conn[f].want_read
             /\ "err" \in revents'[f] => conn[f].peer = "gone"
  <2>1. revents'[f] = Revents(f, W)
    BY <1>1, Zenon
  <2>2. CASE f \notin Live
    BY <2>1, <2>2, Zenon DEF Revents
  <2>3. CASE f \in Live
    <3>1. revents'[f] = {e \in {"in"} : conn[f].want_read /\ (conn[f].wire # <<>> \/ conn[f].peer # "open")}
                        \cup {e \in {"out"} : conn[f].want_write /\ f \in W}
                        \cup {e \in {"err"} : conn[f].peer = "gone"}
      BY <2>1, <2>3, Zenon DEF Revents
    <3>2. "in" # "out" /\ "in" # "err" /\ "out" # "err"
      BY Zenon
    <3> QED
      BY <2>3, <3>1, <3>2, Zenon
  <2> QED
    BY <2>2, <2>3, Zenon
<1>4. revents' \in [FD -> SUBSET {"in", "out", "err"}]
  BY <1>1, <1>3, Zenon
<1>5. TypeInv'
  BY <1>2, <1>4, Zenon DEF IInv, TypeInv
<1>6. Live' = Live /\ Ready' \subseteq Live
  BY <1>2, <1>3, Zenon DEF Live, Ready
<1>7. ConnsSound' /\ IdleListExact'
  BY <1>2, <1>6, ZenonT(60) DEF IInv, ConnsSound, IdleListExact
<1>8. ReportsTrue'
  BY <1>2, <1>3, Zenon DEF ReportsTrue
<1>9. ReportedAlive' /\ Quiet'
  BY <1>2, <1>6, Zenon DEF ReportedAlive, Quiet
<1> QED
  BY <1>5, <1>7, <1>8, <1>9, Zenon DEF IInv

\* An interrupted poll reports nothing.
LEMMA InterruptedIInv ==
    ASSUME IInv, Interrupted
    PROVE  IInv'
BY DEF Interrupted, IInv, TypeInv, ConnsSound, ReportsTrue, ReportedAlive, Quiet, IdleListExact,
       Live, Ready

\* A new connection enters at the end of the idle list; poll knew nothing of it.
LEMMA AcceptIInv ==
    ASSUME IInv, Accept
    PROVE  IInv'
<1>1. TypeInv /\ Ordered(idle, age) /\ Elems(idle) = Live /\ Ready \subseteq Live
  BY IdleListIs, Zenon DEF IInv, ReportedAlive
<1>2. pc' = "conns" /\ revents' = revents /\ Ready' = Ready
  BY Zenon DEF Accept, Ready
<1>3. CASE handle_accept
  <2>1. PICK f \in FD \ Live : /\ conn' = [conn EXCEPT ![f] = NewConn]
                               /\ age' = [age EXCEPT ![f] = 0]
                               /\ idle' = Append(idle, f)
    BY <1>3, Zenon DEF handle_accept
  <2>2. NewConn \in ConnRec
    <3>1. <<>> \in Seq(Int)
      BY EmptySeq, Zenon
    <3> QED
      BY <3>1, Zenon DEF NewConn, ConnRec
  <2>3. Sound(NewConn) /\ ~NewConn.want_close
    <3>1. /\ NewConn.recv = <<>> /\ NewConn.outgoing = <<>> /\ NewConn.incoming = <<>>
          /\ NewConn.wire = <<>> /\ NewConn.sent = <<>> /\ NewConn.want_read = TRUE
          /\ NewConn.want_write = FALSE /\ NewConn.want_close = FALSE
      BY Zenon DEF NewConn
    <3> DEFINE none == <<>>
    <3>2. none \in Seq(Int) /\ Len(none) = 0 /\ none \o none = none
      OBVIOUS
    <3> HIDE DEF none
    <3>3. Served(none) \in Nat /\ 2 * Served(none) <= Len(none)
      BY <3>2, ServedIs, Zenon
    <3>4. Served(none) = 0
      BY <3>2, <3>3
    <3> DEFINE c == NewConn
    <3>5. /\ c.recv = none /\ c.outgoing = none /\ c.incoming = none /\ c.wire = none
          /\ c.sent = none /\ c.want_read = TRUE /\ c.want_write = FALSE /\ c.want_close = FALSE
      BY <3>1, Zenon DEF none
    <3> HIDE DEF c
    <3>6. Answers(c) = none
      BY <3>2, <3>5, Zenon DEF Answers
    <3>7. Answers(c) \o c.incoming \o c.wire = c.sent
      BY <3>2, <3>5, <3>6, Zenon
    <3>8. c.want_write <=> c.outgoing # <<>>
      BY <3>5, Zenon DEF none
    <3>9. Len(Answers(c)) % 2 = 0 /\ \A k \in 1 .. Len(Answers(c)) : FALSE
      BY <3>2, <3>6
    <3>10. Sound(c)
      BY <3>4, <3>5, <3>7, <3>8, <3>9, Zenon DEF Sound
    <3> QED
      BY <3>5, <3>10, Zenon DEF c
  <2>4. NewConn # Null
    BY <2>2, NotNull, Zenon
  <2>5. \A g \in FD : conn'[g] = IF g = f THEN NewConn ELSE conn[g]
    BY <1>1, <2>1, Zenon DEF TypeInv
  <2>6. Live' = Live \cup {f}
    BY <2>1, <2>4, <2>5, Zenon DEF Live
  <2>7. /\ idle' \in Seq(FD) /\ Ordered(idle', age') /\ Elems(idle') = Live \cup {f}
    BY <1>1, <2>1, AppendOrdered, Zenon DEF TypeInv
  <2>8. TypeInv'
    BY <1>1, <1>2, <2>1, <2>2, <2>7, ZenonT(60) DEF TypeInv
  <2>9. ConnsSound'
    <3>1. \A g \in Live' : Sound(conn'[g]) /\ ~conn'[g].want_close
      BY <2>3, <2>5, <2>6, Zenon DEF IInv, ConnsSound, Live
    <3> QED
      BY <3>1, Zenon DEF ConnsSound
  <2>10. ReportsTrue'
    <3>1. revents[f] = {}
      BY <1>1, <2>1, Zenon DEF Ready
    <3> QED
      BY <1>2, <2>5, <3>1, Zenon DEF IInv, ReportsTrue
  <2>11. ReportedAlive' /\ Quiet'
    BY <1>1, <1>2, <2>6, Zenon DEF ReportedAlive, Quiet
  <2>12. IdleListExact'
    BY <2>6, <2>7, ZenonT(60) DEF IdleListExact, Ordered, Elems
  <2> QED
    BY <2>8, <2>9, <2>10, <2>11, <2>12, ZenonT(60) DEF IInv
<1>4. CASE UNCHANGED <<backlog, conn, idle, age>>
  BY <1>1, <1>2, <1>4 DEF IInv, TypeInv, ConnsSound, ReportsTrue, ReportedAlive, Quiet,
                          IdleListExact, Live
<1> QED
  BY <1>3, <1>4, Zenon DEF Accept

\* The connection whose turn it is, and what becomes of it.
LEMMA HandleFacts ==
    ASSUME IInv, Handle
    PROVE  LET f == Min(Ready)
           IN  /\ f \in Live /\ f \in FD /\ conn[f] \in ConnRec
               /\ \E d \in ConnRec :
                     /\ Sound(d)
                     /\ d.want_close => \/ conn[f].peer = "gone" \/ BadUnit(conn[f])
                                        \/ Len(conn[f].recv) = 2 * Served(conn[f].sent)
                     /\ revents' = [revents EXCEPT ![f] = {}]
                     /\ age' = [age EXCEPT ![f] = 0]
                     /\ IF d.want_close \/ "err" \in revents[f]
                        THEN conn' = [conn EXCEPT ![f] = Null] /\ idle' = Without(f)
                        ELSE conn' = [conn EXCEPT ![f] = d] /\ idle' = Append(Without(f), f)
<1> DEFINE f == Min(Ready)
<1>1. Ready \in SUBSET Nat /\ Ready # {}
  BY LoopAssumption DEF Handle, Ready, FD
<1>2. f \in Ready
  BY <1>1, LeastIs, Zenon
<1>3. PICK d \in Handled(conn[f], revents[f]) :
          /\ revents' = [revents EXCEPT ![f] = {}]
          /\ age' = [age EXCEPT ![f] = 0]
          /\ IF d.want_close \/ "err" \in revents[f]
             THEN conn' = [conn EXCEPT ![f] = Null] /\ idle' = Without(f)
             ELSE conn' = [conn EXCEPT ![f] = d] /\ idle' = Append(Without(f), f)
  BY Zenon DEF Handle
<1> HIDE DEF f
<1>4. f \in FD /\ f \in Live
  BY <1>2, Zenon DEF IInv, ReportedAlive, Ready
<1>5. /\ conn[f] \in ConnRec /\ Sound(conn[f]) /\ ~conn[f].want_close
      /\ "in" \in revents[f] => conn[f].want_read
  BY <1>4, LiveConn, Zenon DEF IInv, ConnsSound, ReportsTrue
<1>6. /\ d \in ConnRec /\ Sound(d)
      /\ d.want_close => \/ conn[f].peer = "gone" \/ BadUnit(conn[f])
                         \/ Len(conn[f].recv) = 2 * Served(conn[f].sent)
  BY <1>5, HandledSound, Zenon
<1> QED
  BY <1>3, <1>4, <1>5, <1>6, Zenon DEF f

\* One turn of the loop over poll_args.
LEMMA HandleIInv ==
    ASSUME IInv, Handle
    PROVE  IInv'
<1> DEFINE f == Min(Ready)
<1>1. f \in Live /\ f \in FD
  BY HandleFacts, Zenon
<1>2. PICK d \in ConnRec :
          /\ Sound(d)
          /\ revents' = [revents EXCEPT ![f] = {}]
          /\ age' = [age EXCEPT ![f] = 0]
          /\ IF d.want_close \/ "err" \in revents[f]
             THEN conn' = [conn EXCEPT ![f] = Null] /\ idle' = Without(f)
             ELSE conn' = [conn EXCEPT ![f] = d] /\ idle' = Append(Without(f), f)
  BY HandleFacts, Zenon
<1> HIDE DEF f
<1>3. pc' = pc /\ pc = "conns"
  BY Zenon DEF Handle
<1>4. TypeInv /\ Ordered(idle, age) /\ Elems(idle) = Live
  BY IdleListIs, Zenon DEF IInv
<1>5. \A g \in FD : revents'[g] = IF g = f THEN {} ELSE revents[g]
  BY <1>2, <1>4, Zenon DEF TypeInv
<1>6. /\ Without(f) \in Seq(FD) /\ Ordered(Without(f), age)
      /\ Elems(Without(f)) = Live \ {f}
  BY <1>1, <1>4, WithoutOrdered, Zenon DEF TypeInv
<1>7. /\ age' \in [FD -> Nat] /\ \A g \in FD : g # f => age'[g] = age[g]
      /\ revents' \in [FD -> SUBSET {"in", "out", "err"}]
  BY <1>2, <1>4, Zenon DEF TypeInv
<1>8. Ready' = Ready \ {f}
  BY <1>5, Zenon DEF Ready
<1>9. Quiet'
  BY <1>3, Zenon DEF Quiet
<1>10. CASE d.want_close \/ "err" \in revents[f]
  <2>1. conn' = [conn EXCEPT ![f] = Null] /\ idle' = Without(f)
    BY <1>2, <1>10, Zenon
  <2>2. \A g \in FD : conn'[g] = IF g = f THEN Null ELSE conn[g]
    BY <1>4, <2>1, Zenon DEF TypeInv
  <2>3. Live' = Live \ {f}
    BY <2>2, Zenon DEF Live
  <2>4. TypeInv'
    BY <1>3, <1>4, <1>6, <1>7, <2>1, Zenon DEF TypeInv
  <2>5. ConnsSound'
    <3>1. \A g \in Live' : Sound(conn'[g]) /\ ~conn'[g].want_close
      BY <2>2, <2>3, Zenon DEF IInv, ConnsSound, Live
    <3> QED
      BY <3>1, Zenon DEF ConnsSound
  <2>6. ReportsTrue' /\ ReportedAlive'
    BY <1>5, <1>8, <2>2, <2>3, Zenon DEF IInv, ReportsTrue, ReportedAlive
  <2>7. Ordered(idle', age')
    <3>1. \A x \in Elems(Without(f)) : age'[x] = age[x]
      BY <1>6, <1>7, Zenon DEF Live
    <3> QED
      BY <1>6, <2>1, <3>1, OrderedAges, Zenon
  <2>8. IdleListExact'
    BY <1>6, <2>1, <2>3, <2>7, ZenonT(60) DEF IdleListExact, Ordered, Elems
  <2> QED
    BY <1>9, <2>4, <2>5, <2>6, <2>8, Zenon DEF IInv
<1>11. CASE ~(d.want_close \/ "err" \in revents[f])
  <2>1. conn' = [conn EXCEPT ![f] = d] /\ idle' = Append(Without(f), f) /\ ~d.want_close
    BY <1>2, <1>11, Zenon
  <2>2. \A g \in FD : conn'[g] = IF g = f THEN d ELSE conn[g]
    BY <1>4, <2>1, Zenon DEF TypeInv
  <2>3. d # Null
    BY NotNull, Zenon
  <2>4. Live' = Live
    BY <1>1, <2>2, <2>3, Zenon DEF Live
  <2>5. /\ idle' \in Seq(FD) /\ Ordered(idle', age') /\ Elems(idle') = Live
    <3>1. f \notin Elems(Without(f)) /\ age \in [FD -> Nat]
      BY <1>4, <1>6, Zenon DEF TypeInv
    <3>2. /\ Append(Without(f), f) \in Seq(FD)
          /\ Ordered(Append(Without(f), f), [age EXCEPT ![f] = 0])
          /\ Elems(Append(Without(f), f)) = Elems(Without(f)) \cup {f}
      BY <1>1, <1>6, <3>1, AppendOrdered, Zenon
    <3> QED
      BY <1>1, <1>2, <1>6, <2>1, <3>2, ZenonT(60)
  <2>6. TypeInv'
    BY <1>3, <1>4, <1>7, <2>1, <2>5, ZenonT(60) DEF TypeInv
  <2>7. ConnsSound'
    <3>1. \A g \in Live' : Sound(conn'[g]) /\ ~conn'[g].want_close
      BY <1>2, <2>1, <2>2, <2>4, ZenonT(60) DEF IInv, ConnsSound, Live
    <3> QED
      BY <3>1, Zenon DEF ConnsSound
  <2>8. ReportsTrue' /\ ReportedAlive'
    BY <1>5, <1>8, <2>2, <2>4, Zenon DEF IInv, ReportsTrue, ReportedAlive
  <2>9. IdleListExact'
    BY <2>4, <2>5, Zenon DEF IdleListExact, Ordered, Elems
  <2> QED
    BY <1>9, <2>6, <2>7, <2>8, <2>9, Zenon DEF IInv
<1> QED
  BY <1>10, <1>11, Zenon

\* The end of a round: the expired connections are the front of the list.
LEMMA TimersIInv ==
    ASSUME IInv, process_timers
    PROVE  IInv'
<1> DEFINE n   == Expired
           old == {idle[j] : j \in 1 .. n}
<1>1. TypeInv /\ Ordered(idle, age) /\ Elems(idle) = Live
  BY IdleListIs, Zenon DEF IInv
<1>2. n \in 0 .. Len(idle)
  BY <1>1, ExpiredIs, Zenon DEF TypeInv
<1>3. /\ Ready = {} /\ pc' = "top" /\ revents' = revents
      /\ conn' = [f \in FD |-> IF f \in old THEN Null ELSE conn[f]]
      /\ idle' = SubSeq(idle, n + 1, Len(idle))
      /\ age' = [f \in FD |-> IF f \in old THEN 0 ELSE age[f]]
  BY Zenon DEF process_timers
<1> HIDE DEF n
<1>4. /\ idle' \in Seq(FD) /\ Ordered(idle', age) /\ Elems(idle') = Live \ old
  BY <1>1, <1>2, <1>3, SuffixOrdered, Zenon DEF TypeInv
<1> HIDE DEF old
<1>5. Live' = Live \ old
  BY <1>3, Zenon DEF Live
<1>6. TypeInv'
  BY <1>1, <1>3, <1>4, Zenon DEF TypeInv
<1>7. ConnsSound'
  <2>1. \A g \in Live' : Sound(conn'[g]) /\ ~conn'[g].want_close
    BY <1>3, <1>5, Zenon DEF IInv, ConnsSound, Live
  <2> QED
    BY <2>1, Zenon DEF ConnsSound
<1>8. Ready' = {} /\ \A f \in FD : revents'[f] = {}
  BY <1>3, Zenon DEF Ready
<1>9. ReportsTrue' /\ ReportedAlive' /\ Quiet'
  BY <1>8, Zenon DEF ReportsTrue, ReportedAlive, Quiet
<1>10. Ordered(idle', age')
  <2>1. \A x \in Elems(idle') : age'[x] = age[x]
    BY <1>3, <1>4, Zenon DEF Live
  <2> QED
    BY <1>4, <2>1, OrderedAges, Zenon
<1>11. IdleListExact'
  BY <1>4, <1>5, <1>10, Zenon DEF IdleListExact, Ordered, Elems
<1> QED
  BY <1>6, <1>7, <1>9, <1>11, Zenon DEF IInv

\* Every step of the loop, of a client and of the clock keeps the invariant.
LEMMA NextIInv ==
    ASSUME IInv, [Next]_vars
    PROVE  IInv'
<1>1. CASE Top
  BY <1>1, TopIInv, Zenon
<1>2. CASE Poll
  BY <1>2, PollIInv, ZenonT(60)
<1>3. CASE Accept
  BY <1>3, AcceptIInv, Zenon
<1>4. CASE Handle
  BY <1>4, HandleIInv, Zenon
<1>5. CASE process_timers
  BY <1>5, TimersIInv, Zenon
<1>6. CASE Interrupted
  BY <1>6, InterruptedIInv, Zenon
<1>7. CASE Connect \/ stop_server \/ Terminated \/ UNCHANGED vars
  BY <1>7, OtherIInv, ZenonT(60) DEF Connect, stop_server, Terminated, vars
<1>8. CASE Tick
  BY <1>8, TickIInv, Zenon
<1>9. CASE \E f \in FD : Send(f)
  BY <1>9, SendIInv, Zenon
<1>10. CASE \E f \in FD, how \in {"fin", "gone"} : Leave(f, how)
  BY <1>10, LeaveIInv, Zenon
<1> QED
  BY <1>1, <1>2, <1>3, <1>4, <1>5, <1>6, <1>7, <1>8, <1>9, <1>10, ZenonT(60) DEF Next, Round
-----------------------------------------------------------------------------
\* The invariant holds throughout.
THEOREM Invariance == Spec => []IInv
BY InitIInv, NextIInv, PTL DEF Spec

\* Whatever the number of connections and of frames, and however reads and writes
\* cut them up, every client gets its responses in order, none lost or doubled.
THEOREM PipelineHolds == Spec => []PipelineOrder
<1>1. IInv => PipelineOrder
  BY Zenon DEF IInv, ConnsSound, Sound, Answers, PipelineOrder
<1> QED
  BY <1>1, Invariance, PTL

\* At every poll each connection is polled for the one direction that matters, and
\* no whole request is left that nothing would make the loop look at.
THEOREM InterestHolds == Spec => []InterestExact
<1>1. IInv => InterestExact
  BY Zenon DEF IInv, ConnsSound, Sound, InterestExact
<1> QED
  BY <1>1, Invariance, PTL

\* The idle list holds every connection once, the longest idle first.
THEOREM IdleListHolds == Spec => []IdleListExact
<1>1. IInv => IdleListExact
  BY Zenon DEF IInv
<1> QED
  BY <1>1, Invariance, PTL

\* No connection that poll reported is destroyed before its turn.
THEOREM ReportedHolds == Spec => []ReportedAlive
<1>1. IInv => ReportedAlive
  BY Zenon DEF IInv
<1> QED
  BY <1>1, Invariance, PTL

\* A client that ended its sending side is closed only when it was answered in full.
THEOREM GracefulHolds == Spec => GracefulClose
<1> DEFINE A(f) == /\ pc = "conns" /\ Ready # {} /\ conn'[f] = Null
                   /\ conn[f].peer # "gone"
                   /\ \A j \in DOMAIN conn[f].sent : conn[f].sent[j] > 0
<1>1. ASSUME IInv, [Next]_vars, NEW f \in Live, A(f)
      PROVE  Len(conn[f].recv) = 2 * Served(conn[f].sent)
  <2>1. TypeInv /\ f \in FD /\ conn[f] \in ConnRec /\ conn[f] # Null
    BY <1>1, LiveConn, Zenon DEF IInv, Live
  <2>2. ~BadUnit(conn[f])
    <3>1. conn[f].sent \in Seq(Int)
      BY <2>1, Zenon DEF ConnRec
    <3>2. DOMAIN conn[f].sent = 1 .. Len(conn[f].sent)
      BY <3>1, LenProperties, Zenon
    <3> QED
      BY <1>1, <3>2, Zenon DEF BadUnit
  <2>3. CASE Handle
    <3> DEFINE g == Min(Ready)
    <3>1. g \in FD
      BY <1>1, <2>3, HandleFacts, Zenon
    <3>2. PICK d \in ConnRec :
              /\ d.want_close => \/ conn[g].peer = "gone" \/ BadUnit(conn[g])
                                 \/ Len(conn[g].recv) = 2 * Served(conn[g].sent)
              /\ IF d.want_close \/ "err" \in revents[g]
                 THEN conn' = [conn EXCEPT ![g] = Null]
                 ELSE conn' = [conn EXCEPT ![g] = d]
      BY <1>1, <2>3, HandleFacts, Zenon
    <3> HIDE DEF g
    <3>3. f = g
      BY <1>1, <2>1, <3>2, Zenon DEF TypeInv
    <3>4. d # Null
      BY NotNull, Zenon
    <3>5. d.want_close \/ "err" \in revents[g]
      BY <1>1, <2>1, <3>2, <3>3, <3>4, ZenonT(60) DEF TypeInv
    <3>6. "err" \notin revents[g]
      BY <1>1, <3>1, <3>3, Zenon DEF IInv, ReportsTrue
    <3> QED
      BY <1>1, <2>2, <3>2, <3>3, <3>5, <3>6, ZenonT(60)
  <2>4. CASE \E g \in FD : Send(g)
    <3>1. PICK g \in FD : Send(g)
      BY <2>4, Zenon
    <3>2. PICK u : conn' = [conn EXCEPT ![g].sent = Append(@, u), ![g].wire = Append(@, u)]
      BY <3>1, Zenon DEF Send
    <3>3. conn[g] \in ConnRec
      BY <2>1, <3>1, LiveConn, Zenon DEF Send
    <3>4. DOMAIN conn'[g] = DOMAIN conn[g]
      BY <2>1, <3>2, Zenon DEF TypeInv
    <3>5. "peer" \in DOMAIN conn[g] /\ DOMAIN Null = {}
      BY <3>3 DEF ConnRec, Null
    <3> QED
      BY <1>1, <2>1, <3>2, <3>4, <3>5, Zenon DEF TypeInv
  <2>5. CASE \E g \in FD, how \in {"fin", "gone"} : Leave(g, how)
    <3>1. PICK g \in FD, how \in {"fin", "gone"} : Leave(g, how)
      BY <2>5, Zenon
    <3>2. conn' = [conn EXCEPT ![g].peer = how] /\ conn[g] \in ConnRec
      BY <2>1, <3>1, LiveConn, Zenon DEF Leave
    <3>3. DOMAIN conn'[g] = DOMAIN conn[g]
      BY <2>1, <3>2, Zenon DEF TypeInv
    <3>4. "peer" \in DOMAIN conn[g] /\ DOMAIN Null = {}
      BY <3>2 DEF ConnRec, Null
    <3> QED
      BY <1>1, <2>1, <3>2, <3>3, <3>4, Zenon DEF TypeInv
  <2>6. CASE Connect \/ Tick \/ stop_server \/ Terminated \/ UNCHANGED vars
    BY <1>1, <2>1, <2>6, Zenon DEF Connect, Tick, stop_server, Terminated, vars
  <2>7. CASE Top \/ Poll \/ Accept \/ process_timers \/ Interrupted
    BY <1>1, <2>7, Zenon DEF Top, Poll, Accept, process_timers, Interrupted
  <2> QED
    BY <1>1, <2>3, <2>4, <2>5, <2>6, <2>7, ZenonT(60) DEF Next, Round
<1>2. ASSUME IInv, [Next]_vars
      PROVE  [\A f \in Live :
                 /\ pc = "conns" /\ Ready # {} /\ conn'[f] = Null
                 /\ conn[f].peer # "gone" /\ \A j \in DOMAIN conn[f].sent : conn[f].sent[j] > 0
                 => Len(conn[f].recv) = 2 * Served(conn[f].sent)]_vars
  BY <1>1, <1>2, Zenon
<1> QED
  BY <1>2, Invariance, PTL DEF Spec, GracefulClose
=============================================================================
