----------------------------- MODULE SortedSet -----------------------------
(***************************************************************************)
(* What a ZSet (zset.hpp) promises the store: a finite map from member     *)
(* names to scores, read in the order of zless, by score and then by name. *)
(* A set is a function from the present names to their scores.  Names are  *)
(* naturals in memcmp order (0 is the empty string, below every name), so  *)
(* the tree and the hash table behind a ZSet are abstracted away here.     *)
(***************************************************************************)
EXTENDS Integers, FiniteSets

EmptyZSet == [m \in {} |-> 0]

\* zless: by score, ties by name.
zless(p, q) == p[1] < q[1] \/ (p[1] = q[1] /\ p[2] < q[2])

Pairs(z) == {<<z[m], m>> : m \in DOMAIN z}

Rank(z, p) == Cardinality({q \in Pairs(z) : zless(q, p)})

zset_insert(z, m, s) == [x \in DOMAIN z \cup {m} |-> IF x = m THEN s ELSE z[x]]

zset_delete(z, m) == [x \in DOMAIN z \ {m} |-> z[x]]

(***************************************************************************)
(* do_zquery's walk: seek the first pair not below p, move by offset (off  *)
(* either end of the set there is no node), then emit pairs while fewer    *)
(* than limit elements were written, two at a time.                        *)
(***************************************************************************)
zquery(z, p, offset, limit) ==
    LET n     == Cardinality(DOMAIN z)
        first == Rank(z, p) + offset
        found == Rank(z, p) < n /\ first \in 0 .. n - 1
        room  == IF limit <= 0 THEN 0 ELSE (limit + 1) \div 2
        count == IF ~found THEN 0 ELSE IF room < n - first THEN room ELSE n - first
    IN  [i \in 1 .. count |-> CHOOSE q \in Pairs(z) : Rank(z, q) = first + i - 1]
=============================================================================
