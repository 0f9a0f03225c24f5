----------------------------- MODULE MCProtocol -----------------------------
(* Requests and responses with two-byte lengths of eight values a byte.  The *)
(* frames are all those of zeros and ones, and those that begin with a count *)
(* of two, the limit, or three and go on in zeros and ones.                  *)
EXTENDS Response

MCBits(n) == UNION {[1 .. m -> {0, 1}] : m \in 0 .. n}
MCFrames  == MCBits(13) \cup {u32(count) \o rest : count \in {2, 3}, rest \in MCBits(11)}
MCNum     == {-1, 9}
=============================================================================
