------------------------------ MODULE Response ------------------------------
(***************************************************************************)
(* Responses on the wire: the out_ functions of protocol.cpp write a value *)
(* at the end of a connection's output, which may hold earlier responses;  *)
(* response_begin and response_end put the length before it; the proxy     *)
(* takes a shard's response apart and forwards or merges it; the client    *)
(* reads a frame (tcp_rpc_raw) and prints the value (print_response).      *)
(* A value is [tag, n, s, items]: the number or the error code, the text   *)
(* (for a double its bytes) and the members of an array.                   *)
(***************************************************************************)
EXTENDS Protocol

CONSTANTS MaxDepth,     \* how deep print_response goes: 64
          Num,          \* integers that occur in a reply
          MaxReplies    \* bound on the responses on a connection

VARIABLES outgoing,     \* conn->outgoing
          replies       \* the values the requests should be answered with

\* The data types and error codes of list.h.
TAG_NIL == 0
TAG_ERR == 1
TAG_STR == 2
TAG_INT == 3
TAG_DBL == 4
TAG_ARR == 5
ERR_UNKNOWN == 1
ERR_TOO_BIG == 2

Value(t, n, s, items) == [tag |-> t, n |-> n, s |-> s, items |-> items]
Nil       == Value(TAG_NIL, 0, <<>>, <<>>)
Str(s)    == Value(TAG_STR, 0, s, <<>>)
Num64(n)  == Value(TAG_INT, n, <<>>, <<>>)
Dbl(bits) == Value(TAG_DBL, 0, bits, <<>>)
Err(c, s) == Value(TAG_ERR, c, s, <<>>)
Arr(vs)   == Value(TAG_ARR, 0, <<>>, vs)

\* The wording of an error is one byte.
TooBig      == Err(ERR_TOO_BIG, <<2>>)
MergeFailed == Err(ERR_UNKNOWN, <<1>>)

ASSUME DepthAssumption == MaxDepth \in Nat \ {0}
ASSUME TagAssumption   == TAG_ARR < B
ASSUME ErrorAssumption == 2 + 2 * W <= MaxMsg     \* room for an error
ASSUME NumAssumption   == LET P == Power[2 * W] IN Num \subseteq (P \div 2) - P .. (P \div 2) - 1

\* An int64_t in two's complement.
i64(n)  == Bytes(n % Power[2 * W], 2 * W)
I64(bs) == LET u == Number(bs, 2 * W)
           IN  IF u >= Power[2 * W] \div 2 THEN u - Power[2 * W] ELSE u
-----------------------------------------------------------------------------
out_nil(buf)       == Append(buf, TAG_NIL)
out_str(buf, s)    == Append(buf, TAG_STR) \o u32(Len(s)) \o s
out_int(buf, n)    == Append(buf, TAG_INT) \o i64(n)
out_dbl(buf, bits) == Append(buf, TAG_DBL) \o bits
out_err(buf, c, s) == Append(buf, TAG_ERR) \o u32(c) \o u32(Len(s)) \o s
out_arr(buf, n)    == Append(buf, TAG_ARR) \o u32(n)

\* memcpy of a u32 over the W bytes after the first ctx.
Patch(buf, ctx, n) ==
    [i \in DOMAIN buf |-> IF i \in ctx + 1 .. ctx + W THEN u32(n)[i - ctx] ELSE buf[i]]

out_begin_arr(buf) == Append(buf, TAG_ARR) \o u32(0)

out_end_arr(buf, ctx, n) == Patch(buf, ctx, n)

response_begin(buf) == buf \o u32(0)

\* Mutant: cuts the whole output back, not just the response that is too big.
response_end_Whole(buf, header) ==
    LET big  == Len(buf) - header - W > MaxMsg
        kept == IF big THEN out_err(SubSeq(buf, 1, W), TooBig.n, TooBig.s) ELSE buf
        at   == IF big THEN 0 ELSE header
    IN  Patch(kept, at, Len(kept) - at - W)

response_end(buf, header) ==
    LET big  == Len(buf) - header - W > MaxMsg
        kept == IF big THEN out_err(SubSeq(buf, 1, header + W), TooBig.n, TooBig.s) ELSE buf
    IN  Patch(kept, header, Len(kept) - header - W)

\* What a command's handler appends for a value that is not an array.
Put(buf, v) ==
    CASE v.tag = TAG_NIL -> out_nil(buf)
      [] v.tag = TAG_ERR -> out_err(buf, v.n, v.s)
      [] v.tag = TAG_STR -> out_str(buf, v.s)
      [] v.tag = TAG_INT -> out_int(buf, v.n)
      [] v.tag = TAG_DBL -> out_dbl(buf, v.s)

PutAll(buf, items) ==
    LET b[i \in 0 .. Len(items)] == IF i = 0 THEN buf ELSE Put(b[i - 1], items[i])
    IN  b[Len(items)]

\* do_keys knows the length of its array, do_zquery fills it in at the end.
do_keys(buf, items)   == PutAll(out_arr(buf, Len(items)), items)
do_zquery(buf, items) ==
    LET open == out_begin_arr(buf)
    IN  out_end_arr(PutAll(open, items), Len(open) - W, Len(items))

IsKeys(v) == v.tag = TAG_ARR /\ \A i \in DOMAIN v.items : v.items[i].tag = TAG_STR

Write(buf, v) ==
    CASE v.tag # TAG_ARR -> Put(buf, v)
      [] v.tag = TAG_ARR /\ IsKeys(v) -> do_keys(buf, v.items)
      [] v.tag = TAG_ARR /\ ~IsKeys(v) -> do_zquery(buf, v.items)
-----------------------------------------------------------------------------
At(buf, off, n) == SubSeq(buf, off + 1, off + n)

Failed == [n |-> -1, v |-> Nil]

\* print_response on the bytes from data on: the value it prints and how many
\* bytes that takes up.  inner is print_response one level deeper.
Printing(inner) == [data \in Seq(Int) |->
    LET size == Len(data)
        u(i) == U32(At(data, 1 + i * W, W))
        loop[k \in 0 .. u(0)] ==
            IF k = 0 THEN [n |-> 1 + W, v |-> Arr(<<>>)]
            ELSE LET done == loop[k - 1]
                     r    == inner[At(data, done.n, size - done.n)]
                 IN  IF done.n < 0 \/ r.n < 0 THEN Failed
                     ELSE [n |-> done.n + r.n, v |-> Arr(Append(done.v.items, r.v))]
    IN  CASE size < 1 -> Failed
          [] size >= 1 /\ data[1] = TAG_NIL -> [n |-> 1, v |-> Nil]
          [] size >= 1 + 2 * W /\ data[1] = TAG_ERR /\ u(1) <= size - 1 - 2 * W ->
                 [n |-> 1 + 2 * W + u(1), v |-> Err(u(0), At(data, 1 + 2 * W, u(1)))]
          [] size >= 1 + W /\ data[1] = TAG_STR /\ u(0) <= size - 1 - W ->
                 [n |-> 1 + W + u(0), v |-> Str(At(data, 1 + W, u(0)))]
          [] size >= 1 + 2 * W /\ data[1] = TAG_INT ->
                 [n |-> 1 + 2 * W, v |-> Num64(I64(At(data, 1, 2 * W)))]
          [] size >= 1 + 2 * W /\ data[1] = TAG_DBL ->
                 [n |-> 1 + 2 * W, v |-> Dbl(At(data, 1, 2 * W))]
          [] size >= 1 + W /\ data[1] = TAG_ARR -> loop[u(0)]
          [] OTHER -> Failed]

\* print_response where levels more levels may be entered: MaxDepth + 1 at first.
Printer[levels \in 0 .. MaxDepth + 1] ==
    IF levels = 0 THEN [data \in Seq(Int) |-> Failed] ELSE Printing(Printer[levels - 1])

print_response(data, depth) == Printer[MaxDepth + 1 - depth][data]
-----------------------------------------------------------------------------
NoBody == <<-1>>

\* What tcp_rpc_raw returns, the first frame, if its length is allowed.
tcp_rpc_raw(buf) ==
    LET len == U32(At(buf, 0, W))
    IN  IF Len(buf) < W \/ len > MaxMsg \/ Len(buf) < W + len THEN NoBody ELSE At(buf, 0, W + len)

extract_response_body(framed) ==
    IF Len(framed) < W \/ U32(At(framed, 0, W)) # Len(framed) - W THEN NoBody
    ELSE At(framed, W, Len(framed) - W)

NoKeys == <<NoBody>>

\* The keys of a body: off is where the next one starts, -1 if that is no key.
KeysIn(body) ==
    LET bad == [off |-> -1, keys |-> <<>>]
        n   == U32(At(body, 1, W))
        loop[k \in 0 .. n] ==
            IF k = 0 THEN [off |-> 1 + W, keys |-> <<>>]
            ELSE LET done == loop[k - 1]
                     at   == done.off + 1 + W
                     slen == U32(At(body, done.off + 1, W))
                 IN  IF done.off < 0 \/ Len(body) < at \/ body[done.off + 1] # TAG_STR THEN bad
                     ELSE IF at + slen > Len(body) THEN bad
                     ELSE [off |-> at + slen, keys |-> Append(done.keys, At(body, at, slen))]
    IN  IF Len(body) < 1 + W \/ body[1] # TAG_ARR \/ loop[n].off # Len(body) THEN NoKeys
        ELSE loop[n].keys

\* Appends the merged array or, when a body is not an array of keys, the error.
merge_key_arrays(bodies, buf) ==
    LET all[i \in 0 .. Len(bodies)] == IF i = 0 THEN <<>> ELSE all[i - 1] \o KeysIn(bodies[i])
        keys == all[Len(bodies)]
    IN  IF \E i \in DOMAIN bodies : KeysIn(bodies[i]) = NoKeys
        THEN out_err(buf, MergeFailed.n, MergeFailed.s)
        ELSE PutAll(out_arr(buf, Len(keys)), [i \in DOMAIN keys |-> Str(keys[i])])
-----------------------------------------------------------------------------
allvars == <<vars, outgoing, replies>>

\* The bytes a value takes, and the value a client is to get for it.
ScalarSize(v) ==
    CASE v.tag = TAG_NIL -> 1
      [] v.tag = TAG_STR -> 1 + W + Len(v.s)
      [] v.tag \in {TAG_INT, TAG_DBL} -> 1 + 2 * W
      [] v.tag = TAG_ERR -> 1 + 2 * W + Len(v.s)
Size(v) ==
    IF v.tag # TAG_ARR THEN ScalarSize(v)
    ELSE LET n[i \in 0 .. Len(v.items)] ==
                 IF i = 0 THEN 1 + W ELSE n[i - 1] + ScalarSize(v.items[i])
         IN  n[Len(v.items)]
Shown(v) == IF Size(v) > MaxMsg THEN TooBig ELSE v

Merged(v, w) == IF IsKeys(v) /\ IsKeys(w) THEN Arr(v.items \o w.items) ELSE MergeFailed

\* Values a handler answers the request with, made of its arguments.
Score  == [i \in 1 .. 2 * W |-> i % B]
Pairs  == [j \in 1 .. 2 * Len(out) |->
              IF j % 2 = 1 THEN Str(out[(j + 1) \div 2]) ELSE Dbl(Score)]
Values == {Nil, Dbl(Score), Err(ERR_UNKNOWN, <<>>), Arr(Pairs), Arr([i \in DOMAIN out |-> Str(out[i])])}
          \cup {Num64(n) : n \in Num} \cup {Str(out[i]) : i \in DOMAIN out}

\* A handler has written the output, from response_begin on, to answer v.
Answer(v, written) ==
    /\ pc = "done"
    /\ Len(replies) < MaxReplies
    /\ outgoing' = response_end(written, Len(outgoing))
    /\ replies' = Append(replies, Shown(v))
    /\ UNCHANGED vars

\* A shard answers, or the proxy for itself.
Reply(v) == Answer(v, Write(response_begin(outgoing), v))

\* What the proxy has of a shard that answered v.
Body(v) == extract_response_body(tcp_rpc_raw(response_end(Write(response_begin(<<>>), v), 0)))

\* The proxy passes a shard's answer on.
Forward(v) == Answer(v, response_begin(outgoing) \o Body(v))

\* The proxy merges the answers of two shards to keys.
Gather(v, w) ==
    Answer(Merged(Shown(v), Shown(w)),
           merge_key_arrays(<<Body(v), Body(w)>>, response_begin(outgoing)))

ResponseInit == Init /\ outgoing = <<>> /\ replies = <<>>

ResponseNext ==
    \/ Next /\ UNCHANGED <<outgoing, replies>>
    \/ \E v \in Values : Reply(v) \/ Forward(v)
    \/ \E v, w \in Values : Gather(v, w)

ResponseSpec == ResponseInit /\ [][ResponseNext]_allvars
-----------------------------------------------------------------------------
\* However responses are pipelined, replaced because they are too big, passed
\* on or merged by the proxy, the client reads one frame for each request, in
\* order, print_response shows the value the handler answered (the merged
\* keys, or the error), and it takes up the body to the last byte.
ResponsesExact ==
    LET unread[i \in 0 .. Len(replies)] ==
            IF i = 0 THEN outgoing
            ELSE LET buf == unread[i - 1]
                     len == Len(tcp_rpc_raw(buf))
                 IN  At(buf, len, Len(buf) - len)
        body(i) == extract_response_body(tcp_rpc_raw(unread[i - 1]))
    IN  /\ \A i \in DOMAIN replies :
               /\ tcp_rpc_raw(unread[i - 1]) # NoBody
               /\ print_response(body(i), 0) = [n |-> Len(body(i)), v |-> replies[i]]
        /\ unread[Len(replies)] = <<>>
=============================================================================
