------------------------------ MODULE Protocol ------------------------------
(***************************************************************************)
(* Requests on the wire, from protocol.cpp: encode_request writes a        *)
(* command, parse_req reads one.  The proxy parses what a client sent and  *)
(* encodes it again for the shard, which parses it once more.  A buffer is *)
(* a sequence of bytes.  A uint32_t takes W bytes of B values each, least  *)
(* significant first (4 and 256 in the program); an int64_t or a double is *)
(* twice as wide.  The parser's loop is run one argument at a time on any  *)
(* bytes whatever.                                                         *)
(***************************************************************************)
EXTENDS Integers, Sequences

CONSTANTS W, B,
          MaxMsg,       \* k_max_msg
          MaxArgs,      \* k_max_args
          Frames,       \* the frames that arrive
          ArgByte       \* the bytes of a client's arguments

ASSUME WidthAssumption == W \in Nat \ {0} /\ B \in Nat \ {0, 1}
ASSUME LimitAssumption == MaxMsg \in Nat /\ MaxArgs \in Nat /\ W <= MaxMsg
ASSUME FrameAssumption == Frames \subseteq Seq(0 .. B - 1) /\ ArgByte \subseteq 0 .. B - 1

VARIABLES frame,    \* the request after its length header: data .. end
          pc,       \* where parse_req is: start, args, done or reject
          cur,      \* how far data has moved
          nstr, out
vars == <<frame, pc, cur, nstr, out>>

\* The bytes at offset a, for n; past the end whatever memory holds.
Slice(a, n) == [i \in 1 .. n |-> IF a + i <= Len(frame) THEN frame[a + i] ELSE 0]

Power[i \in 0 .. 2 * W] == IF i = 0 THEN 1 ELSE B * Power[i - 1]

\* The w bytes of an unsigned integer, and the integer w bytes stand for.
Bytes(n, w)   == [i \in 1 .. w |-> (n \div Power[i - 1]) % B]
Number(bs, w) ==
    LET low[i \in 0 .. w] == IF i = 0 THEN 0 ELSE low[i - 1] + bs[i] * Power[i - 1]
    IN  low[w]

u32(n)  == Bytes(n, W)
U32(bs) == Number(bs, W)

\* k_max_msg and k_max_args fit a uint32_t, so no length or count wraps.
ASSUME RangeAssumption == MaxMsg < Power[W] /\ MaxArgs < Power[W]

Init ==
    /\ frame \in Frames
    /\ pc = "start"
    /\ cur = 0
    /\ nstr = 0
    /\ out = <<>>

Left == Len(frame) - cur

Reject == pc' = "reject" /\ UNCHANGED <<cur, nstr, out>>

\* The checks of the size and of the number of arguments.
parse_req ==
    LET n == U32(Slice(0, W))
    IN  /\ pc = "start"
        /\ \/ (Len(frame) < W \/ Len(frame) > MaxMsg \/ n > MaxArgs) /\ Reject
           \/ /\ Len(frame) >= W /\ Len(frame) <= MaxMsg /\ n <= MaxArgs
              /\ nstr' = n
              /\ cur' = W
              /\ pc' = "args"
              /\ UNCHANGED out
        /\ UNCHANGED frame

\* Mutant: compares the length with the whole frame.
Argument_Whole ==
    LET n == U32(Slice(cur, W))
    IN  /\ pc = "args" /\ Len(out) < nstr
        /\ \/ (Left < W \/ n > Len(frame)) /\ Reject
           \/ /\ Left >= W /\ n <= Len(frame)
              /\ out' = Append(out, Slice(cur + W, n))
              /\ cur' = cur + W + n
              /\ UNCHANGED <<pc, nstr>>
        /\ UNCHANGED frame

\* One turn of the loop: read_u32, then read_str.  The callers leave the
\* arguments of a rejected request alone, so they stay as they are.
Argument ==
    LET n == U32(Slice(cur, W))
    IN  /\ pc = "args" /\ Len(out) < nstr
        /\ \/ (Left < W \/ n > Left - W) /\ Reject
           \/ /\ Left >= W /\ n <= Left - W
              /\ out' = Append(out, Slice(cur + W, n))
              /\ cur' = cur + W + n
              /\ UNCHANGED <<pc, nstr>>
        /\ UNCHANGED frame

\* Mutant: takes a request for whole although bytes follow it.
Finish_Trailing ==
    /\ pc = "args" /\ Len(out) = nstr
    /\ pc' = "done"
    /\ UNCHANGED <<frame, cur, nstr, out>>

\* data == end: nothing may follow the last argument.
Finish ==
    /\ pc = "args" /\ Len(out) = nstr
    /\ pc' = IF Left = 0 THEN "done" ELSE "reject"
    /\ UNCHANGED <<frame, cur, nstr, out>>

Next == parse_req \/ Argument \/ Finish

Spec == Init /\ [][Next]_vars
-----------------------------------------------------------------------------
\* The size encode_request computes, -1 once an argument does not fit.
AddSize(len, s) ==
    IF len < 0 \/ len > MaxMsg - W \/ Len(s) > MaxMsg - len - W THEN -1 ELSE len + W + Len(s)

RequestSize(cmd) ==
    LET len[i \in 0 .. Len(cmd)] == IF i = 0 THEN W ELSE AddSize(len[i - 1], cmd[i])
    IN  len[Len(cmd)]

\* Each argument after its length.
Arguments(cmd) ==
    LET buf[i \in 0 .. Len(cmd)] ==
            IF i = 0 THEN <<>> ELSE buf[i - 1] \o u32(Len(cmd[i])) \o cmd[i]
    IN  buf[Len(cmd)]

Refused == <<>>

\* The length, the number of arguments, then the arguments.
encode_request(cmd) ==
    LET len == RequestSize(cmd)
    IN  IF Len(cmd) > MaxArgs \/ len < 0 THEN Refused
        ELSE u32(len) \o u32(Len(cmd)) \o Arguments(cmd)

Framed == u32(Len(frame)) \o frame

Strings  == UNION {[1 .. n -> ArgByte] : n \in 0 .. MaxMsg - 2 * W}
Commands == UNION {[1 .. n -> Strings] : n \in 0 .. MaxArgs}
Encodings == {encode_request(c) : c \in Commands} \ {Refused}

\* No read of parse_req leaves the frame, whatever counts and lengths it holds.
ReadsInBounds == cur <= Len(frame)

\* parse_req accepts exactly what encode_request writes: a request it accepts
\* is encoded again as the very same frame, so the proxy forwards what the
\* client sent and never refuses it, and it rejects no command within the limits.
ParsesExactly ==
    /\ pc = "done" => encode_request(out) = Framed
    /\ pc = "reject" => Framed \notin Encodings
=============================================================================
