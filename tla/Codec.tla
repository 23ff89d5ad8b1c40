--------------------------------- MODULE Codec ----------------------------------
(***************************************************************************)
(* Framing: the encoders and decoders of ZMTP 1.0, ZMTP 2.0 and raw        *)
(* connections.  The unit of transmission stands for a byte, for the eight *)
(* bytes of a long size, or for the whole of a command; it has a number v  *)
(* and a content c.  A message has flags and a body of units.  An encoder  *)
(* holds what its buffer had no room for, a decoder what it has read of    *)
(* the message in progress and the step that comes next.                   *)
(***************************************************************************)
EXTENDS Integers, Sequences, FiniteSetsExt

CONSTANTS
    ByteMax,        \* the largest value of a byte
    in_batch,       \* units that a decoder's buffer holds
    out_batch       \* units that an encoder's buffer holds

ASSUME CodecAssumption == ByteMax \in Nat /\ ByteMax >= 2 /\ in_batch >= 1 /\ out_batch >= 1

NoCommand == [name |-> "none"]
Unit(v) == [v |-> v, c |-> NoCommand]
Content(c) == [v |-> 0, c |-> c]
Msg(more, command, body) == [more |-> more, command |-> command, body |-> body]
EmptyMsg == Msg(FALSE, FALSE, << >>)
Bit(b, weight) == IF b THEN weight ELSE 0
\* a size written into one byte
Byte(n) == n % (ByteMax + 1)

\* v1_encoder_t::message_ready and size_ready; the size counts the flags
v1_header(msg) ==
    LET size == Len(msg.body) + 1
    IN  IF size < ByteMax THEN <<Unit(Byte(size)), Unit(Bit(msg.more, 1))>>
        ELSE <<Unit(ByteMax), Unit(size), Unit(Bit(msg.more, 1))>>

\* v2_encoder_t::message_ready
\* Mutant: a size one above the largest is put into one byte.
v2_header_wraps(msg) ==
    LET size == Len(msg.body)
        large == size > ByteMax + 1
    IN  <<Unit(Bit(msg.more, 1) + Bit(large, 2) + Bit(msg.command, 4)),
          Unit(IF large THEN size ELSE Byte(size))>>
v2_header(msg) ==
    LET size == Len(msg.body)
        large == size > ByteMax
    IN  <<Unit(Bit(msg.more, 1) + Bit(large, 2) + Bit(msg.command, 4)),
          Unit(IF large THEN size ELSE Byte(size))>>

NewEncoder(kind) == [kind |-> kind, in_progress |-> FALSE, rest |-> << >>]

\* encoder_base_t::load_msg
load_msg(enc, msg) ==
    [enc EXCEPT !.in_progress = TRUE,
                !.rest = (CASE enc.kind = "v1" -> v1_header(msg)
                            [] enc.kind = "v2" -> v2_header(msg)
                            [] enc.kind = "raw" -> << >>) \o msg.body]

\* encoder_base_t::encode into a buffer of n units.  A rest that would fill the encoder's
\* own buffer is handed out as it is.  The message is released at the next call when the
\* buffer is full.
encode(enc, n, own) ==
    LET k == IF own /\ Len(enc.rest) >= n THEN Len(enc.rest) ELSE Min({n, Len(enc.rest)})
    IN  [units |-> SubSeq(enc.rest, 1, k),
         enc |-> [enc EXCEPT !.rest = SubSeq(@, k + 1, Len(@)), !.in_progress = @ /\ k >= n]]
-----------------------------------------------------------------------------
\* the first step of a decoder
First(kind) == IF kind = "v1" THEN "one_byte_size_ready" ELSE "flags_ready"
NewDecoder(kind, maxmsgsize) ==
    [kind |-> kind, next |-> First(kind), to_read |-> 1, msg |-> EmptyMsg,
     size |-> 0, maxmsgsize |-> maxmsgsize, rc |-> 0]

\* decoder_base_t::get_buffer: a large message is read directly
get_buffer(d) == IF d.to_read >= in_batch THEN d.to_read ELSE in_batch

TooLarge(d, size) == d.maxmsgsize >= 0 /\ size > d.maxmsgsize
next_step(d, step, n) == [d EXCEPT !.next = step, !.to_read = n]
\* message_ready: the message is complete, the next one begins
message_ready(d) == [next_step(d, First(d.kind), 1) EXCEPT !.rc = 1]
\* a message without a body is ready at once
Body(d, size) == IF size = 0 THEN message_ready(d) ELSE next_step(d, "message_ready", size)

\* v1_decoder_t::one_byte_size_ready, eight_byte_size_ready and flags_ready
v1_one_byte_size_ready(d, v) ==
    IF v = ByteMax THEN next_step(d, "eight_byte_size_ready", 1)
    ELSE IF v = 0 \/ TooLarge(d, v - 1) THEN [d EXCEPT !.rc = -1]
    ELSE [next_step(d, "flags_ready", 1) EXCEPT !.size = v - 1]
v1_eight_byte_size_ready(d, v) ==
    IF v = 0 \/ TooLarge(d, v - 1) THEN [d EXCEPT !.rc = -1]
    ELSE [next_step(d, "flags_ready", 1) EXCEPT !.size = v - 1]
v1_flags_ready(d, v) == Body([d EXCEPT !.msg = Msg(v % 2 = 1, FALSE, << >>)], d.size)

\* v2_decoder_t::flags_ready, one_byte_size_ready and eight_byte_size_ready
v2_flags_ready(d, v) ==
    [next_step(d, IF (v \div 2) % 2 = 1 THEN "eight_byte_size_ready" ELSE "one_byte_size_ready", 1)
       EXCEPT !.msg = Msg(v % 2 = 1, (v \div 4) % 2 = 1, << >>)]
v2_one_byte_size_ready(d, v) == IF TooLarge(d, v) THEN [d EXCEPT !.rc = -1] ELSE Body(d, v)
v2_eight_byte_size_ready(d, v) == IF TooLarge(d, v) THEN [d EXCEPT !.rc = -1] ELSE Body(d, v)

\* decoder_base_t::decode reads one unit
decode_unit(d, u) ==
    CASE d.next = "message_ready" ->
           LET a == [d EXCEPT !.msg.body = Append(@, u), !.to_read = @ - 1]
           IN  IF a.to_read = 0 THEN message_ready(a) ELSE a
      [] d.next = "one_byte_size_ready" ->
           IF d.kind = "v1" THEN v1_one_byte_size_ready(d, u.v) ELSE v2_one_byte_size_ready(d, u.v)
      [] d.next = "eight_byte_size_ready" ->
           IF d.kind = "v1" THEN v1_eight_byte_size_ready(d, u.v)
           ELSE v2_eight_byte_size_ready(d, u.v)
      [] d.next = "flags_ready" ->
           IF d.kind = "v1" THEN v1_flags_ready(d, u.v) ELSE v2_flags_ready(d, u.v)

\* raw_decoder_t::decode: what was read is a message
raw_decode(d, units) ==
    [dec |-> [d EXCEPT !.msg = Msg(FALSE, FALSE, units), !.rc = 1], used |-> Len(units)]

\* decode up to the end of a message: rc is 1 with a message, 0 without, -1 after an error
decode(d, units) ==
    LET step[i \in 0..Len(units)] ==
          IF i = 0 THEN [dec |-> [d EXCEPT !.rc = 0], used |-> 0]
          ELSE IF step[i - 1].dec.rc # 0 THEN step[i - 1]
          ELSE [dec |-> decode_unit(step[i - 1].dec, units[i]), used |-> i]
    IN  IF d.kind = "raw" THEN raw_decode(d, units) ELSE step[Len(units)]
=============================================================================
