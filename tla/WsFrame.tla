------------------------------ MODULE WsFrame ------------------------------
(***************************************************************************)
(* The header of a WebSocket frame: how frame_make_header writes it and    *)
(* how messagelink_read_frame and messagelink_read_message read it         *)
(* (librcom/src/messagelink.c).  A byte is a number of 0..255.  The mask   *)
(* itself and the payload come after what is modelled here.                *)
(***************************************************************************)
EXTENDS Integers, Sequences

Opcodes == 0..15
Flags == 0..1

(* The length above which the reader refuses a message.                    *)
MaxLength == 16777216

(* The byte of weight 256^i of a length: htons and htonll put them in      *)
(* network order.                                                          *)
Byte0(length) == length % 256
Byte1(length) == (length \div 256) % 256
Byte2(length) == ((length \div 256) \div 256) % 256
Byte3(length) == (((length \div 256) \div 256) \div 256) % 256

(* fin and opcode, mask and seven-bit length, and the longer forms of the  *)
(* length.  The lengths of membufs are below 2^31, so that the upper bytes *)
(* of a length of eight bytes are zero.                                    *)
frame_make_header(opcode, masked, length) ==
    IF length < 126 THEN
        <<128 + opcode, 128 * masked + length>>
    ELSE IF length <= 65536 THEN
        <<128 + opcode, 128 * masked + 126, Byte1(length), Byte0(length)>>
    ELSE
        <<128 + opcode, 128 * masked + 127, 0, 0, 0, 0,
          Byte3(length), Byte2(length), Byte1(length), Byte0(length)>>

messagelink_read_frame(b) ==
    [fin |-> b[1] \div 128, opcode |-> b[1] % 16,
     mask |-> b[2] \div 128, length |-> b[2] % 128]

(* The length that the reader takes from the header, the bytes that        *)
(* announce one beyond 2^31 left aside.                                    *)
HeaderLength(b) ==
    LET short == messagelink_read_frame(b).length IN
    IF short < 126 THEN short
    ELSE IF short = 126 THEN b[3] * 256 + b[4]
    ELSE ((b[7] * 256 + b[8]) * 256 + b[9]) * 256 + b[10]

(* The result of messagelink_read_message: the frame, or -2 for one that   *)
(* is too big.                                                             *)
messagelink_read_message(b) ==
    IF HeaderLength(b) > MaxLength THEN -2
    ELSE [messagelink_read_frame(b) EXCEPT !.length = HeaderLength(b)]

-----------------------------------------------------------------------------
(* The number of payload bytes, the opcode and the mask flag that the      *)
(* sender has put in the header are what the reader takes out of it.       *)
ReadsBack(opcode, masked, length) ==
    messagelink_read_message(frame_make_header(opcode, masked, length))
        = [fin |-> 1, opcode |-> opcode, mask |-> masked, length |-> length]
=============================================================================
