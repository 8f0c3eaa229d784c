--------------------------- MODULE MCMessageCodec ---------------------------
EXTENDS MessageCodec

(* The opcodes of message.h and message-private.h and those of their       *)
(* replies, one more; the numbers at the edges of their types.             *)
MCOpcodes == {10, 11, 30, 40, 71, 90, 91, 99}
MCTableNums == {-1, 0, 255, 256, 32767}
MCResults == {-2147483647 - 1, -256, -1, 0, 1, 65535, 2147483647}
MCStrings ==
    {<<>>, <<97>>, <<195, 169>>, <<1, 255, 128>>, <<127, 32, 126, 90>>,
     <<127, 126, 1, 2, 125>>}
MCDatas == {<<0>>, <<255, 0>>, <<1, 2, 128>>}
=============================================================================
