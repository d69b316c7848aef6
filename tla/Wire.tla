-------------------------------- MODULE Wire --------------------------------
(***************************************************************************)
(* The sizes in a maboo-wire frame header: internal/protocol/wire.go writes *)
(* and php-sdk/src/Protocol/Wire.php reads them, and the other way round;   *)
(* both sides compute the same.  ProcessPool treats a frame as one item in  *)
(* a pipe; that is sound as long as the reader of a frame stops where its   *)
(* writer did, which is what this module is about.                          *)
(*                                                                          *)
(* A frame is the sizes of its headers and of its payload, and a size field *)
(* the sequence of its bytes, most significant first.                       *)
(***************************************************************************)
EXTENDS Integers, Sequences

\* Magic, version, type, flags, stream id and the two sizes.
FrameHeaderSize == 14

\* byte(n): the low eight bits.
Byte(n) == n % 256

\* WriteFrame: buf[7], buf[8], buf[9] from hdrSize.
PutUint24(n) == <<Byte(n \div 65536), Byte(n \div 256), Byte(n)>>

\* WriteFrame: binary.BigEndian.PutUint32 of the payload's size.
PutUint32(n) ==
    <<Byte(n \div 16777216), Byte(n \div 65536), Byte(n \div 256), Byte(n)>>

\* readFrame: the size of the headers.
Uint24(b) == 65536 * b[1] + 256 * b[2] + b[3]

\* readFrame: the size of the payload, unpack('N', ..).
Uint32(b) == 16777216 * b[1] + 65536 * b[2] + 256 * b[3] + b[4]

\* How many bytes WriteFrame puts into the pipe.
Written(headers, payload) == FrameHeaderSize + headers + payload

\* How many of them the reader takes as this frame.
Consumed(headers, payload) ==
    FrameHeaderSize + Uint24(PutUint24(headers)) + Uint32(PutUint32(payload))

-----------------------------------------------------------------------------
\* The field is wide enough for the size.
Fits24(n) == n \div 65536 < 256
Fits32(n) == n \div 16777216 < 256

\* The reader cuts a frame exactly as the writer composed it if and only if both
\* sizes fit their fields; a larger one is never read past its end, but its rest
\* stays in the pipe, where it is taken for the next frame.
CutAsComposed(headers, payload) ==
    /\ Uint24(PutUint24(headers)) = headers <=> Fits24(headers)
    /\ Uint32(PutUint32(payload)) = payload <=> Fits32(payload)
    /\ Consumed(headers, payload) <= Written(headers, payload)
    /\ Consumed(headers, payload) = Written(headers, payload) <=>
          Fits24(headers) /\ Fits32(payload)

\* The sizes at which a byte of a field turns over.
EdgeSizes == {0, 1, 255, 256, 257, 65535, 65536, 65792, 16777215, 16777216,
              16777471, 33554432}

\* CutAsComposed at every edge.
EdgesCut == \A h, p \in EdgeSizes : CutAsComposed(h, p)

=============================================================================
