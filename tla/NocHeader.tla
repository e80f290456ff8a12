----------------------------- MODULE NocHeader -----------------------------
(***************************************************************************)
(* The header of a head flit (packet/noc-header.cc).  It holds one         *)
(* distance byte per dimension: bit 7 (DIRECTION_BIT_MASK) is set when the *)
(* destination lies backwards (west, south), bits 0-6 (OFFSET_BIT_MASK)    *)
(* count the hops still to be made.  It also holds the source coordinates. *)
(* Bytes are 0..255 and every assignment to a uint8_t is taken modulo 256. *)
(***************************************************************************)
EXTENDS Naturals

Byte == 0 .. 255

NocHeaders(dimensions, distances, sources) ==
  [distance : [dimensions -> distances], source : [dimensions -> sources]]

\* b & DIRECTION_BIT_MASK
DirectionBit(b) == b - (b % 128)

\* offset | DIRECTION_BIT_MASK
WithDirectionBit(offset) == 128 + (offset % 128)

\* The uint8_t that holds the number v.
ToByte(v) == v % 256

HasForwardDirection(h, dim) == DirectionBit(h.distance[dim]) # 128

GetOffset(h, dim) == h.distance[dim] % 128

\* Mutant: the direction gets lost.
SetOffsetForward(h, dim, offset) == [h EXCEPT !.distance[dim] = ToByte(offset)]

\* Writes the offset and keeps the direction; the forward case is not masked.
SetOffset(h, dim, offset) ==
  [h EXCEPT !.distance[dim] =
     IF HasForwardDirection(h, dim) THEN ToByte(offset)
                                    ELSE WithDirectionBit(ToByte(offset))]

\* "Whether this is actually a header or only a dummy one": all bytes zero.
IsEmpty(h) == \A dim \in DOMAIN h.distance : h.distance[dim] = 0 /\ h.source[dim] = 0

=============================================================================
