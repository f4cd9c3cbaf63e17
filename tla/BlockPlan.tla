------------------------------ MODULE BlockPlan ------------------------------
(***************************************************************************)
(* Which Modbus requests cover a device's data points, and how a point's   *)
(* value is cut out of the reply (gateway/internal/acquisition/            *)
(* blockplan.go, decodeAndEmit of poller.go, and gateway/internal/modbus/  *)
(* decode.go).                                                             *)
(*                                                                         *)
(* Addresses are uint16 in the code: all arithmetic on them wraps at W.    *)
(* A value is the sequence of bytes it is made of, a byte the register and *)
(* the half of it that it was read from; what the bytes mean as a number   *)
(* and the linear scaling play no part in where they come from.            *)
(***************************************************************************)
EXTENDS Integers, Sequences, FiniteSets, Functions

CONSTANTS
  W,             \* number of register addresses (2^16 in the code)
  MaxRegisters,  \* maxRegistersPerBlock (125)
  MaxGap         \* maxGapRegisters (8)

\* A request holds the widest point, and is small beside the address range.
ASSUME BlockPlanAssumption ==
  /\ {W, MaxRegisters, MaxGap} \subseteq Nat
  /\ MaxRegisters >= 4 /\ MaxRegisters + MaxGap + 3 <= W

Addresses == 0..(W - 1)

\* A data point that passes Validate: its function code, first register, data
\* type (as the registers it spans) and byte order.  An order is a sequence of
\* positions, << >> for the natural one; nothing checks that it fits the type.
Point == [fc : 1..4, addr : Addresses, width : {1, 2, 4}, order : Seq(1..26)]

BitWide(fc) == fc \in {1, 2}

\* readBlock: one request, and the points its reply is to serve
Block == [fc : 1..4, start : Addresses, quantity : 1..W, points : Seq(Nat)]

-----------------------------------------------------------------------------
(* planBlockReads                                                          *)

NewBlock(dps, i) ==
  [fc |-> dps[i].fc, start |-> dps[i].addr, quantity |-> dps[i].width, points |-> <<i>>]

\* dpEnd: one past the last register of a point
DpEnd(dp) == (dp.addr + dp.width) % W

\* One past the last register of a block
BlockEnd(block) == (block.start + block.quantity) % W

\* Mutant: the request may grow beyond what a Modbus frame holds.
FitsAnySize(block, dp) ==
  dp.addr <= (BlockEnd(block) + MaxGap) % W

\* The pending block can take in a point.
Fits(block, dp) ==
  /\ dp.addr <= (BlockEnd(block) + MaxGap) % W
  /\ (DpEnd(dp) - block.start) % W <= MaxRegisters

\* Mutant: the last point decides where the block ends, also when it lies
\* within an earlier one.
QuantityToLast(block, dp) == (DpEnd(dp) - block.start) % W

Quantity(block, dp) ==
  IF DpEnd(dp) > BlockEnd(block) THEN (DpEnd(dp) - block.start) % W ELSE block.quantity

\* The orders in which planBlockReads may come by the points: group by group
\* of one function code, in map order; registers sorted by address, ties in any
\* order, and bits as they are.
Orders(dps) ==
  {s \in Bijection(DOMAIN dps, DOMAIN dps) :
     \A j, k \in DOMAIN dps : j < k /\ dps[s[j]].fc = dps[s[k]].fc =>
       /\ \A m \in j..k : dps[s[m]].fc = dps[s[j]].fc
       /\ IF BitWide(dps[s[j]].fc) THEN s[j] < s[k] ELSE dps[s[j]].addr <= dps[s[k]].addr}

\* One turn of the loop over a group: the last block is the pending one, unless
\* it is of another group.  Replies of FC1 and FC2 are bit-packed and never
\* shared.
Merge(dps, blocks, i) ==
  LET n == Len(blocks)
  IN  IF n > 0 /\ blocks[n].fc = dps[i].fc /\ ~ BitWide(dps[i].fc) /\ Fits(blocks[n], dps[i])
      THEN [blocks EXCEPT ![n].quantity = Quantity(blocks[n], dps[i]),
                          ![n].points = Append(@, i)]
      ELSE Append(blocks, NewBlock(dps, i))

-----------------------------------------------------------------------------
(* Replies and decoding                                                    *)

\* The registers a request asks for, without regard to the address range
Registers(block) == block.start..(block.start + block.quantity - 1)

\* The bytes of a reply: two for each register, or one for every eight bits.
RawReply(block) ==
  IF BitWide(block.fc)
  THEN [k \in 1..((block.quantity + 7) \div 8) |-> <<block.start, k>>]
  ELSE [k \in 1..(2 * block.quantity) |-> <<block.start + (k - 1) \div 2, (k - 1) % 2>>]

\* reorder, where the order fits
Reorder(raw, order) ==
  IF order = <<>> THEN raw ELSE [k \in DOMAIN raw |-> raw[order[k]]]

OrderFits(raw, order) ==
  order = <<>> \/ (Len(order) = Len(raw) /\ \A k \in DOMAIN order : order[k] \in DOMAIN raw)

NoValue == <<>>

Bad(quality) == [quality |-> quality, value |-> NoValue]

OffsetOf(dp, start) == 2 * ((dp.addr - start) % W)

\* decodeAndEmit and Decode: what a data point makes of a block's reply.
Decode(dp, raw, start) ==
  LET offset == OffsetOf(dp, start)
      own    == SubSeq(raw, offset + 1, offset + 2 * dp.width)
  IN  IF offset + 2 * dp.width > Len(raw) \/ ~ OrderFits(own, dp.order)
      THEN Bad("INVALID")
      ELSE [quality |-> "GOOD", value |-> Reorder(own, dp.order)]

-----------------------------------------------------------------------------
(* The references the planner is compared with.                            *)

\* What a request of its own would bring for a data point, from a device that
\* has all registers: a request beyond the address range is refused.
Dedicated(dps, i) ==
  IF dps[i].addr + dps[i].width > W THEN Bad("INVALID")
  ELSE Decode(dps[i], RawReply(NewBlock(dps, i)), dps[i].addr)

\* Points that one request may cover: of one function code, not too far apart,
\* and with no more than MaxGap unused registers between them.
Coverable(dps, S) ==
  LET first == CHOOSE a \in {dps[i].addr : i \in S} : \A i \in S : a <= dps[i].addr
      used  == UNION {dps[i].addr..(dps[i].addr + dps[i].width - 1) : i \in S}
  IN  /\ \A r \in used : r - first < MaxRegisters
      /\ \A r \in used : r # first =>
           \E k \in 1..(MaxGap + 1) : r - k \in used

\* The least number of requests for the points of a register function code
FewestRequests(dps, fc) ==
  LET S == {i \in DOMAIN dps : dps[i].fc = fc}
      counts == {n \in 0..Len(dps) :
                   \E f \in [S -> 1..n] :
                     \A k \in 1..n : LET C == {i \in S : f[i] = k}
                                     IN  C # {} => Coverable(dps, C)}
  IN  CHOOSE n \in counts : \A m \in counts : n <= m
=============================================================================
