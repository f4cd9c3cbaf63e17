---------------------------- MODULE PollerProofs -----------------------------
(***************************************************************************)
(* Proofs about Poller, for any devices and data points, faults, missing   *)
(* registers and limits of a request: every data point is reported once a  *)
(* turn, with what a request of its own would have brought, and the plan   *)
(* takes no more requests than needed.                                     *)
(***************************************************************************)
EXTENDS Poller, FiniteSetTheorems, SequenceTheorems, WellFoundedInduction, TLAPS

End(dp) == dp.addr + dp.width

\* A block that serves one point as a request of its own would
Alone(dps, bl) == bl = NewBlock(dps, bl.points[1])

\* A block that ends below the top of the address range, and holds every point
\* it serves that does so, too
Holds(dps, bl) ==
  /\ bl.start + bl.quantity < W
  /\ \A n \in DOMAIN bl.points :
       LET dp == dps[bl.points[n]]
       IN  bl.start <= dp.addr /\ (End(dp) < W => End(dp) <= bl.start + bl.quantity)

\* A block planned for points of one function code
BlockOK(dps, bl) ==
  /\ bl \in Block /\ bl.points # <<>> /\ bl.quantity <= MaxRegisters
  /\ \A n \in DOMAIN bl.points : bl.points[n] \in DOMAIN dps /\ dps[bl.points[n]].fc = bl.fc
  /\ bl.start = dps[bl.points[1]].addr
  /\ Alone(dps, bl) \/ (~ BitWide(bl.fc) /\ Holds(dps, bl))

BlockInv == \A b \in DOMAIN blocks : BlockOK(Dps(dev), blocks[b])

-----------------------------------------------------------------------------
(* Arithmetic of addresses.                                                *)

\* Sums and differences of addresses wrap once at most.
LEMMA Wrapped ==
  ASSUME NEW x \in Int
  PROVE  /\ 0 <= x /\ x < W => x % W = x
         /\ W <= x /\ x < 2 * W => x % W = x - W
         /\ -W <= x /\ x < 0 => x % W = x + W
         /\ x % W \in Addresses
BY BlockPlanAssumption DEF Addresses

\* The same for a sum
LEMMA WrappedSum ==
  ASSUME NEW a \in Nat, a < W, NEW b \in Nat, b < W
  PROVE  (a + b) % W = IF a + b < W THEN a + b ELSE (a + b) - W
<1> DEFINE x == a + b
<1>1. x \in Int /\ 0 <= x /\ x < 2 * W /\ W \in Nat
  BY BlockPlanAssumption
<1> HIDE DEF x
<1>2. x % W = IF x < W THEN x ELSE x - W
  BY <1>1, Wrapped
<1> QED BY <1>2 DEF x

\* What is known of a data point
LEMMA PointFacts ==
  ASSUME NEW dp \in Point
  PROVE  /\ dp.addr \in Nat /\ dp.addr < W /\ dp.width \in 1..4 /\ dp.width \in Nat
         /\ dp.fc \in 1..4 /\ dp.order \in Seq(1..26)
         /\ End(dp) \in Nat /\ dp.addr < End(dp) /\ End(dp) <= dp.addr + 4
         /\ End(dp) < W => DpEnd(dp) = End(dp)
         /\ End(dp) = W => DpEnd(dp) = 0
         /\ End(dp) > W => DpEnd(dp) = End(dp) - W
         /\ DpEnd(dp) \in Nat
<1>1. dp.addr \in Nat /\ dp.addr < W /\ dp.width \in {1, 2, 4} /\ dp.fc \in 1..4 /\ dp.order \in Seq(1..26)
  BY BlockPlanAssumption DEF Point, Addresses
<1>2. End(dp) \in Int /\ End(dp) >= 0 /\ End(dp) < 2 * W
  BY <1>1, BlockPlanAssumption, SMTT(30) DEF End
<1>3. dp.addr + dp.width \in Int /\ End(dp) = dp.addr + dp.width /\ W \in Nat
  BY <1>1, BlockPlanAssumption DEF End
<1>4. /\ End(dp) < W => DpEnd(dp) = End(dp)
      /\ End(dp) >= W => DpEnd(dp) = End(dp) - W
      /\ DpEnd(dp) \in Addresses
  BY <1>2, <1>3, Wrapped DEF DpEnd
<1>5. dp.width \in 1..4 /\ dp.width \in Nat /\ dp.addr < End(dp) /\ End(dp) <= dp.addr + 4
  BY <1>1, <1>3
<1>6. DpEnd(dp) \in Nat
  BY <1>4 DEF Addresses
<1>7. End(dp) = W => DpEnd(dp) = 0
  BY <1>2, <1>3, <1>4
<1> QED BY <1>1, <1>2, <1>3, <1>4, <1>5, <1>6, <1>7

\* What is known of a block
LEMMA BlockFacts ==
  ASSUME NEW bl \in Block
  PROVE  /\ bl.start \in Nat /\ bl.start < W /\ bl.quantity \in Nat /\ bl.quantity >= 1
         /\ bl.fc \in 1..4 /\ bl.points \in Seq(Nat) /\ Len(bl.points) \in Nat
         /\ DOMAIN bl.points = 1..Len(bl.points)
         /\ bl.start + bl.quantity < W => BlockEnd(bl) = bl.start + bl.quantity
         /\ bl.start + bl.quantity = W => BlockEnd(bl) = 0
         /\ bl.start + bl.quantity > W => BlockEnd(bl) = bl.start + bl.quantity - W
<1>1. /\ bl.start \in Nat /\ bl.start < W /\ bl.quantity \in 1..W /\ bl.fc \in 1..4
      /\ bl.points \in Seq(Nat)
  BY BlockPlanAssumption DEF Block, Addresses
<1>2. bl.start + bl.quantity \in Int /\ bl.start + bl.quantity < 2 * W
  BY <1>1, BlockPlanAssumption, SMTT(30)
<1>3. LET e == bl.start + bl.quantity
      IN  (e < W => BlockEnd(bl) = e) /\ (e >= W => BlockEnd(bl) = e - W)
  BY <1>1, <1>2, Wrapped DEF BlockEnd
<1>4. bl.quantity \in Nat /\ bl.quantity >= 1 /\ W \in Nat
  BY <1>1, BlockPlanAssumption
<1>5. Len(bl.points) \in Nat /\ DOMAIN bl.points = 1..Len(bl.points)
  BY <1>1
<1>6. bl.start + bl.quantity = W => BlockEnd(bl) = 0
  BY <1>1, <1>3, <1>4
<1> QED BY <1>1, <1>2, <1>3, <1>4, <1>5, <1>6

-----------------------------------------------------------------------------
(* One turn of the planner.                                                *)

\* The pending block with one more point
Extended(bl, dps, i) ==
  [bl EXCEPT !.quantity = Quantity(bl, dps[i]), !.points = Append(@, i)]

\* The fields of a block with one more point
LEMMA ExtendedFields ==
  ASSUME NEW bl \in Block, NEW dps, NEW i
  PROVE  LET new == Extended(bl, dps, i)
         IN  /\ new = [fc |-> bl.fc, start |-> bl.start,
                       quantity |-> Quantity(bl, dps[i]), points |-> Append(bl.points, i)]
             /\ new.fc = bl.fc /\ new.start = bl.start
             /\ new.quantity = Quantity(bl, dps[i]) /\ new.points = Append(bl.points, i)
<1> DEFINE new == Extended(bl, dps, i)
           q == Quantity(bl, dps[i])
<1>1. bl = [fc |-> bl.fc, start |-> bl.start, quantity |-> bl.quantity, points |-> bl.points]
  BY DEF Block
<1>2. new = [bl EXCEPT !.quantity = q, !.points = Append(bl.points, i)]
  BY DEF Extended
<1> HIDE DEF new, q
<1>3. new = [fc |-> bl.fc, start |-> bl.start, quantity |-> q, points |-> Append(bl.points, i)]
  BY <1>1, <1>2
<1>4. new.fc = bl.fc /\ new.start = bl.start /\ new.quantity = q /\ new.points = Append(bl.points, i)
  BY <1>3
<1> QED BY <1>3, <1>4 DEF new, q

\* The pending block takes in a point; the others stay.
Grows(dps, bs, new, i) ==
  LET n == Len(bs)
  IN  /\ n \in Nat /\ n > 0 /\ n \in 1..n /\ DOMAIN new = 1..n /\ DOMAIN bs = 1..n
      /\ bs[n].fc = dps[i].fc /\ ~ BitWide(dps[i].fc) /\ Fits(bs[n], dps[i])
      /\ new = [bs EXCEPT ![n] = Extended(bs[n], dps, i)]
      /\ new[n] = Extended(bs[n], dps, i)
      /\ \A b \in 1..n : b # n => new[b] = bs[b]

\* Merge extends the pending block or starts another.
LEMMA MergeEffect ==
  ASSUME NEW dps, NEW bs \in Seq(Block), NEW i
  PROVE  \/ /\ Merge(dps, bs, i) = Append(bs, NewBlock(dps, i))
            /\ Len(bs) > 0 /\ bs[Len(bs)].fc = dps[i].fc /\ ~ BitWide(dps[i].fc)
                 => ~ Fits(bs[Len(bs)], dps[i])
         \/ Grows(dps, bs, Merge(dps, bs, i), i)
<1> DEFINE n == Len(bs)
<1>1. CASE ~ (n > 0 /\ bs[n].fc = dps[i].fc /\ ~ BitWide(dps[i].fc) /\ Fits(bs[n], dps[i]))
  BY <1>1 DEF Merge
<1>2. CASE n > 0 /\ bs[n].fc = dps[i].fc /\ ~ BitWide(dps[i].fc) /\ Fits(bs[n], dps[i])
  <2>1. n \in Nat /\ DOMAIN bs = 1..n /\ n \in DOMAIN bs
    BY <1>2
  <2>2. Merge(dps, bs, i) = [bs EXCEPT ![n].quantity = Quantity(bs[n], dps[i]),
                                       ![n].points = Append(@, i)]
    BY <1>2 DEF Merge
  <2>3. Merge(dps, bs, i) = [bs EXCEPT ![n] = Extended(bs[n], dps, i)]
    BY <2>1, <2>2 DEF Extended
  <2> QED BY <1>2, <2>1, <2>3 DEF Grows
<1> QED BY <1>1, <1>2

\* A block that ends below the top holds its points, also if it serves only one.
LEMMA BelowTopHolds ==
  ASSUME NEW dps \in Seq(Point), NEW bl, BlockOK(dps, bl), bl.start + bl.quantity < W
  PROVE  Holds(dps, bl)
<1>1. CASE Alone(dps, bl)
  <2>1. bl.points = <<bl.points[1]>> /\ bl.start = dps[bl.points[1]].addr
        /\ bl.quantity = dps[bl.points[1]].width
    BY <1>1 DEF Alone, NewBlock
  <2>2. DOMAIN bl.points = {1}
    BY <2>1
  <2>3. bl.points[1] \in DOMAIN dps
    BY <2>2 DEF BlockOK
  <2>4. dps[bl.points[1]] \in Point
    BY <2>3
  <2> QED BY <2>1, <2>2, <2>4, PointFacts, SMTT(30) DEF Holds, End
<1>2. CASE Holds(dps, bl)
  BY <1>2
<1> QED BY <1>1, <1>2 DEF BlockOK

\* A point that fits, behind the first of its block, meets a block that ends
\* below the top, and the block grows up to the point's end if that is below the
\* top, too, and no further.
LEMMA QuantityFits ==
  ASSUME NEW dps \in Seq(Point), NEW i \in DOMAIN dps, NEW bl, BlockOK(dps, bl),
         Fits(bl, dps[i]), bl.start <= dps[i].addr
  PROVE  /\ bl.start + bl.quantity < W
         /\ LET q == Quantity(bl, dps[i])
                e == End(dps[i])
            IN  /\ q \in Nat /\ q <= MaxRegisters /\ bl.quantity <= q
                /\ IF e < W /\ e > bl.start + bl.quantity THEN bl.start + q = e ELSE q = bl.quantity
                /\ e < W => e - bl.start <= MaxRegisters
                /\ bl.start + q < W
<1> DEFINE dp == dps[i]
           s == bl.start
           q == bl.quantity
           e == End(dp)
<1>0. dp \in Point /\ bl \in Block /\ q <= MaxRegisters
  BY DEF BlockOK
<1>1. /\ dp.addr \in Nat /\ dp.addr < W /\ e \in Nat /\ dp.addr < e /\ e <= dp.addr + 4
      /\ e < W => DpEnd(dp) = e
      /\ e = W => DpEnd(dp) = 0
      /\ e > W => DpEnd(dp) = e - W
      /\ DpEnd(dp) \in Nat
  BY <1>0, PointFacts
<1>2. /\ s \in Nat /\ s < W /\ q \in Nat /\ q >= 1
      /\ s + q < W => BlockEnd(bl) = s + q
      /\ s + q = W => BlockEnd(bl) = 0
      /\ s + q > W => BlockEnd(bl) = s + q - W
  BY <1>0, BlockFacts
<1>3. /\ W \in Nat /\ MaxRegisters \in Nat /\ MaxGap \in Nat /\ MaxRegisters >= 4
      /\ MaxRegisters + MaxGap + 3 <= W
  BY BlockPlanAssumption
<1> DEFINE room == (BlockEnd(bl) + MaxGap) % W
           span == (DpEnd(dp) - s) % W
<1>4. dp.addr <= room /\ span <= MaxRegisters /\ s <= dp.addr
  BY DEF Fits
<1>5. Quantity(bl, dp) = IF DpEnd(dp) > BlockEnd(bl) THEN span ELSE q
  BY DEF Quantity
<1> HIDE DEF dp, s, q, e
<1>6. BlockEnd(bl) \in Nat /\ BlockEnd(bl) < W
  BY <1>0, <1>2, <1>3
<1>7. room = IF BlockEnd(bl) + MaxGap < W THEN BlockEnd(bl) + MaxGap ELSE (BlockEnd(bl) + MaxGap) - W
  <2>1. MaxGap < W
    BY <1>3
  <2> QED BY <1>3, <1>6, <2>1, WrappedSum, Zenon
<1>8. 0 <= DpEnd(dp) - s => span = DpEnd(dp) - s
  <2> DEFINE x == DpEnd(dp) - s
  <2>1. x \in Int /\ x < W
    BY <1>1, <1>2, <1>3, SMTT(30)
  <2> QED BY <2>1, Wrapped, Zenon
<1> HIDE DEF room, span
<1>9. s + q < W
  <2> SUFFICES ASSUME s + q >= W PROVE FALSE
    BY <1>2, <1>3
  <2>1. BlockEnd(bl) = s + q - W
    BY <1>2, <1>3
  <2> QED BY <1>0, <1>1, <1>2, <1>3, <1>4, <1>7, <2>1
<1>10. BlockEnd(bl) = s + q
  BY <1>2, <1>9
<1>11. LET n == Quantity(bl, dp)
       IN  /\ n \in Nat /\ n <= MaxRegisters /\ q <= n
           /\ IF e < W /\ e > s + q THEN s + n = e ELSE n = q
           /\ e < W => e - s <= MaxRegisters
           /\ s + n < W
  <2>1. CASE e < W
    <3>1. span = e - s
      BY <1>1, <1>2, <1>3, <1>4, <1>8, <2>1
    <3> QED BY <1>0, <1>1, <1>2, <1>3, <1>4, <1>5, <1>9, <1>10, <2>1, <3>1, SMTT(30)
  <2>2. CASE e >= W
    <3>1. DpEnd(dp) <= BlockEnd(bl)
      <4>1. DpEnd(dp) = e - W /\ dp.addr >= W - 4 /\ e <= W + 3
        BY <1>1, <1>3, <2>2
      <4>2. BlockEnd(bl) + MaxGap < W
        BY <1>1, <1>3, <1>4, <1>6, <1>7, <4>1
      <4> QED BY <1>1, <1>3, <1>4, <1>6, <1>7, <4>1, <4>2, SMTT(30)
    <3>2. Quantity(bl, dp) = q
      BY <1>1, <1>5, <1>6, <3>1
    <3> QED BY <1>0, <1>1, <1>2, <1>3, <1>9, <2>2, <3>2
  <2> QED BY <1>1, <1>3, <2>1, <2>2
<1> QED BY <1>9, <1>11 DEF dp, s, q, e

\* A block with one point more is a block as good as before.
LEMMA ExtendedOK ==
  ASSUME NEW dps \in Seq(Point), NEW i \in DOMAIN dps, NEW bl, BlockOK(dps, bl),
         bl.fc = dps[i].fc, ~ BitWide(dps[i].fc), Fits(bl, dps[i]), bl.start <= dps[i].addr
  PROVE  LET new == Extended(bl, dps, i)
         IN  /\ BlockOK(dps, new) /\ Holds(dps, new) /\ Holds(dps, bl)
             /\ new.fc = bl.fc /\ new.start = bl.start /\ new.quantity = Quantity(bl, dps[i])
             /\ new.points = Append(bl.points, i) /\ new.points[1] = bl.points[1]
<1> DEFINE new == Extended(bl, dps, i)
           q == Quantity(bl, dps[i])
           n == Len(bl.points)
           e == End(dps[i])
<1>1. bl \in Block /\ dps[i] \in Point /\ i \in Nat
  BY DEF BlockOK
<1>2. /\ bl.start \in Nat /\ bl.quantity \in Nat /\ bl.quantity >= 1 /\ n \in Nat
      /\ bl.points \in Seq(Nat) /\ DOMAIN bl.points = 1..n
  BY <1>1, BlockFacts
<1>3. /\ bl.start + bl.quantity < W /\ q \in Nat /\ q <= MaxRegisters /\ bl.quantity <= q
      /\ IF e < W /\ e > bl.start + bl.quantity THEN bl.start + q = e ELSE q = bl.quantity
      /\ bl.start + q < W
  BY QuantityFits
<1>4. new = [fc |-> bl.fc, start |-> bl.start, quantity |-> q, points |-> Append(bl.points, i)]
  BY <1>1, ExtendedFields
<1>5. new \in Block
  BY <1>1, <1>2, <1>3, <1>4, BlockPlanAssumption, SMTT(30) DEF Block
<1>6. /\ Append(bl.points, i) \in Seq(Nat) /\ Len(Append(bl.points, i)) = n + 1
      /\ \A k \in 1..(n + 1) : Append(bl.points, i)[k] = IF k = n + 1 THEN i ELSE bl.points[k]
      /\ n >= 1 /\ DOMAIN Append(bl.points, i) = 1..(n + 1)
  BY <1>1, <1>2, SMTT(30) DEF BlockOK
<1>7. Holds(dps, bl)
  BY <1>3, BelowTopHolds
<1>8. new.points[1] = bl.points[1]
  BY <1>2, <1>4, <1>6
<1>9. ASSUME NEW k \in DOMAIN new.points
      PROVE  /\ new.points[k] \in DOMAIN dps /\ dps[new.points[k]].fc = new.fc
             /\ new.start <= dps[new.points[k]].addr
             /\ End(dps[new.points[k]]) < W => End(dps[new.points[k]]) <= new.start + new.quantity
  <2>1. CASE k = n + 1
    <3>1. new.points[k] = i
      BY <1>4, <1>6, <2>1
    <3>2. End(dps[i]) \in Nat
      BY <1>1, PointFacts
    <3> QED BY <1>2, <1>3, <1>4, <3>1, <3>2, SMTT(30)
  <2>2. CASE k # n + 1
    <3>1. k \in 1..n /\ new.points[k] = bl.points[k]
      BY <1>2, <1>4, <1>6, <2>2
    <3>2. bl.points[k] \in DOMAIN dps /\ dps[bl.points[k]].fc = bl.fc
      BY <1>2, <3>1 DEF BlockOK
    <3>3. End(dps[bl.points[k]]) \in Nat
      BY <3>2, PointFacts
    <3>4. /\ bl.start <= dps[bl.points[k]].addr
          /\ End(dps[bl.points[k]]) < W => End(dps[bl.points[k]]) <= bl.start + bl.quantity
      BY <1>2, <1>7, <3>1 DEF Holds
    <3> QED BY <1>2, <1>3, <1>4, <3>1, <3>2, <3>3, <3>4, SMTT(30)
  <2> QED BY <2>1, <2>2
<1>10. Holds(dps, new)
  BY <1>3, <1>4, <1>9 DEF Holds
<1>11. new.points # <<>>
  BY <1>4, <1>6, SMTT(30)
<1>12. new.start = dps[new.points[1]].addr
  BY <1>4, <1>8 DEF BlockOK
<1>13. /\ new.fc = bl.fc /\ new.start = bl.start /\ new.quantity = q
       /\ new.points = Append(bl.points, i) /\ new.quantity <= MaxRegisters
  BY <1>3, <1>4
<1> HIDE DEF new, q
<1>14. ~ BitWide(new.fc)
  BY <1>13
<1>15. BlockOK(dps, new)
  BY <1>5, <1>9, <1>10, <1>11, <1>12, <1>13, <1>14 DEF BlockOK
<1> QED BY <1>7, <1>8, <1>10, <1>13, <1>15 DEF new, q

\* A new block is a block for one point.
LEMMA NewBlockOK ==
  ASSUME NEW dps \in Seq(Point), NEW i \in DOMAIN dps
  PROVE  LET new == NewBlock(dps, i)
         IN  /\ BlockOK(dps, new)
             /\ new.fc = dps[i].fc /\ new.start = dps[i].addr /\ new.quantity = dps[i].width
             /\ new.points = <<i>>
<1> DEFINE new == NewBlock(dps, i)
<1>1. dps[i] \in Point /\ i \in Nat
  OBVIOUS
<1>2. /\ new.fc = dps[i].fc /\ new.start = dps[i].addr /\ new.quantity = dps[i].width
      /\ new.points = <<i>>
      /\ new = [fc |-> new.fc, start |-> new.start, quantity |-> new.quantity, points |-> new.points]
  BY DEF NewBlock
<1>3. dps[i].width \in 1..4 /\ dps[i].fc \in 1..4 /\ dps[i].addr \in Addresses
  BY <1>1, PointFacts DEF Point
<1>4. dps[i].width \in 1..W /\ dps[i].width <= MaxRegisters
  BY <1>3, BlockPlanAssumption
<1>5. new.points \in Seq(Nat) /\ DOMAIN new.points = {1} /\ new.points[1] = i /\ new.points # <<>>
  BY <1>1, <1>2
<1> HIDE DEF new
<1>6. new \in Block
  BY <1>2, <1>3, <1>4, <1>5 DEF Block
<1>7. Alone(dps, new)
  BY <1>5 DEF Alone, new
<1> QED BY <1>2, <1>4, <1>5, <1>6, <1>7 DEF BlockOK, new

-----------------------------------------------------------------------------
(* Which points the blocks serve.                                          *)

\* A block of a plan serves a data point.
Blocked(bs, i) ==
  \E b \in DOMAIN bs : \E n \in DOMAIN bs[b].points : bs[b].points[n] = i

\* No point is served twice.
Distinct(bs) ==
  \A b, c \in DOMAIN bs : \A n \in DOMAIN bs[b].points : \A m \in DOMAIN bs[c].points :
    bs[b].points[n] = bs[c].points[m] => b = c /\ n = m

\* The n0-th point of block b0 is new; all other points have kept their places.
Placed(bs, new, i, b0, n0) ==
  /\ b0 \in DOMAIN new /\ n0 \in DOMAIN new[b0].points /\ new[b0].points[n0] = i
  /\ \A b \in DOMAIN bs : \A n \in DOMAIN bs[b].points :
       /\ b \in DOMAIN new /\ n \in DOMAIN new[b].points
       /\ new[b].points[n] = bs[b].points[n]
  /\ \A b \in DOMAIN new : \A n \in DOMAIN new[b].points :
       \/ b = b0 /\ n = n0
       \/ b \in DOMAIN bs /\ n \in DOMAIN bs[b].points
          /\ new[b].points[n] = bs[b].points[n]

\* Merge gives one more point a place, and leaves the others theirs.
LEMMA MergePlaces ==
  ASSUME NEW dps, NEW bs \in Seq(Block), NEW i
  PROVE  \E b0, n0 : Placed(bs, Merge(dps, bs, i), i, b0, n0)
<1> DEFINE new == Merge(dps, bs, i)
           len == Len(bs)
<1>1. CASE new = Append(bs, NewBlock(dps, i))
  <2>1. /\ len \in Nat /\ DOMAIN bs = 1..len /\ DOMAIN new = 1..(len + 1)
        /\ new[len + 1] = NewBlock(dps, i) /\ \A b \in 1..len : new[b] = bs[b]
    BY <1>1
  <2>2. new[len + 1].points = <<i>>
    BY <2>1 DEF NewBlock
  <2>3. DOMAIN new[len + 1].points = {1} /\ new[len + 1].points[1] = i
    BY <2>2
  <2> HIDE DEF new
  <2>4. \A b \in DOMAIN new : b = len + 1 \/ b \in DOMAIN bs
    BY <2>1
  <2>5. Placed(bs, new, i, len + 1, 1)
    BY <2>1, <2>3, <2>4 DEF Placed
  <2> QED BY <2>5 DEF new
<1>2. CASE Grows(dps, bs, new, i)
  <2> DEFINE p == bs[len].points
             m == Len(p) + 1
  <2> HIDE DEF new
  <2>0. /\ len \in Nat /\ len \in DOMAIN bs /\ DOMAIN new = DOMAIN bs
        /\ new[len] = Extended(bs[len], dps, i) /\ \A b \in DOMAIN bs : b # len => new[b] = bs[b]
    BY <1>2 DEF Grows
  <2>1. bs[len] \in Block
    BY <2>0
  <2>2. p \in Seq(Nat)
    BY <2>1, BlockFacts
  <2>3. new[len].points = Append(p, i)
    BY <2>0, <2>1, ExtendedFields
  <2>4. /\ DOMAIN p = 1..Len(p) /\ Len(p) \in Nat /\ DOMAIN Append(p, i) = 1..m
        /\ Append(p, i)[m] = i /\ \A n \in 1..Len(p) : Append(p, i)[n] = p[n]
    BY <2>2
  <2>5. \A n \in DOMAIN p : n \in DOMAIN new[len].points /\ new[len].points[n] = p[n]
    BY <2>3, <2>4
  <2>6. \A n \in DOMAIN new[len].points : n = m \/ (n \in DOMAIN p /\ new[len].points[n] = p[n])
    BY <2>3, <2>4
  <2>7. m \in DOMAIN new[len].points /\ new[len].points[m] = i
    BY <2>3, <2>4
  <2> HIDE DEF m
  <2>8. Placed(bs, new, i, len, m)
    BY <2>0, <2>5, <2>6, <2>7 DEF Placed
  <2>9. \E b0, n0 : Placed(bs, new, i, b0, n0)
    BY <2>8
  <2> QED BY <2>9 DEF new
<1> QED BY <1>1, <1>2, MergeEffect

\* Merge keeps the blocks good, if the pending one starts no later than the point.
LEMMA MergeKeepsOK ==
  ASSUME NEW dps \in Seq(Point), NEW i \in DOMAIN dps, NEW bs \in Seq(Block),
         \A b \in DOMAIN bs : BlockOK(dps, bs[b]),
         \A b \in DOMAIN bs : bs[b].fc = dps[i].fc /\ ~ BitWide(dps[i].fc)
                                => bs[b].start <= dps[i].addr
  PROVE  LET new == Merge(dps, bs, i)
         IN  new \in Seq(Block) /\ \A b \in DOMAIN new : BlockOK(dps, new[b])
<1> DEFINE new == Merge(dps, bs, i)
           n == Len(bs)
<1>0. n \in Nat /\ DOMAIN bs = 1..n
  OBVIOUS
<1>1. CASE new = Append(bs, NewBlock(dps, i))
  <2>1. BlockOK(dps, NewBlock(dps, i))
    BY NewBlockOK
  <2>2. NewBlock(dps, i) \in Block
    BY <2>1 DEF BlockOK
  <2> HIDE DEF new
  <2>3. new \in Seq(Block) /\ DOMAIN new = 1..(n + 1) /\ new[n + 1] = NewBlock(dps, i)
        /\ \A b \in 1..n : new[b] = bs[b]
    BY <1>1, <2>2
  <2>4. \A b \in DOMAIN new : b = n + 1 \/ b \in DOMAIN bs
    BY <1>0, <2>3
  <2>5. \A b \in DOMAIN new : BlockOK(dps, new[b])
    BY <1>0, <2>1, <2>3, <2>4
  <2> QED BY <2>3, <2>5 DEF new
<1>2. CASE Grows(dps, bs, new, i)
  <2> HIDE DEF new
  <2>0. /\ n \in DOMAIN bs /\ DOMAIN new = DOMAIN bs
        /\ bs[n].fc = dps[i].fc /\ ~ BitWide(dps[i].fc) /\ Fits(bs[n], dps[i])
        /\ new = [bs EXCEPT ![n] = Extended(bs[n], dps, i)]
        /\ new[n] = Extended(bs[n], dps, i) /\ \A b \in DOMAIN bs : b # n => new[b] = bs[b]
    BY <1>2 DEF Grows
  <2>1. BlockOK(dps, bs[n]) /\ bs[n].start <= dps[i].addr
    BY <2>0
  <2>2. BlockOK(dps, Extended(bs[n], dps, i))
    BY <2>0, <2>1, ExtendedOK
  <2>3. Extended(bs[n], dps, i) \in Block
    BY <2>2 DEF BlockOK
  <2>4. new \in Seq(Block)
    BY <1>0, <2>0, <2>3, ExceptSeq
  <2>5. \A b \in DOMAIN new : BlockOK(dps, new[b])
    BY <2>0, <2>2
  <2> QED BY <2>4, <2>5 DEF new
<1> QED BY <1>1, <1>2, MergeEffect

-----------------------------------------------------------------------------
(* Replies and what is decoded from them.                                  *)

\* A reply is made of bytes: two for every register, one for up to eight bits.
LEMMA RawReplyFacts ==
  ASSUME NEW bl \in Block
  PROVE  LET raw == RawReply(bl)
         IN  /\ raw \in Seq(Int \X Int)
             /\ BitWide(bl.fc) => Len(raw) = (bl.quantity + 7) \div 8
             /\ ~ BitWide(bl.fc) => /\ Len(raw) = 2 * bl.quantity
                                    /\ \A k \in 1..(2 * bl.quantity) :
                                         raw[k] = <<bl.start + (k - 1) \div 2, (k - 1) % 2>>
<1> DEFINE raw == RawReply(bl)
<1>1. bl.start \in Int /\ bl.quantity \in Nat
  BY BlockFacts
<1>2. CASE BitWide(bl.fc)
  <2>1. (bl.quantity + 7) \div 8 \in Nat
    BY <1>1
  <2>2. raw = [k \in 1..((bl.quantity + 7) \div 8) |-> <<bl.start, k>>]
    BY <1>2 DEF RawReply
  <2> DEFINE m == (bl.quantity + 7) \div 8
  <2> HIDE DEF raw, m
  <2>3. raw = [k \in 1..m |-> <<bl.start, k>>] /\ m \in Nat
    BY <2>1, <2>2 DEF m
  <2>4. \A k \in 1..m : raw[k] \in Int \X Int
    BY <1>1, <2>3
  <2>5. raw \in Seq(Int \X Int) /\ Len(raw) = m
    BY <2>3, <2>4
  <2> QED BY <1>2, <2>5 DEF raw, m
<1>3. CASE ~ BitWide(bl.fc)
  <2>1. 2 * bl.quantity \in Nat
    BY <1>1
  <2>2. raw = [k \in 1..(2 * bl.quantity) |-> <<bl.start + (k - 1) \div 2, (k - 1) % 2>>]
    BY <1>3 DEF RawReply
  <2> DEFINE m == 2 * bl.quantity
  <2> HIDE DEF raw, m
  <2>3. raw = [k \in 1..m |-> <<bl.start + (k - 1) \div 2, (k - 1) % 2>>] /\ m \in Nat
    BY <2>1, <2>2 DEF m
  <2>4. \A k \in 1..m : (k - 1) \div 2 \in Int /\ (k - 1) % 2 \in Int
    BY <2>3
  <2>5. \A k \in 1..m : raw[k] \in Int \X Int
    BY <1>1, <2>3, <2>4
  <2>6. raw \in Seq(Int \X Int) /\ Len(raw) = m
    BY <2>3, <2>5
  <2>7. \A k \in 1..m : raw[k] = <<bl.start + (k - 1) \div 2, (k - 1) % 2>>
    BY <2>3
  <2> QED BY <1>3, <2>6, <2>7 DEF raw, m
<1> QED BY <1>2, <1>3

\* A point is decoded to a value, which is not empty, or to none and INVALID.
LEMMA DecodeFacts ==
  ASSUME NEW dp \in Point, NEW raw \in Seq(Int \X Int), NEW start \in Int
  PROVE  LET r == Decode(dp, raw, start)
         IN  /\ r.quality \in {"GOOD", "INVALID"} /\ r.value \in Seq(Int \X Int)
             /\ r.quality = "GOOD" <=> r.value # NoValue
             /\ r = [quality |-> r.quality, value |-> r.value]
<1> DEFINE offset == OffsetOf(dp, start)
           own == SubSeq(raw, offset + 1, offset + 2 * dp.width)
           r == Decode(dp, raw, start)
<1>1. dp.addr \in Nat /\ dp.width \in 1..4 /\ dp.order \in Seq(1..26)
  BY PointFacts
<1>2. offset \in Nat
  <2> DEFINE x == dp.addr - start
  <2>1. x \in Int
    BY <1>1
  <2> HIDE DEF x
  <2>2. x % W \in Addresses
    BY <2>1, Wrapped
  <2>3. x % W \in Nat
    BY <2>2 DEF Addresses
  <2>4. 2 * (x % W) \in Nat
    BY <2>3
  <2> QED BY <2>4 DEF OffsetOf, x
<1> HIDE DEF offset
<1>3. r = IF offset + 2 * dp.width > Len(raw) \/ ~ OrderFits(own, dp.order)
          THEN Bad("INVALID")
          ELSE [quality |-> "GOOD", value |-> Reorder(own, dp.order)]
  BY DEF Decode, offset
<1>4. CASE offset + 2 * dp.width > Len(raw) \/ ~ OrderFits(own, dp.order)
  <2>1. r = [quality |-> "INVALID", value |-> <<>>]
    BY <1>3, <1>4 DEF Bad, NoValue
  <2> HIDE DEF r
  <2>2. r.quality = "INVALID" /\ r.value = <<>>
    BY <2>1
  <2>3. <<>> \in Seq(Int \X Int)
    OBVIOUS
  <2> QED BY <2>1, <2>2, <2>3 DEF r, NoValue
<1>5. CASE offset + 2 * dp.width <= Len(raw) /\ OrderFits(own, dp.order)
  <2> DEFINE m == offset + 1
             n == offset + 2 * dp.width
             v == Reorder(own, dp.order)
  <2>1. m \in Int /\ n \in Int /\ m <= n /\ \A k \in m..n : raw[k] \in Int \X Int
    <3>1. Len(raw) \in Nat /\ \A k \in 1..Len(raw) : raw[k] \in Int \X Int
      OBVIOUS
    <3>2. n <= Len(raw)
      BY <1>5
    <3>3. m \in Int /\ n \in Int /\ m <= n /\ 1 <= m
      BY ONLY <1>1, <1>2
    <3> HIDE DEF m, n
    <3> QED BY <3>1, <3>2, <3>3
  <2> HIDE DEF m, n
  <2>2. SubSeq(raw, m, n) \in Seq(Int \X Int) /\ Len(SubSeq(raw, m, n)) = n - m + 1
    BY <2>1, SubSeqProperties
  <2>3. own \in Seq(Int \X Int) /\ Len(own) \in Nat /\ Len(own) >= 1 /\ DOMAIN own = 1..Len(own)
    BY <2>1, <2>2 DEF m, n
  <2> HIDE DEF own
  <2>4. v \in Seq(Int \X Int) /\ v # <<>>
    <3>1. CASE dp.order = <<>>
      BY <2>3, <3>1 DEF Reorder
    <3>2. CASE dp.order # <<>>
      <4>1. v = [k \in 1..Len(own) |-> own[dp.order[k]]]
        BY <2>3, <3>2 DEF Reorder
      <4>2. \A k \in 1..Len(own) : dp.order[k] \in DOMAIN own
        BY <1>1, <1>5, <3>2 DEF OrderFits
      <4>3. \A k \in 1..Len(own) : v[k] \in Int \X Int
        BY <2>3, <4>1, <4>2
      <4>4. v \in Seq(Int \X Int) /\ Len(v) = Len(own)
        BY <2>3, <4>1, <4>3
      <4> QED BY <2>3, <4>4
    <3> QED BY <3>1, <3>2
  <2> HIDE DEF v
  <2>5. r = [quality |-> "GOOD", value |-> v]
    BY <1>1, <1>2, <1>3, <1>5 DEF v
  <2> HIDE DEF r
  <2>6. r.quality = "GOOD" /\ r.value = v
    BY <2>5
  <2> QED BY <2>4, <2>5, <2>6 DEF r, NoValue
<1> QED BY <1>1, <1>2, <1>4, <1>5

-----------------------------------------------------------------------------
(* The invariant: where each point is, in the blocks or among the readings. *)

\* The readings of a device name a point.
Reported(readings, i) == \E k \in DOMAIN readings : readings[k].point = i

\* No two readings are of one point.
Once(readings) ==
  \A j, k \in DOMAIN readings : readings[j].point = readings[k].point => j = k

\* Blocks exist only while a device is planned or read.
IdleInv == pc \notin {"plan", "read"} => blocks = <<>>

\* The points come by so far are those that have a block.
TakenInv ==
  pc = "plan" =>
    /\ out[dev] = <<>>
    /\ \A i \in DOMAIN Dps(dev) : Blocked(blocks, i) <=> \E j \in 1..(next - 1) : order[j] = i

\* Every point is in a block that is yet to be read, or has its reading.
LeftInv ==
  pc = "read" => \A i \in DOMAIN Dps(dev) : Blocked(blocks, i) <=> ~ Reported(out[dev], i)

\* A device that is not being read has no readings, or those of a whole turn.
CompleteInv ==
  \A d \in Devices :
    \/ d = dev /\ pc \in {"plan", "read"}
    \/ out[d] = <<>> /\ pc # "offline"
    \/ \A i \in DOMAIN Dps(d) : Reported(out[d], i)

OnceInv == \A d \in Devices : Once(out[d])

IndInv ==
  /\ TypeOK /\ IdleInv /\ BlockInv /\ Distinct(blocks)
  /\ TakenInv /\ LeftInv /\ CompleteInv /\ OnceInv

\* What a block's turn appends to the readings: one for each of its points
ReadingsOf(bl, readings) ==
  /\ readings \in Seq(Reading) /\ DOMAIN readings = DOMAIN bl.points
  /\ \A k \in DOMAIN readings :
       /\ readings[k].point = bl.points[k]
       /\ readings[k].quality = "GOOD" <=> readings[k].value # NoValue

\* What a device's turn emits for its first block, with a reply or without
Emitted(readings) ==
  /\ pc = "read" /\ blocks # <<>> /\ ReadingsOf(Head(blocks), readings)
  /\ out' = [out EXCEPT ![dev] = @ \o readings] /\ blocks' = Tail(blocks)
  /\ UNCHANGED <<config, cancelled, pc, dev, order, next>>

\* The data points of the devices
LEMMA DpsType ==
  ASSUME TypeOK, NEW d \in Devices
  PROVE  /\ Dps(d) \in Seq(Point) /\ Len(Dps(d)) \in Nat /\ DOMAIN Dps(d) = 1..Len(Dps(d))
         /\ config.devices \in Seq(Seq(Point)) /\ Len(config.devices) \in Nat
         /\ Devices = 1..Len(config.devices) /\ 1 \in Devices
<1>1. config.devices \in Seq(Seq(Point))
  BY DEF TypeOK, Config
<1>2. Dps(d) \in Seq(Point)
  BY <1>1 DEF Dps, Devices
<1>3. Len(config.devices) \in Nat /\ Devices = 1..Len(config.devices)
  BY <1>1 DEF Devices
<1> QED BY <1>1, <1>2, <1>3

\* Bad readings of a block or of a device
LEMMA BadReadingsFacts ==
  ASSUME NEW points \in Seq(Nat), NEW quality \in ErrorQuality, NEW via \in {"reply", "hole", "fault"}
  PROVE  LET r == BadReadings(points, quality, via)
         IN  /\ r \in Seq(Reading) /\ DOMAIN r = DOMAIN points
             /\ \A k \in DOMAIN points :
                  /\ r[k].point = points[k] /\ r[k].quality # "GOOD" /\ r[k].value = NoValue
                  /\ r[k].quality = quality /\ r[k].via = via
<1> DEFINE r == BadReadings(points, quality, via)
<1>1. r = [k \in DOMAIN points |-> [point |-> points[k], quality |-> quality, value |-> <<>>, via |-> via]]
  BY DEF BadReadings, NoValue
<1>2. DOMAIN points = 1..Len(points) /\ Len(points) \in Nat /\ \A k \in DOMAIN points : points[k] \in Nat
  OBVIOUS
<1>3. <<>> \in Seq(Int \X Int)
  OBVIOUS
<1> HIDE DEF r
<1>4. \A k \in DOMAIN points :
        /\ r[k] \in Reading
        /\ r[k].point = points[k] /\ r[k].quality = quality /\ r[k].value = <<>> /\ r[k].via = via
  BY <1>1, <1>2, <1>3 DEF Reading
<1>5. r \in Seq(Reading) /\ DOMAIN r = DOMAIN points
  BY <1>1, <1>2, <1>4
<1> QED BY <1>4, <1>5 DEF r, NoValue, ErrorQuality

\* The first block is read: its points get their readings, the other blocks stay.
LEMMA EmitStep ==
  ASSUME IndInv, NEW readings, Emitted(readings)
  PROVE  /\ IndInv'
         /\ \A d \in Devices : d # dev => out'[d] = out[d]
         /\ \A k \in DOMAIN out'[dev] :
              \/ k \in DOMAIN out[dev] /\ out'[dev][k] = out[dev][k]
              \/ \E n \in DOMAIN readings : out'[dev][k] = readings[n]
<1> DEFINE bl == Head(blocks)
           old == out[dev]
           new == out'[dev]
           rest == Tail(blocks)
           lo == Len(old)
           lr == Len(readings)
<1>0. /\ pc = "read" /\ blocks # <<>> /\ ReadingsOf(Head(blocks), readings)
      /\ out' = [out EXCEPT ![dev] = @ \o readings] /\ blocks' = Tail(blocks)
      /\ UNCHANGED <<config, cancelled, pc, dev, order, next>>
  BY DEF Emitted
<1> USE <1>0
<1>1. /\ dev \in Devices /\ out \in [Devices -> Seq(Reading)] /\ blocks \in Seq(Block)
      /\ \A d \in Devices : \A k \in DOMAIN out[d] :
           /\ out[d][k].point \in DOMAIN Dps(d)
           /\ out[d][k].quality = "GOOD" <=> out[d][k].value # NoValue
      /\ \A b \in DOMAIN blocks : BlockOK(Dps(dev), blocks[b])
  BY DEF IndInv, TypeOK, BlockInv
<1>2. /\ rest \in Seq(Block) /\ 1 \in DOMAIN blocks /\ bl = blocks[1]
      /\ DOMAIN rest = 1..(Len(blocks) - 1) /\ DOMAIN blocks = 1..Len(blocks) /\ Len(blocks) \in Nat
      /\ \A b \in DOMAIN rest : b + 1 \in DOMAIN blocks /\ rest[b] = blocks[b + 1]
      /\ \A b \in DOMAIN blocks : b = 1 \/ (b - 1 \in DOMAIN rest /\ rest[b - 1] = blocks[b])
  BY <1>1
<1>3. /\ old \in Seq(Reading) /\ readings \in Seq(Reading) /\ lo \in Nat /\ lr \in Nat
      /\ DOMAIN old = 1..lo /\ DOMAIN readings = 1..lr /\ DOMAIN readings = DOMAIN bl.points
      /\ new = old \o readings /\ out' \in [Devices -> Seq(Reading)]
      /\ \A d \in Devices : d # dev => out'[d] = out[d]
  <2>1. old \in Seq(Reading) /\ readings \in Seq(Reading) /\ DOMAIN readings = DOMAIN bl.points
    BY <1>1 DEF ReadingsOf
  <2>2. old \o readings \in Seq(Reading) /\ new = old \o readings
    BY <1>1, <2>1
  <2> QED BY <1>1, <2>1, <2>2
<1>4. /\ DOMAIN new = 1..(lo + lr)
      /\ \A k \in 1..lo : k \in DOMAIN new /\ new[k] = old[k]
      /\ \A k \in 1..lr : lo + k \in DOMAIN new /\ new[lo + k] = readings[k]
      /\ \A k \in DOMAIN new : k \in 1..lo \/ (k - lo \in 1..lr /\ new[k] = readings[k - lo])
  BY <1>3
<1> HIDE DEF bl, old, new, rest, lo, lr
<1>5. \A n \in DOMAIN bl.points : /\ bl.points[n] \in DOMAIN Dps(dev)
                                  /\ Blocked(blocks, bl.points[n])
                                  /\ ~ Reported(old, bl.points[n])
  <2>1. BlockOK(Dps(dev), bl)
    BY <1>1, <1>2
  <2>2. \A n \in DOMAIN bl.points : bl.points[n] \in DOMAIN Dps(dev)
    BY <2>1 DEF BlockOK
  <2>3. \A n \in DOMAIN bl.points : Blocked(blocks, bl.points[n])
    BY <1>2 DEF Blocked
  <2> QED BY <2>2, <2>3 DEF IndInv, LeftInv, old
<1>6. \A n \in DOMAIN readings : /\ readings[n].point = bl.points[n]
                                 /\ readings[n].quality = "GOOD" <=> readings[n].value # NoValue
  BY DEF ReadingsOf, bl
<1>7. \A b, c \in DOMAIN blocks : \A n \in DOMAIN blocks[b].points : \A m \in DOMAIN blocks[c].points :
        blocks[b].points[n] = blocks[c].points[m] => b = c /\ n = m
  BY DEF IndInv, Distinct
<1>8. Once(new)
  <2> SUFFICES ASSUME NEW j \in DOMAIN new, NEW k \in DOMAIN new, new[j].point = new[k].point
               PROVE  j = k
    BY DEF Once
  <2> DEFINE Old(x) == x \in DOMAIN old /\ new[x] = old[x]
             Fresh(x) == x - lo \in DOMAIN bl.points /\ new[x].point = bl.points[x - lo]
  <2>0. \A x \in DOMAIN new : Old(x) \/ Fresh(x)
    BY <1>3, <1>4, <1>6
  <2>1. CASE Old(j) /\ Old(k)
    <3>1. Once(old)
      BY <1>1 DEF IndInv, OnceInv, old
    <3> QED BY <2>1, <3>1 DEF Once
  <2>2. CASE Old(j) /\ Fresh(k)
    BY <1>5, <2>2 DEF Reported
  <2>3. CASE Fresh(j) /\ Old(k)
    BY <1>5, <2>3 DEF Reported
  <2>4. CASE Fresh(j) /\ Fresh(k)
    <3> DEFINE x == j - lo
               y == k - lo
    <3>1. /\ x \in DOMAIN blocks[1].points /\ y \in DOMAIN blocks[1].points
          /\ blocks[1].points[x] = blocks[1].points[y]
      BY <1>2, <2>4
    <3> HIDE DEF x, y
    <3>2. x = y
      BY <1>2, <1>7, <3>1
    <3> QED BY <1>3, <1>4, <3>2 DEF x, y
  <2> QED BY <2>0, <2>1, <2>2, <2>3, <2>4
<1>9. Distinct(rest)
  <2> SUFFICES ASSUME NEW b \in DOMAIN rest, NEW c \in DOMAIN rest,
                      NEW n \in DOMAIN rest[b].points, NEW m \in DOMAIN rest[c].points,
                      rest[b].points[n] = rest[c].points[m]
               PROVE  b = c /\ n = m
    BY DEF Distinct
  <2>1. b + 1 = c + 1 /\ n = m
    BY <1>2, <1>7
  <2> QED BY <1>2, <2>1
<1>10. \A i \in DOMAIN Dps(dev) : Blocked(rest, i) <=> ~ Reported(new, i)
  <2> TAKE i \in DOMAIN Dps(dev)
  <2>1. Blocked(blocks, i) <=> ~ Reported(old, i)
    BY DEF IndInv, LeftInv, old
  <2>2. Blocked(blocks, i) <=> Blocked(rest, i) \/ \E n \in DOMAIN bl.points : bl.points[n] = i
    <3>1. Blocked(rest, i) => Blocked(blocks, i)
      BY <1>2 DEF Blocked
    <3>2. (\E n \in DOMAIN bl.points : bl.points[n] = i) => Blocked(blocks, i)
      BY <1>2 DEF Blocked
    <3>3. ASSUME NEW b \in DOMAIN blocks, NEW n \in DOMAIN blocks[b].points, blocks[b].points[n] = i
          PROVE  Blocked(rest, i) \/ \E m \in DOMAIN bl.points : bl.points[m] = i
      BY <1>2, <3>3 DEF Blocked
    <3> QED BY <3>1, <3>2, <3>3 DEF Blocked
  <2>3. Reported(new, i) <=> Reported(old, i) \/ \E n \in DOMAIN bl.points : bl.points[n] = i
    <3>1. Reported(old, i) => Reported(new, i)
      BY <1>3, <1>4 DEF Reported
    <3>2. \A n \in DOMAIN bl.points : lo + n \in DOMAIN new /\ new[lo + n].point = bl.points[n]
      BY <1>3, <1>4, <1>6
    <3>3. ASSUME NEW k \in DOMAIN new, new[k].point = i
          PROVE  Reported(old, i) \/ \E m \in DOMAIN bl.points : bl.points[m] = i
      <4>1. (k \in DOMAIN old /\ new[k] = old[k]) \/ (k - lo \in DOMAIN readings /\ new[k] = readings[k - lo])
        BY <1>3, <1>4
      <4> QED BY <1>3, <1>6, <3>3, <4>1 DEF Reported
    <3> QED BY <3>1, <3>2, <3>3 DEF Reported
  <2>4. ASSUME NEW n \in DOMAIN bl.points, bl.points[n] = i PROVE ~ Blocked(rest, i)
    <3> SUFFICES ASSUME NEW b \in DOMAIN rest, NEW m \in DOMAIN rest[b].points, rest[b].points[m] = i
                 PROVE  FALSE
      BY DEF Blocked
    <3>1. b + 1 = 1
      BY <1>2, <1>7, <2>4
    <3> QED BY <1>2, <3>1
  <2> QED BY <2>1, <2>2, <2>3, <2>4
<1>11. TypeOK'
  <2>1. \A k \in DOMAIN new : /\ new[k].point \in DOMAIN Dps(dev)
                              /\ new[k].quality = "GOOD" <=> new[k].value # NoValue
    BY <1>1, <1>3, <1>4, <1>5, <1>6, SMTT(30) DEF old
  <2>2. \A b \in DOMAIN rest : /\ rest[b].points # <<>>
                               /\ \A n \in DOMAIN rest[b].points : rest[b].points[n] \in DOMAIN Dps(dev)
    BY <1>1, <1>2 DEF BlockOK
  <2>3. \A d \in Devices : \A k \in DOMAIN out'[d] :
           /\ out'[d][k].point \in DOMAIN Dps(d)
           /\ out'[d][k].quality = "GOOD" <=> out'[d][k].value # NoValue
    BY <1>1, <1>3, <2>1, SMTT(30) DEF new
  <2>4. Devices' = Devices /\ \A d : Dps(d)' = Dps(d)
    BY DEF Devices, Dps
  <2> QED BY <1>2, <1>3, <2>2, <2>3, <2>4, SMTT(30) DEF IndInv, TypeOK, rest, Dps, Devices
<1>12. BlockInv'
  BY <1>1, <1>2 DEF BlockInv, Dps, rest
<1>13. OnceInv'
  BY <1>1, <1>3, <1>8 DEF IndInv, OnceInv, Devices, new
<1>14. CompleteInv'
  BY <1>3 DEF IndInv, CompleteInv, Devices, Dps
<1>15. LeftInv' /\ TakenInv' /\ IdleInv'
  BY <1>10 DEF LeftInv, TakenInv, IdleInv, Dps, rest, new
<1>16. \A k \in DOMAIN new : \/ k \in DOMAIN old /\ new[k] = old[k]
                             \/ \E n \in DOMAIN readings : new[k] = readings[n]
  BY <1>3, <1>4
<1> QED BY <1>3, <1>9, <1>11, <1>12, <1>13, <1>14, <1>15, <1>16 DEF IndInv, rest, old, new

-----------------------------------------------------------------------------
(* The steps.                                                              *)

\* The planner comes by every point once, and by the registers of a function
\* code in the order of their addresses, with no other point among them.
LEMMA OrderFacts ==
  ASSUME NEW dps, NEW s \in Orders(dps)
  PROVE  /\ s \in [DOMAIN dps -> DOMAIN dps]
         /\ \A j, k \in DOMAIN dps : s[j] = s[k] => j = k
         /\ \A i \in DOMAIN dps : \E j \in DOMAIN dps : s[j] = i
         /\ \A j, k \in DOMAIN dps : j < k /\ dps[s[j]].fc = dps[s[k]].fc =>
              /\ \A m \in j..k : dps[s[m]].fc = dps[s[j]].fc
              /\ ~ BitWide(dps[s[j]].fc) => dps[s[j]].addr <= dps[s[k]].addr
BY DEF Orders, Bijection, Injection, Surjection, IsInjective

\* The next point to be planned has no block yet, and the blocks of its function
\* code start no later than it does.
LEMMA NextPoint ==
  ASSUME IndInv, pc = "plan", next <= Len(Dps(dev))
  PROVE  LET dps == Dps(dev)
             i == order[next]
         IN  /\ next \in DOMAIN dps /\ i \in DOMAIN dps /\ ~ Blocked(blocks, i)
             /\ \A b \in DOMAIN blocks : blocks[b].fc = dps[i].fc /\ ~ BitWide(dps[i].fc)
                                           => blocks[b].start <= dps[i].addr
<1> DEFINE dps == Dps(dev)
           i == order[next]
<1>1. dev \in Devices /\ TypeOK
  BY DEF IndInv, TypeOK
<1>2. dps \in Seq(Point) /\ Len(dps) \in Nat /\ DOMAIN dps = 1..Len(dps)
  BY <1>1, DpsType
<1>3. order \in Orders(dps) /\ next \in 1..(Len(dps) + 1)
  BY <1>1 DEF TypeOK
<1> HIDE DEF dps
<1>4. next \in DOMAIN dps /\ i \in DOMAIN dps
  <2>1. next \in DOMAIN dps
    BY <1>2, <1>3 DEF dps
  <2> QED BY <1>3, <2>1, OrderFacts
<1>5. \A x \in DOMAIN dps : Blocked(blocks, x) => \E j \in 1..(next - 1) : order[j] = x
  BY DEF IndInv, TakenInv, dps
<1>6. \A j \in 1..(next - 1) : j \in DOMAIN dps /\ j < next /\ order[j] # i
  <2> TAKE j \in 1..(next - 1)
  <2>1. j \in DOMAIN dps /\ j < next /\ j # next
    BY <1>2, <1>3, <1>4
  <2> QED BY <1>3, <1>4, <2>1, OrderFacts
<1>7. ASSUME NEW b \in DOMAIN blocks, blocks[b].fc = dps[i].fc, ~ BitWide(dps[i].fc)
      PROVE  blocks[b].start <= dps[i].addr
  <2> DEFINE x == blocks[b].points[1]
  <2>1. BlockOK(dps, blocks[b])
    BY DEF IndInv, BlockInv, dps
  <2>2. 1 \in DOMAIN blocks[b].points
    BY <2>1, BlockFacts DEF BlockOK
  <2>3. x \in DOMAIN dps /\ dps[x].fc = dps[i].fc /\ blocks[b].start = dps[x].addr
    BY <1>7, <2>1, <2>2 DEF BlockOK
  <2>4. Blocked(blocks, x)
    BY <2>2 DEF Blocked
  <2>5. PICK j \in 1..(next - 1) : order[j] = x
    BY <1>5, <2>3, <2>4
  <2> HIDE DEF x
  <2> QED BY <1>3, <1>4, <1>6, <1>7, <2>3, <2>5, OrderFacts
<1>8. ~ Blocked(blocks, i)
  BY <1>4, <1>5, <1>6
<1> QED BY <1>4, <1>7, <1>8 DEF dps

(* Placing the next point keeps the invariant.                             *)
LEMMA PlanPointStep ==
  ASSUME IndInv, PlanPoint
  PROVE  IndInv'
<1> DEFINE dps == Dps(dev)
           i == order[next]
           new == Merge(dps, blocks, i)
<1>1. dev \in Devices /\ TypeOK /\ blocks \in Seq(Block) /\ pc = "plan" /\ next <= Len(Dps(dev))
      /\ next \in 1..(Len(dps) + 1)
  BY DEF IndInv, TypeOK, PlanPoint
<1>2. dps \in Seq(Point) /\ Len(dps) \in Nat /\ DOMAIN dps = 1..Len(dps)
  BY <1>1, DpsType
<1>3. /\ next \in DOMAIN dps /\ i \in DOMAIN dps /\ ~ Blocked(blocks, i)
      /\ \A b \in DOMAIN blocks : blocks[b].fc = dps[i].fc /\ ~ BitWide(dps[i].fc)
                                    => blocks[b].start <= dps[i].addr
  BY <1>1, NextPoint
<1>4. \A b \in DOMAIN blocks : BlockOK(dps, blocks[b])
  BY DEF IndInv, BlockInv
<1> HIDE DEF dps, i
<1>5. new \in Seq(Block) /\ \A b \in DOMAIN new : BlockOK(dps, new[b])
  BY <1>1, <1>2, <1>3, <1>4, MergeKeepsOK
<1>6. PICK b0, n0 : Placed(blocks, new, i, b0, n0)
  BY <1>1, MergePlaces
<1>7. /\ blocks' = new /\ next' = next + 1 /\ pc' = "plan" /\ dev' = dev /\ order' = order
      /\ out' = out /\ config' = config /\ cancelled' = cancelled
      /\ Dps(dev)' = dps /\ Devices' = Devices /\ \A d : Dps(d)' = Dps(d)
  BY <1>1 DEF PlanPoint, dps, i, Dps, Devices
<1> HIDE DEF new
<1>8. Distinct(new)
  <2> SUFFICES ASSUME NEW b \in DOMAIN new, NEW c \in DOMAIN new, NEW n \in DOMAIN new[b].points,
                      NEW m \in DOMAIN new[c].points, new[b].points[n] = new[c].points[m]
               PROVE  b = c /\ n = m
    BY DEF Distinct
  <2> DEFINE Old(x, y) == x \in DOMAIN blocks /\ y \in DOMAIN blocks[x].points
                          /\ new[x].points[y] = blocks[x].points[y]
  <2>1. (b = b0 /\ n = n0) \/ Old(b, n)
    BY <1>6 DEF Placed
  <2>2. (c = b0 /\ m = n0) \/ Old(c, m)
    BY <1>6 DEF Placed
  <2>3. new[b0].points[n0] = i
    BY <1>6 DEF Placed
  <2>4. \A x, y : Old(x, y) => new[x].points[y] # i
    BY <1>3 DEF Blocked
  <2>5. CASE Old(b, n) /\ Old(c, m)
    <3>1. Distinct(blocks)
      BY DEF IndInv
    <3>2. /\ b \in DOMAIN blocks /\ c \in DOMAIN blocks
          /\ n \in DOMAIN blocks[b].points /\ m \in DOMAIN blocks[c].points
          /\ blocks[b].points[n] = blocks[c].points[m]
      BY <2>5
    <3> QED BY <3>1, <3>2, ZenonT(30) DEF Distinct
  <2> QED BY <2>1, <2>2, <2>3, <2>4, <2>5
<1>9. \A x : Blocked(new, x) <=> Blocked(blocks, x) \/ x = i
  BY <1>6 DEF Placed, Blocked
<1>10. TakenInv'
  <2>1. \A x \in DOMAIN dps : Blocked(blocks, x) <=> \E j \in 1..(next - 1) : order[j] = x
    BY <1>1 DEF IndInv, TakenInv, dps
  <2>2. 1..((next + 1) - 1) = (1..(next - 1)) \cup {next}
    BY <1>2, <1>3
  <2>3. \A x \in DOMAIN dps : Blocked(new, x) <=> \E j \in 1..((next + 1) - 1) : order[j] = x
    BY <1>9, <2>1, <2>2 DEF i
  <2>4. out[dev] = <<>>
    BY <1>1 DEF IndInv, TakenInv
  <2> QED BY <1>7, <2>3, <2>4 DEF TakenInv
<1>11. TypeOK'
  <2>1. next + 1 \in 1..(Len(dps) + 1)
    BY <1>2, <1>3
  <2>2. \A b \in DOMAIN new : /\ new[b].points # <<>>
                              /\ \A n \in DOMAIN new[b].points : new[b].points[n] \in DOMAIN dps
    BY <1>5 DEF BlockOK
  <2> QED BY <1>1, <1>5, <1>7, <2>1, <2>2 DEF TypeOK, dps
<1>12. BlockInv'
  BY <1>5, <1>7 DEF BlockInv
<1>13. OnceInv' /\ CompleteInv' /\ LeftInv' /\ IdleInv'
  BY <1>1, <1>7 DEF IndInv, OnceInv, CompleteInv, LeftInv, IdleInv
<1> QED BY <1>7, <1>8, <1>10, <1>11, <1>12, <1>13 DEF IndInv

(* So does the start of a turn, which takes up some order of the points.   *)
LEMMA StartDeviceStep ==
  ASSUME IndInv, StartDevice
  PROVE  IndInv'
<1>1. dev \in Devices /\ TypeOK /\ pc = "device" /\ out \in [Devices -> Seq(Reading)]
  BY DEF IndInv, TypeOK, StartDevice
<1>2. Len(Dps(dev)) \in Nat
  BY <1>1, DpsType
<1>3. /\ blocks' = <<>> /\ next' = 1 /\ pc' = "plan" /\ dev' = dev /\ order' \in Orders(Dps(dev))
      /\ config' = config /\ cancelled' = cancelled /\ out' \in [Devices -> Seq(Reading)]
      /\ out'[dev] = <<>> /\ \A d \in Devices : d # dev => out'[d] = out[d]
      /\ Devices' = Devices /\ \A d : Dps(d)' = Dps(d)
  <2>1. <<>> \in Seq(Reading)
    OBVIOUS
  <2> QED BY <1>1, <2>1 DEF StartDevice, Dps, Devices
<1>4. DOMAIN <<>> = {} /\ <<>> \in Seq(Block)
  OBVIOUS
<1>5. TypeOK'
  <2>1. next' \in 1..(Len(Dps(dev)) + 1)
    BY <1>2, <1>3
  <2>2. \A d \in Devices : \A k \in DOMAIN out'[d] :
          /\ out'[d][k].point \in DOMAIN Dps(d)
          /\ out'[d][k].quality = "GOOD" <=> out'[d][k].value # NoValue
    <3> TAKE d \in Devices
    <3>1. CASE d = dev
      <4> QED BY <1>3, <1>4, <3>1
    <3>2. CASE d # dev
      <4>1. out'[d] = out[d]
        BY <1>3, <3>2
      <4>2. \A k \in DOMAIN out[d] :
              /\ out[d][k].point \in DOMAIN Dps(d)
              /\ out[d][k].quality = "GOOD" <=> out[d][k].value # NoValue
        BY <1>1 DEF TypeOK
      <4> QED BY <4>1, <4>2
    <3> QED BY <3>1, <3>2
  <2>3. config \in Config /\ cancelled \in BOOLEAN
    BY <1>1 DEF TypeOK
  <2> QED BY <1>1, <1>3, <1>4, <2>1, <2>2, <2>3 DEF TypeOK
<1>6. Distinct(<<>>) /\ \A i : ~ Blocked(<<>>, i)
  BY <1>4 DEF Distinct, Blocked
<1>7. TakenInv'
  <2>1. 1..(1 - 1) = {}
    OBVIOUS
  <2> QED BY <1>3, <1>6, <2>1 DEF TakenInv
<1>8. OnceInv'
  BY <1>3, <1>4 DEF IndInv, OnceInv, Once
<1>9. CompleteInv'
  BY <1>1, <1>3 DEF IndInv, CompleteInv
<1>10. BlockInv' /\ LeftInv' /\ IdleInv'
  BY <1>3, <1>4 DEF BlockInv, LeftInv, IdleInv
<1> QED BY <1>3, <1>5, <1>6, <1>7, <1>8, <1>9, <1>10 DEF IndInv

(* The plan is finished: every point of the device is in one of its blocks. *)
LEMMA PlanDoneStep ==
  ASSUME IndInv, PlanDone
  PROVE  IndInv'
<1>1. dev \in Devices /\ TypeOK /\ pc = "plan" /\ next > Len(Dps(dev)) /\ out[dev] = <<>>
      /\ order \in Orders(Dps(dev)) /\ next \in 1..(Len(Dps(dev)) + 1)
  BY DEF IndInv, TypeOK, PlanDone, TakenInv
<1>2. Len(Dps(dev)) \in Nat /\ DOMAIN Dps(dev) = 1..Len(Dps(dev))
  BY <1>1, DpsType
<1>3. /\ blocks' = blocks /\ pc' = "read" /\ dev' = dev /\ out' = out
      /\ config' = config /\ cancelled' = cancelled
      /\ Devices' = Devices /\ \A d : Dps(d)' = Dps(d)
  BY DEF PlanDone, Dps, Devices
<1>4. LeftInv'
  <2>1. 1..(next - 1) = DOMAIN Dps(dev)
    BY <1>1, <1>2
  <2>2. \A i \in DOMAIN Dps(dev) : \E j \in 1..(next - 1) : order[j] = i
    BY <1>1, <2>1, OrderFacts
  <2>3. \A i \in DOMAIN Dps(dev) : Blocked(blocks, i)
    BY <1>1, <2>2 DEF IndInv, TakenInv
  <2>4. \A i : ~ Reported(<<>>, i)
    BY DEF Reported
  <2> QED BY <1>1, <1>3, <2>3, <2>4 DEF LeftInv
<1>5. TypeOK'
  BY <1>1, <1>3 DEF TypeOK
<1> QED BY <1>1, <1>3, <1>4, <1>5
     DEF IndInv, OnceInv, CompleteInv, TakenInv, IdleInv, BlockInv

(* The end of a turn: every block has been dealt with.                     *)
LEMMA DeviceDoneStep ==
  ASSUME IndInv, DeviceDone
  PROVE  IndInv'
<1>1. dev \in Devices /\ TypeOK /\ pc = "read" /\ blocks = <<>>
  BY DEF IndInv, TypeOK, DeviceDone
<1>2. Len(config.devices) \in Nat /\ Devices = 1..Len(config.devices)
  BY <1>1, DpsType
<1>3. NextDevice(dev) \in Devices
  <2> DEFINE n == Len(config.devices)
  <2>1. n \in Nat /\ n > 0 /\ dev \in 1..n
    BY <1>1, <1>2
  <2> HIDE DEF n
  <2>2. dev % n \in 0..(n - 1)
    BY <2>1
  <2>3. (dev % n) + 1 \in 1..n
    BY <2>1, <2>2
  <2> QED BY <1>2, <2>3 DEF NextDevice, n
<1>4. /\ blocks' = <<>> /\ pc' = "device" /\ dev' = NextDevice(dev) /\ out' = out
      /\ config' = config /\ cancelled' = cancelled
      /\ Devices' = Devices /\ \A d : Dps(d)' = Dps(d)
  BY <1>1 DEF DeviceDone, Dps, Devices
<1>5. DOMAIN <<>> = {} /\ <<>> \in Seq(Block)
  OBVIOUS
<1>6. CompleteInv'
  <2>1. \A i : ~ Blocked(blocks, i)
    BY <1>1, <1>5 DEF Blocked
  <2>2. \A i \in DOMAIN Dps(dev) : Reported(out[dev], i)
    BY <1>1, <2>1 DEF IndInv, LeftInv
  <2> QED BY <1>1, <1>4, <2>2 DEF IndInv, CompleteInv
<1>7. TypeOK'
  BY <1>1, <1>3, <1>4, <1>5 DEF TypeOK
<1>8. BlockInv' /\ Distinct(blocks')
  BY <1>4, <1>5 DEF BlockInv, Distinct
<1> QED BY <1>1, <1>4, <1>6, <1>7, <1>8
     DEF IndInv, OnceInv, TakenInv, IdleInv, LeftInv

(* The inductive invariant holds when the goroutine starts.                *)
LEMMA InitInd == Init => IndInv
<1> SUFFICES ASSUME Init PROVE IndInv
  OBVIOUS
<1>1. config \in Config /\ Len(config.devices) > 0 /\ config.devices \in Seq(Seq(Point))
  BY PollerAssumption DEF Init, Config
<1>2. 1 \in Devices
  BY <1>1 DEF Devices
<1>3. DOMAIN <<>> = {} /\ <<>> \in Seq(Block) /\ <<>> \in Seq(Reading)
  OBVIOUS
<1>4. out = [d \in Devices |-> <<>>] /\ blocks = <<>> /\ dev = 1 /\ pc = "build" /\ cancelled = FALSE
  BY DEF Init
<1>5. TypeOK
  BY <1>1, <1>2, <1>3, <1>4 DEF TypeOK
<1> QED BY <1>3, <1>4, <1>5
     DEF IndInv, IdleInv, BlockInv, Distinct, TakenInv, LeftInv, CompleteInv, OnceInv, Once

\* Steps outside a device's turn, that report nothing
LEMMA QuietStep ==
  ASSUME IndInv, BuildClient \/ Stop \/ ConnectOK \/ Retry
  PROVE  IndInv'
<1>1. /\ pc \in {"build", "connect", "offline", "device"}
      /\ pc' \in {"connect", "closed", "device"} /\ dev' \in {dev, 1}
      /\ config' = config /\ blocks' = blocks /\ out' = out /\ cancelled' = cancelled
  BY DEF BuildClient, Stop, ConnectOK, Retry
<1>2. TypeOK /\ dev \in Devices /\ blocks = <<>>
  BY <1>1 DEF IndInv, TypeOK, IdleInv
<1>3. 1 \in Devices
  BY <1>2, DpsType
<1>4. Devices' = Devices /\ \A d : Dps(d)' = Dps(d)
  BY <1>1 DEF Devices, Dps
<1>5. DOMAIN <<>> = {} /\ <<>> \in Seq(Block)
  OBVIOUS
<1>6. TypeOK'
  BY <1>1, <1>2, <1>3, <1>4, <1>5 DEF TypeOK
<1>7. BlockInv' /\ Distinct(blocks') /\ IdleInv' /\ TakenInv' /\ LeftInv'
  BY <1>1, <1>2, <1>5 DEF BlockInv, Distinct, IdleInv, TakenInv, LeftInv
<1>8. OnceInv' /\ CompleteInv'
  BY <1>1, <1>4 DEF IndInv, OnceInv, CompleteInv
<1> QED BY <1>1, <1>6, <1>7, <1>8 DEF IndInv

\* Cancel, and steps that change nothing, leave the invariant alone.
LEMMA CancelStep ==
  ASSUME IndInv, Cancel \/ UNCHANGED vars
  PROVE  IndInv'
<1>1. /\ config' = config /\ blocks' = blocks /\ out' = out /\ pc' = pc /\ dev' = dev
      /\ order' = order /\ next' = next /\ cancelled' \in BOOLEAN
  BY DEF Cancel, vars, IndInv, TypeOK
<1>2. Devices' = Devices /\ \A d : Dps(d)' = Dps(d)
  BY <1>1 DEF Devices, Dps
<1>3. TypeOK'
  BY <1>1, <1>2 DEF IndInv, TypeOK
<1> QED BY <1>1, <1>2, <1>3
     DEF IndInv, IdleInv, BlockInv, TakenInv, LeftInv, CompleteInv, OnceInv

(* A failed connect reports every point of every device once.              *)
LEMMA ConnectFailsStep ==
  ASSUME IndInv, NEW quality \in config.faults, ConnectFails(quality)
  PROVE  IndInv'
<1>1. TypeOK /\ dev \in Devices /\ pc = "connect" /\ blocks = <<>> /\ quality \in ErrorQuality
  BY DEF IndInv, TypeOK, IdleInv, ConnectFails, Config
<1>2. /\ pc' = "offline" /\ dev' = dev /\ config' = config /\ blocks' = blocks
      /\ cancelled' = cancelled /\ Devices' = Devices /\ \A d : Dps(d)' = Dps(d)
      /\ out' = [d \in Devices |-> BadReadings(AllPoints(d), quality, "fault")]
  BY DEF ConnectFails, ReportOffline, Devices, Dps
<1>3. ASSUME NEW d \in Devices
      PROVE  /\ out'[d] \in Seq(Reading) /\ DOMAIN out'[d] = DOMAIN Dps(d)
             /\ \A k \in DOMAIN Dps(d) : /\ out'[d][k].point = k /\ out'[d][k].quality # "GOOD"
                                         /\ out'[d][k].value = NoValue /\ out'[d][k].via = "fault"
  <2> DEFINE all == AllPoints(d)
  <2>1. Len(Dps(d)) \in Nat /\ DOMAIN Dps(d) = 1..Len(Dps(d))
    BY <1>1, DpsType
  <2>2. all \in Seq(Nat) /\ DOMAIN all = DOMAIN Dps(d) /\ \A k \in DOMAIN Dps(d) : all[k] = k
    BY <2>1 DEF AllPoints
  <2> HIDE DEF all
  <2>3. out'[d] = BadReadings(all, quality, "fault")
    BY <1>2 DEF all
  <2> QED BY <1>1, <2>2, <2>3, BadReadingsFacts
<1>4. TypeOK'
  <2>1. out' \in [Devices -> Seq(Reading)]
    BY <1>2, <1>3
  <2>2. \A d \in Devices : \A k \in DOMAIN out'[d] :
          /\ out'[d][k].point \in DOMAIN Dps(d)
          /\ out'[d][k].quality = "GOOD" <=> out'[d][k].value # NoValue
    BY <1>3
  <2> QED BY <1>1, <1>2, <2>1, <2>2 DEF TypeOK
<1>5. OnceInv'
  BY <1>2, <1>3 DEF OnceInv, Once
<1>6. CompleteInv'
  BY <1>2, <1>3 DEF CompleteInv, Reported
<1>7. BlockInv' /\ Distinct(blocks') /\ IdleInv' /\ TakenInv' /\ LeftInv'
  BY <1>1, <1>2 DEF IndInv, BlockInv, IdleInv, TakenInv, LeftInv
<1> QED BY <1>4, <1>5, <1>6, <1>7 DEF IndInv

\* The first block, while there is one
LEMMA HeadFacts ==
  ASSUME IndInv, blocks # <<>>
  PROVE  /\ Head(blocks) = blocks[1] /\ 1 \in DOMAIN blocks /\ Head(blocks) \in Block
         /\ BlockOK(Dps(dev), Head(blocks)) /\ Head(blocks).points \in Seq(Nat)
<1>1. blocks \in Seq(Block)
  BY DEF IndInv, TypeOK
<1>2. Head(blocks) = blocks[1] /\ 1 \in DOMAIN blocks
  BY <1>1
<1>3. BlockOK(Dps(dev), Head(blocks))
  BY <1>2 DEF IndInv, BlockInv
<1> QED BY <1>2, <1>3, BlockFacts DEF BlockOK

\* A block that fails or is refused emits bad readings.
LEMMA BadEmitted ==
  ASSUME IndInv, pc = "read", blocks # <<>>, NEW quality \in ErrorQuality,
         NEW via \in {"reply", "hole", "fault"},
         out' = [out EXCEPT ![dev] = @ \o BadReadings(Head(blocks).points, quality, via)],
         blocks' = Tail(blocks), UNCHANGED <<config, cancelled, pc, dev, order, next>>
  PROVE  Emitted(BadReadings(Head(blocks).points, quality, via))
<1> DEFINE bl == Head(blocks)
           r == BadReadings(bl.points, quality, via)
<1>1. bl.points \in Seq(Nat)
  BY HeadFacts
<1>2. ReadingsOf(bl, r)
  <2> HIDE DEF bl
  <2> QED BY <1>1, BadReadingsFacts DEF ReadingsOf
<1> QED BY <1>2 DEF Emitted

\* A reply emits what is decoded from it.
ReplyReadings ==
  LET block == Head(blocks)
      decoded(i) == Decode(Dps(dev)[i], RawReply(block), block.start)
  IN  [k \in DOMAIN block.points |->
         [point |-> block.points[k], quality |-> decoded(block.points[k]).quality,
          value |-> decoded(block.points[k]).value, via |-> "reply"]]

(* The readings of a reply are those of the points of its block.           *)
LEMMA ReplyEmitted ==
  ASSUME IndInv, BlockRead
  PROVE  Emitted(ReplyReadings)
<1> DEFINE bl == Head(blocks)
           decoded(i) == Decode(Dps(dev)[i], RawReply(bl), bl.start)
           r == ReplyReadings
<1>1. blocks # <<>> /\ pc = "read"
  BY DEF BlockRead
<1>2. bl \in Block /\ BlockOK(Dps(dev), bl) /\ bl.points \in Seq(Nat)
  BY <1>1, HeadFacts
<1>3. TypeOK /\ dev \in Devices
  BY DEF IndInv, TypeOK
<1>4. Dps(dev) \in Seq(Point)
  BY <1>3, DpsType
<1>5. RawReply(bl) \in Seq(Int \X Int) /\ bl.start \in Int
  BY <1>2, RawReplyFacts, BlockFacts
<1>6. r = [k \in DOMAIN bl.points |->
             [point |-> bl.points[k], quality |-> decoded(bl.points[k]).quality,
              value |-> decoded(bl.points[k]).value, via |-> "reply"]]
  BY DEF ReplyReadings
<1> HIDE DEF bl, decoded, r
<1>7. ASSUME NEW k \in DOMAIN bl.points
      PROVE  /\ bl.points[k] \in Nat
             /\ decoded(bl.points[k]).quality \in {"GOOD", "INVALID"}
             /\ decoded(bl.points[k]).value \in Seq(Int \X Int)
             /\ decoded(bl.points[k]).quality = "GOOD" <=> decoded(bl.points[k]).value # NoValue
  <2>1. bl.points[k] \in DOMAIN Dps(dev) /\ bl.points[k] \in Nat
    BY <1>2 DEF BlockOK
  <2>2. Dps(dev)[bl.points[k]] \in Point
    BY <1>4, <2>1
  <2> QED BY <1>5, <2>1, <2>2, DecodeFacts DEF decoded
<1>8. DOMAIN bl.points = 1..Len(bl.points) /\ Len(bl.points) \in Nat
  BY <1>2
<1>9. \A k \in DOMAIN bl.points :
        /\ r[k].point = bl.points[k] /\ r[k] \in Reading
        /\ r[k].quality = "GOOD" <=> r[k].value # NoValue
  BY <1>6, <1>7 DEF Reading, ErrorQuality
<1>10. r \in Seq(Reading) /\ DOMAIN r = DOMAIN bl.points
  BY <1>6, <1>8, <1>9, SMTT(30)
<1>11. ReadingsOf(bl, r)
  BY <1>9, <1>10 DEF ReadingsOf
<1> QED BY <1>1, <1>11 DEF Emitted, BlockRead, ReplyReadings, r, bl

\* A request that fails: the quality is the error's, or INVALID once ctx is done.
LEMMA FailEmitted ==
  ASSUME IndInv, NEW quality \in config.faults, BlockFails(quality)
  PROVE  \E q \in ErrorQuality : Emitted(BadReadings(Head(blocks).points, q, "fault"))
<1> DEFINE q == IF cancelled THEN "INVALID" ELSE quality
<1>1. q \in ErrorQuality
  BY DEF IndInv, TypeOK, Config, ErrorQuality
<1>2. /\ pc = "read" /\ blocks # <<>> /\ blocks' = Tail(blocks)
      /\ out' = [out EXCEPT ![dev] = @ \o BadReadings(Head(blocks).points, q, "fault")]
      /\ UNCHANGED <<config, cancelled, pc, dev, order, next>>
  BY DEF BlockFails, GoOn
<1> HIDE DEF q
<1> QED BY <1>1, <1>2, BadEmitted

\* A request that is refused
LEMMA RefuseEmitted ==
  ASSUME IndInv, BlockRefused
  PROVE  LET hole == Registers(Head(blocks)) \cap config.missing # {}
         IN  Emitted(BadReadings(Head(blocks).points, "INVALID", IF hole THEN "hole" ELSE "reply"))
<1> DEFINE via == IF Registers(Head(blocks)) \cap config.missing # {} THEN "hole" ELSE "reply"
<1>1. via \in {"reply", "hole", "fault"} /\ "INVALID" \in ErrorQuality
  BY DEF ErrorQuality
<1>2. /\ pc = "read" /\ blocks # <<>> /\ blocks' = Tail(blocks)
      /\ out' = [out EXCEPT ![dev] = @ \o BadReadings(Head(blocks).points, "INVALID", via)]
      /\ UNCHANGED <<config, cancelled, pc, dev, order, next>>
  BY DEF BlockRefused, GoOn
<1> HIDE DEF via
<1>3. Emitted(BadReadings(Head(blocks).points, "INVALID", via))
  BY <1>1, <1>2, BadEmitted
<1> QED BY <1>3 DEF via

\* Every step keeps the invariant.
LEMMA NextInd ==
  ASSUME IndInv, [Next]_vars
  PROVE  IndInv'
<1>1. \A readings : Emitted(readings) => IndInv'
  BY EmitStep
<1>2. CASE BuildClient \/ Stop \/ ConnectOK \/ Retry
  BY <1>2, QuietStep
<1>3. CASE Cancel \/ UNCHANGED vars
  BY <1>3, CancelStep
<1>4. CASE StartDevice
  BY <1>4, StartDeviceStep
<1>5. CASE PlanPoint
  BY <1>5, PlanPointStep
<1>6. CASE PlanDone
  BY <1>6, PlanDoneStep
<1>7. CASE BlockRefused
  BY <1>1, <1>7, RefuseEmitted
<1>8. CASE BlockRead
  BY <1>1, <1>8, ReplyEmitted
<1>9. CASE DeviceDone
  BY <1>9, DeviceDoneStep
<1>10. CASE \E quality \in config.faults : ConnectFails(quality) \/ BlockFails(quality)
  BY <1>1, <1>10, ConnectFailsStep, FailEmitted
<1> QED BY <1>2, <1>3, <1>4, <1>5, <1>6, <1>7, <1>8, <1>9, <1>10 DEF Next, Step

\* The invariant holds in every state of every behaviour.
LEMMA Invariance == Spec => []IndInv
<1>1. IndInv /\ [Next]_vars => IndInv'
  BY NextInd
<1> QED BY <1>1, InitInd, PTL DEF Spec

-----------------------------------------------------------------------------
(* Type correctness, and one reading for each point.                       *)

\* The poller's state keeps its type: while planBlockReads runs, order is one of
\* the orders it may come by the points, blocks name points of the device whose
\* turn it is only, and a reading has a value just if its quality is GOOD.
THEOREM TypeCorrect == Spec => []TypeOK
<1>1. IndInv => TypeOK
  BY DEF IndInv
<1> QED BY <1>1, Invariance, PTL

\* 1..n has n elements.
LEMMA IntervalSize ==
  ASSUME NEW n \in Nat
  PROVE  IsFiniteSet(1..n) /\ Cardinality(1..n) = n
<1>1. 1 \in Int /\ n \in Int
  OBVIOUS
<1>2. IsFiniteSet(1..n) /\ Cardinality(1..n) = IF 1 > n THEN 0 ELSE n - 1 + 1
  BY <1>1, FS_Interval, Zenon
<1> QED BY <1>2

\* Readings that name every point, and none twice, are as many as the points.
LEMMA CountReadings ==
  ASSUME NEW n \in Nat, NEW readings \in Seq(Reading), Once(readings),
         \A k \in DOMAIN readings : readings[k].point \in 1..n,
         \A i \in 1..n : Reported(readings, i)
  PROVE  Len(readings) = n /\ {readings[k].point : k \in DOMAIN readings} = 1..n
<1> DEFINE m == Len(readings)
           f == [k \in 1..m |-> readings[k].point]
<1>1. m \in Nat /\ DOMAIN readings = 1..m
  OBVIOUS
<1>2. f \in [1..m -> 1..n] /\ \A k \in 1..m : f[k] = readings[k].point
  BY <1>1
<1> HIDE DEF f
<1>3. f \in Injection(1..m, 1..n)
  BY <1>1, <1>2 DEF Injection, IsInjective, Once
<1>4. f \in Surjection(1..m, 1..n)
  BY <1>1, <1>2 DEF Surjection, Reported
<1>5. IsFiniteSet(1..n) /\ Cardinality(1..n) = n /\ Cardinality(1..m) = m
  BY <1>1, IntervalSize
<1>6. Cardinality(1..m) = Cardinality(1..n)
  <2> DEFINE M == 1..m
             N == 1..n
  <2> HIDE DEF M, N
  <2>1. f \in Injection(M, N) /\ f \in Surjection(M, N) /\ IsFiniteSet(N)
    BY <1>3, <1>4, <1>5 DEF M, N
  <2>2. Cardinality(M) = Cardinality(N)
    BY <2>1, FS_Injection
  <2> QED BY <2>2 DEF M, N
<1>7. {readings[k].point : k \in DOMAIN readings} = 1..n
  BY DEF Reported
<1> QED BY <1>5, <1>6, <1>7

\* However points are merged, and whatever is refused, fails or is cancelled in
\* between: a device's turn (readDevice) that has read its last block, and a
\* failed Connect (emitDeviceOffline), have emitted one reading for each enabled
\* data point, for any devices with any number of points.
THEOREM OneReading == Spec => []OneReadingPerPoint
<1>1. ASSUME IndInv PROVE OneReadingPerPoint
  <2> SUFFICES ASSUME NEW d \in Devices
               PROVE  \/ pc = "read" /\ d = dev /\ blocks # <<>>
                      \/ out[d] = <<>> /\ pc # "offline" /\ ~ (pc = "read" /\ d = dev)
                      \/ /\ Len(out[d]) = Len(Dps(d))
                         /\ {out[d][k].point : k \in DOMAIN out[d]} = DOMAIN Dps(d)
    BY DEF OneReadingPerPoint
  <2>1. TypeOK /\ out[d] \in Seq(Reading) /\ Once(out[d])
        /\ \A k \in DOMAIN out[d] : out[d][k].point \in DOMAIN Dps(d)
    BY <1>1 DEF IndInv, TypeOK, OnceInv
  <2>2. Len(Dps(d)) \in Nat /\ DOMAIN Dps(d) = 1..Len(Dps(d))
    BY <2>1, DpsType
  <2>3. CASE \A i \in DOMAIN Dps(d) : Reported(out[d], i)
    BY <2>1, <2>2, <2>3, CountReadings
  <2>4. CASE pc = "read" /\ d = dev
    <3>1. CASE blocks # <<>>
      BY <2>4, <3>1
    <3>2. CASE blocks = <<>>
      <4>1. \A i : ~ Blocked(blocks, i)
        BY <3>2 DEF Blocked
      <4>2. \A i \in DOMAIN Dps(d) : Reported(out[d], i)
        BY <1>1, <2>4, <4>1 DEF IndInv, LeftInv
      <4> QED BY <2>3, <4>2
    <3> QED BY <3>1, <3>2
  <2>5. CASE pc = "plan" /\ d = dev
    BY <1>1, <2>5 DEF IndInv, TakenInv
  <2> QED BY <1>1, <2>3, <2>4, <2>5 DEF IndInv, CompleteInv
<1> QED BY <1>1, Invariance, PTL

-----------------------------------------------------------------------------
(* A point's value is that of a request of its own.                        *)

\* Two bytes to a register: shifting by whole registers keeps the half.
LEMMA Halves ==
  ASSUME NEW a \in Nat, NEW j \in Nat
  PROVE  (2 * a + j) \div 2 = a + (j \div 2) /\ (2 * a + j) % 2 = j % 2
OBVIOUS

\* The bytes cut out of a block's reply are those of the point's registers.
LEMMA OwnFacts ==
  ASSUME NEW bl \in Block, ~ BitWide(bl.fc), NEW dp \in Point,
         bl.start <= dp.addr, End(dp) <= bl.start + bl.quantity
  PROVE  LET raw == RawReply(bl)
             offset == OffsetOf(dp, bl.start)
             own == SubSeq(raw, offset + 1, offset + 2 * dp.width)
         IN  /\ offset \in Nat /\ offset + 2 * dp.width <= Len(raw)
             /\ own \in Seq(Int \X Int) /\ Len(own) = 2 * dp.width
             /\ \A j \in 1..(2 * dp.width) : own[j] = <<dp.addr + ((j - 1) \div 2), (j - 1) % 2>>
<1> DEFINE raw == RawReply(bl)
           offset == OffsetOf(dp, bl.start)
           own == SubSeq(raw, offset + 1, offset + 2 * dp.width)
           a == dp.addr - bl.start
           w == dp.width
<1>1. /\ dp.addr \in Nat /\ w \in Nat /\ w >= 1 /\ End(dp) = dp.addr + w /\ dp.addr < W
  BY PointFacts DEF End
<1>2. bl.start \in Nat /\ bl.quantity \in Nat
  BY BlockFacts
<1>3. /\ raw \in Seq(Int \X Int) /\ Len(raw) = 2 * bl.quantity
      /\ \A k \in 1..(2 * bl.quantity) : raw[k] = <<bl.start + ((k - 1) \div 2), (k - 1) % 2>>
  <2>1. /\ raw \in Seq(Int \X Int) /\ Len(raw) = 2 * bl.quantity
        /\ \A k \in 1..(2 * bl.quantity) : raw[k] = <<bl.start + (k - 1) \div 2, (k - 1) % 2>>
    BY RawReplyFacts, Zenon
  <2> QED BY <2>1
<1>4. a \in Nat /\ a < W /\ a + w <= bl.quantity /\ dp.addr = bl.start + a
  BY <1>1, <1>2, BlockPlanAssumption
<1>5. offset = 2 * a
  <2>1. a % W = a
    <3> HIDE DEF a
    <3> QED BY <1>4, Wrapped
  <2> QED BY <2>1 DEF OffsetOf
<1> HIDE DEF raw, offset, a, w
<1> DEFINE m == 2 * a + 1
           n == 2 * a + 2 * w
           cut == SubSeq(raw, m, n)
<1>6. m \in Int /\ n \in Int /\ 1 <= m /\ m <= n /\ n <= 2 * bl.quantity /\ n - m + 1 = 2 * w
  BY <1>1, <1>2, <1>4
<1>7. own = cut
  BY <1>5 DEF w
<1> HIDE DEF own, m, n
<1>8. \A k \in m..n : raw[k] \in Int \X Int
  <2>1. \A k \in m..n : k \in 1..Len(raw)
    BY <1>2, <1>3, <1>6
  <2> QED BY <1>3, <2>1
<1>9. /\ cut \in Seq(Int \X Int) /\ Len(cut) = n - m + 1
      /\ \A j \in 1..(n - m + 1) : cut[j] = raw[m + j - 1]
  <2>1. /\ cut \in Seq(Int \X Int) /\ Len(cut) = IF m <= n THEN n - m + 1 ELSE 0
        /\ \A j \in 1..(n - m + 1) : cut[j] = raw[m + j - 1]
    <3> DEFINE S == Int \X Int
    <3> HIDE DEF S
    <3>1. \A k \in m..n : raw[k] \in S
      BY <1>8 DEF S
    <3>2. /\ cut \in Seq(S) /\ Len(cut) = IF m <= n THEN n - m + 1 ELSE 0
          /\ \A j \in 1..(n - m + 1) : cut[j] = raw[m + j - 1]
      BY <1>6, <3>1, SubSeqProperties
    <3> QED BY <3>2 DEF S
  <2> QED BY <1>6, <2>1
<1>10. ASSUME NEW j \in 1..(2 * w)
       PROVE  cut[j] = <<dp.addr + ((j - 1) \div 2), (j - 1) % 2>>
  <2> DEFINE k == m + j - 1
             i == j - 1
  <2>1. i \in Nat /\ k - 1 = 2 * a + i /\ k \in 1..(2 * bl.quantity) /\ j \in 1..(n - m + 1)
    BY <1>1, <1>2, <1>4, <1>6 DEF m
  <2>2. (2 * a + i) \div 2 = a + (i \div 2) /\ (2 * a + i) % 2 = i % 2
    <3> HIDE DEF i
    <3> QED BY <1>4, <2>1, Halves
  <2>3. raw[k] = <<bl.start + ((k - 1) \div 2), (k - 1) % 2>> /\ cut[j] = raw[k]
    BY <1>3, <1>9, <2>1
  <2>4. i \div 2 \in Int
    BY <2>1
  <2> DEFINE h == i \div 2
  <2>5. bl.start + (a + h) = dp.addr + h
    <3> HIDE DEF h
    <3> QED BY <1>2, <1>4, <2>4 DEF h
  <2> QED BY <2>1, <2>2, <2>3, <2>5
<1>11. offset \in Nat /\ offset + 2 * w <= Len(raw) /\ own \in Seq(Int \X Int) /\ Len(own) = 2 * w
  BY <1>1, <1>3, <1>4, <1>5, <1>6, <1>7, <1>9 DEF n
<1>12. \A j \in 1..(2 * w) : own[j] = <<dp.addr + ((j - 1) \div 2), (j - 1) % 2>>
  BY <1>7, <1>10
<1> QED BY <1>11, <1>12 DEF own, raw, offset, w

\* A point that its block holds is decoded as from a request of its own.
LEMMA HeldDecode ==
  ASSUME NEW dps \in Seq(Point), NEW i \in DOMAIN dps, NEW bl \in Block, ~ BitWide(bl.fc),
         bl.fc = dps[i].fc, bl.start <= dps[i].addr, End(dps[i]) <= bl.start + bl.quantity,
         End(dps[i]) <= W
  PROVE  Decode(dps[i], RawReply(bl), bl.start) = Dedicated(dps, i)
<1> DEFINE dp == dps[i]
           one == NewBlock(dps, i)
           own(b) == SubSeq(RawReply(b), OffsetOf(dp, b.start) + 1, OffsetOf(dp, b.start) + 2 * dp.width)
<1>1. dp \in Point /\ End(dp) \in Nat /\ End(dp) = dp.addr + dp.width /\ dp.addr \in Nat /\ dp.width \in Nat
  BY PointFacts DEF End
<1>2. one \in Block /\ one.fc = dp.fc /\ one.start = dp.addr /\ one.quantity = dp.width
  BY NewBlockOK DEF BlockOK
<1> HIDE DEF one, dp
<1>3. Dedicated(dps, i) = Decode(dp, RawReply(one), one.start)
  <2>1. ~ (dps[i].addr + dps[i].width > W)
    BY <1>1, BlockPlanAssumption DEF dp
  <2> QED BY <1>2, <2>1 DEF Dedicated, dp, one
<1>4. /\ OffsetOf(dp, bl.start) + 2 * dp.width <= Len(RawReply(bl))
      /\ own(bl) \in Seq(Int \X Int) /\ Len(own(bl)) = 2 * dp.width
      /\ \A j \in 1..(2 * dp.width) : own(bl)[j] = <<dp.addr + ((j - 1) \div 2), (j - 1) % 2>>
      /\ OffsetOf(dp, bl.start) \in Nat
  BY <1>1, OwnFacts DEF dp
<1>5. /\ OffsetOf(dp, one.start) + 2 * dp.width <= Len(RawReply(one))
      /\ own(one) \in Seq(Int \X Int) /\ Len(own(one)) = 2 * dp.width
      /\ \A j \in 1..(2 * dp.width) : own(one)[j] = <<dp.addr + ((j - 1) \div 2), (j - 1) % 2>>
      /\ OffsetOf(dp, one.start) \in Nat
  <2>1. one.start <= dp.addr /\ End(dp) <= one.start + one.quantity /\ ~ BitWide(one.fc)
    BY <1>1, <1>2 DEF dp
  <2> QED BY <1>1, <1>2, <2>1, OwnFacts
<1> HIDE DEF own
<1>6. own(bl) = own(one)
  <2> DEFINE x == own(bl)
             y == own(one)
             S == Int \X Int
  <2> HIDE DEF x, y, S
  <2>1. x \in Seq(S) /\ y \in Seq(S) /\ Len(x) = Len(y) /\ \A j \in 1..Len(x) : x[j] = y[j]
    BY <1>4, <1>5 DEF x, y, S
  <2>2. x = y
    BY <2>1, SeqEqual
  <2> QED BY <2>2 DEF x, y
<1>7. \A b : Decode(dp, RawReply(b), b.start) =
        IF OffsetOf(dp, b.start) + 2 * dp.width > Len(RawReply(b)) \/ ~ OrderFits(own(b), dp.order)
        THEN Bad("INVALID") ELSE [quality |-> "GOOD", value |-> Reorder(own(b), dp.order)]
  BY DEF Decode, own
<1>8. Len(RawReply(bl)) \in Nat /\ Len(RawReply(one)) \in Nat
  <2>1. RawReply(bl) \in Seq(Int \X Int) /\ RawReply(one) \in Seq(Int \X Int)
    BY <1>2, RawReplyFacts
  <2> QED BY <2>1
<1>9. /\ ~ (OffsetOf(dp, bl.start) + 2 * dp.width > Len(RawReply(bl)))
      /\ ~ (OffsetOf(dp, one.start) + 2 * dp.width > Len(RawReply(one)))
  <2>1. \A x, y \in Int : x <= y => ~ (x > y)
    OBVIOUS
  <2>2. /\ OffsetOf(dp, bl.start) + 2 * dp.width \in Int
        /\ OffsetOf(dp, one.start) + 2 * dp.width \in Int
    <3>1. OffsetOf(dp, bl.start) \in Nat /\ OffsetOf(dp, one.start) \in Nat
      BY <1>4, <1>5
    <3> QED BY <1>1, <3>1
  <2>3. Len(RawReply(bl)) \in Int /\ Len(RawReply(one)) \in Int
    BY <1>8
  <2> QED BY <1>4, <1>5, <2>1, <2>2, <2>3, Zenon
<1>10. Decode(dp, RawReply(bl), bl.start) = Decode(dp, RawReply(one), one.start)
  <2> DEFINE D(o) == IF ~ OrderFits(o, dp.order) THEN Bad("INVALID")
                     ELSE [quality |-> "GOOD", value |-> Reorder(o, dp.order)]
  <2>1. Decode(dp, RawReply(bl), bl.start) = D(own(bl))
    BY <1>7, <1>9
  <2>2. Decode(dp, RawReply(one), one.start) = D(own(one))
    BY <1>7, <1>9
  <2> QED BY <1>6, <2>1, <2>2
<1> QED BY <1>3, <1>10 DEF dp

\* A point that wraps round the address range is INVALID, in a block as alone.
LEMMA WrappingDecode ==
  ASSUME NEW dps \in Seq(Point), NEW i \in DOMAIN dps, NEW bl \in Block, ~ BitWide(bl.fc),
         bl.start <= dps[i].addr, bl.start + bl.quantity < W, End(dps[i]) > W
  PROVE  Decode(dps[i], RawReply(bl), bl.start) = Dedicated(dps, i)
<1> DEFINE dp == dps[i]
           offset == OffsetOf(dp, bl.start)
           a == dp.addr - bl.start
<1>1. /\ dp \in Point /\ End(dp) = dp.addr + dp.width /\ dp.addr \in Nat /\ dp.width \in Nat
      /\ dp.addr < W
  BY PointFacts DEF End
<1>2. bl.start \in Nat /\ bl.quantity \in Nat /\ W \in Nat
  BY BlockFacts, BlockPlanAssumption
<1>3. a \in Nat /\ a < W /\ 2 * a + 2 * dp.width > 2 * bl.quantity
  <2>1. dp.addr + dp.width > W /\ bl.start <= dp.addr
    BY <1>1
  <2> HIDE DEF dp
  <2>2. a \in Nat /\ a < W
    BY <1>1, <1>2, <2>1
  <2>3. dp.addr = bl.start + a
    BY <1>1, <1>2
  <2> HIDE DEF a
  <2>4. a + dp.width > bl.quantity
    BY <1>1, <1>2, <2>1, <2>2, <2>3
  <2> QED BY <1>1, <1>2, <2>2, <2>4
<1>4. offset = 2 * a
  <2>1. a % W = a
    <3> HIDE DEF a
    <3> QED BY <1>3, Wrapped
  <2> QED BY <2>1 DEF OffsetOf
<1>5. Len(RawReply(bl)) = 2 * bl.quantity
  BY RawReplyFacts
<1>6. Dedicated(dps, i) = Bad("INVALID")
  BY <1>1 DEF Dedicated
<1>7. offset + 2 * dp.width > Len(RawReply(bl))
  <2> HIDE DEF offset, a
  <2> QED BY <1>3, <1>4, <1>5
<1> QED BY <1>6, <1>7 DEF Decode

\* A reading is what a request of its own would have brought, if the device
\* answered and the point does not end with the last register.
AsAlone(dps, r) ==
  r.via = "reply" /\ DpEnd(dps[r.point]) # 0 =>
    [quality |-> r.quality, value |-> r.value] = Dedicated(dps, r.point)

\* What is decoded from the reply to a planned block, within the address range
LEMMA BlockDecode ==
  ASSUME NEW dps \in Seq(Point), NEW bl, BlockOK(dps, bl), bl.start + bl.quantity <= W,
         NEW n \in DOMAIN bl.points, DpEnd(dps[bl.points[n]]) # 0
  PROVE  Decode(dps[bl.points[n]], RawReply(bl), bl.start) = Dedicated(dps, bl.points[n])
<1> DEFINE i == bl.points[n]
<1>1. bl \in Block /\ i \in DOMAIN dps /\ bl.fc = dps[i].fc
  BY DEF BlockOK
<1>2. /\ bl.start \in Nat /\ bl.quantity \in Nat /\ bl.points \in Seq(Nat) /\ W \in Nat
  BY <1>1, BlockFacts, BlockPlanAssumption
<1>3. End(dps[i]) \in Nat /\ End(dps[i]) # W /\ End(dps[i]) = dps[i].addr + dps[i].width
  <2>1. dps[i] \in Point /\ DpEnd(dps[i]) # 0
    BY <1>1
  <2> HIDE DEF i
  <2> QED BY <2>1, PointFacts DEF End
<1>4. CASE Alone(dps, bl)
  <2>1. bl.points = <<bl.points[1]>>
    BY <1>4 DEF Alone, NewBlock
  <2>2. n = 1
    BY <2>1
  <2>3. bl = NewBlock(dps, i)
    BY <1>4, <2>2 DEF Alone
  <2>4. bl.start = dps[i].addr /\ bl.quantity = dps[i].width
    BY <2>3 DEF NewBlock
  <2>5. ~ (dps[i].addr + dps[i].width > W)
    BY <1>2, <2>4
  <2> HIDE DEF i
  <2> QED BY <2>3, <2>4, <2>5 DEF Dedicated, i
<1>5. CASE ~ BitWide(bl.fc) /\ Holds(dps, bl)
  <2>1. /\ bl.start + bl.quantity < W /\ bl.start <= dps[i].addr
        /\ End(dps[i]) < W => End(dps[i]) <= bl.start + bl.quantity
    BY <1>5 DEF Holds
  <2>2. CASE End(dps[i]) < W
    BY <1>1, <1>2, <1>3, <1>5, <2>1, <2>2, HeldDecode, SMTT(30)
  <2>3. CASE End(dps[i]) > W
    BY <1>1, <1>5, <2>1, <2>3, WrappingDecode
  <2> QED BY <1>2, <1>3, <2>2, <2>3
<1> QED BY <1>4, <1>5 DEF BlockOK

\* A block that reaches beyond the address range serves one point, that does.
LEMMA BeyondIsAlone ==
  ASSUME NEW dps \in Seq(Point), NEW bl, BlockOK(dps, bl), bl.start + bl.quantity > W,
         NEW n \in DOMAIN bl.points
  PROVE  Dedicated(dps, bl.points[n]) = Bad("INVALID")
<1>1. bl \in Block
  BY DEF BlockOK
<1>2. bl.start \in Nat /\ bl.quantity \in Nat /\ W \in Nat
  BY <1>1, BlockFacts, BlockPlanAssumption
<1>3. Alone(dps, bl)
  BY <1>2 DEF BlockOK, Holds
<1>4. bl.points = <<bl.points[1]>>
  BY <1>3 DEF Alone, NewBlock
<1>5. n = 1
  BY <1>4
<1>6. bl.start = dps[bl.points[n]].addr /\ bl.quantity = dps[bl.points[n]].width
  BY <1>3, <1>5 DEF Alone, NewBlock
<1> QED BY <1>6 DEF Dedicated

\* The readings of a reply are right.
LEMMA ReplyRight ==
  ASSUME IndInv, BlockRead
  PROVE  \A n \in DOMAIN ReplyReadings : AsAlone(Dps(dev), ReplyReadings[n])
<1> DEFINE bl == Head(blocks)
           dps == Dps(dev)
           r == ReplyReadings
<1>1. blocks # <<>> /\ Registers(bl) \subseteq Addresses
  BY DEF BlockRead
<1>2. bl \in Block /\ BlockOK(dps, bl)
  BY <1>1, HeadFacts
<1>3. TypeOK /\ dev \in Devices
  BY DEF IndInv, TypeOK
<1>4. dps \in Seq(Point)
  BY <1>3, DpsType
<1>5. bl.start \in Nat /\ bl.quantity \in Nat /\ bl.quantity >= 1 /\ W \in Nat
  BY <1>2, BlockFacts, BlockPlanAssumption
<1>6. bl.start + bl.quantity <= W
  <2>1. bl.start + bl.quantity - 1 \in Registers(bl)
    BY <1>5 DEF Registers
  <2> QED BY <1>1, <1>5, <2>1 DEF Addresses
<1>7. r = [k \in DOMAIN bl.points |->
             [point |-> bl.points[k],
              quality |-> Decode(dps[bl.points[k]], RawReply(bl), bl.start).quality,
              value |-> Decode(dps[bl.points[k]], RawReply(bl), bl.start).value, via |-> "reply"]]
  BY DEF ReplyReadings
<1> HIDE DEF r, bl, dps
<1>8. ASSUME NEW n \in DOMAIN r PROVE AsAlone(dps, r[n])
  <2> DEFINE i == bl.points[n]
             v == Decode(dps[i], RawReply(bl), bl.start)
  <2>1. n \in DOMAIN bl.points /\ r[n].point = i /\ r[n].quality = v.quality /\ r[n].value = v.value
    BY <1>7, <1>8
  <2>2. i \in DOMAIN dps
    BY <1>2, <2>1 DEF BlockOK
  <2>3. dps[i] \in Point
    BY <1>4, <2>2
  <2>4. RawReply(bl) \in Seq(Int \X Int) /\ bl.start \in Int
    BY <1>2, <1>5, RawReplyFacts
  <2>5. v = [quality |-> v.quality, value |-> v.value]
    BY <2>3, <2>4, DecodeFacts
  <2>6. DpEnd(dps[i]) # 0 => v = Dedicated(dps, i)
    BY <1>2, <1>4, <1>6, <2>1, BlockDecode
  <2> HIDE DEF v, i
  <2> QED BY <2>1, <2>5, <2>6 DEF AsAlone
<1> QED BY <1>8 DEF r, dps

\* So are those of a refusal that is not for a missing register.
LEMMA RefuseRight ==
  ASSUME IndInv, BlockRefused
  PROVE  LET hole == Registers(Head(blocks)) \cap config.missing # {}
             r == BadReadings(Head(blocks).points, "INVALID", IF hole THEN "hole" ELSE "reply")
         IN  \A n \in DOMAIN r : AsAlone(Dps(dev), r[n])
<1> DEFINE bl == Head(blocks)
           dps == Dps(dev)
           via == IF Registers(bl) \cap config.missing # {} THEN "hole" ELSE "reply"
           r == BadReadings(bl.points, "INVALID", via)
<1>1. blocks # <<>> /\ (via = "reply" => ~ Registers(bl) \subseteq Addresses)
  BY DEF BlockRefused
<1>2. bl \in Block /\ BlockOK(dps, bl) /\ bl.points \in Seq(Nat)
  BY <1>1, HeadFacts
<1>3. TypeOK /\ dev \in Devices
  BY DEF IndInv, TypeOK
<1>4. dps \in Seq(Point)
  BY <1>3, DpsType
<1>5. bl.start \in Nat /\ bl.quantity \in Nat /\ bl.quantity >= 1 /\ W \in Nat
  BY <1>2, BlockFacts, BlockPlanAssumption
<1>6. via = "reply" => bl.start + bl.quantity > W
  <2> SUFFICES ASSUME bl.start + bl.quantity <= W PROVE Registers(bl) \subseteq Addresses
    BY <1>1, <1>5
  <2> QED BY <1>5 DEF Registers, Addresses
<1>7. via \in {"reply", "hole", "fault"} /\ "INVALID" \in ErrorQuality
  BY DEF ErrorQuality
<1> HIDE DEF bl, dps, via
<1>8. /\ DOMAIN r = DOMAIN bl.points
      /\ \A k \in DOMAIN bl.points : /\ r[k].point = bl.points[k] /\ r[k].value = NoValue
                                     /\ r[k].quality = "INVALID" /\ r[k].via = via
  BY <1>2, <1>7, BadReadingsFacts
<1> HIDE DEF r
<1>9. ASSUME NEW n \in DOMAIN r, r[n].via = "reply"
      PROVE  Dedicated(dps, r[n].point) = Bad("INVALID")
  <2>1. n \in DOMAIN bl.points /\ r[n].point = bl.points[n] /\ via = "reply"
    BY <1>8, <1>9
  <2> QED BY <1>2, <1>4, <1>6, <2>1, BeyondIsAlone
<1>10. \A n \in DOMAIN r : AsAlone(dps, r[n])
  BY <1>8, <1>9 DEF AsAlone, Bad
<1> QED BY <1>10 DEF r, dps, via, bl

\* Right readings added to right ones
LEMMA EmitRight ==
  ASSUME IndInv, AsDedicatedBelowTop, NEW readings, Emitted(readings),
         \A n \in DOMAIN readings : AsAlone(Dps(dev), readings[n])
  PROVE  AsDedicatedBelowTop'
<1>1. /\ \A d \in Devices : d # dev => out'[d] = out[d]
      /\ \A k \in DOMAIN out'[dev] :
           \/ k \in DOMAIN out[dev] /\ out'[dev][k] = out[dev][k]
           \/ \E n \in DOMAIN readings : out'[dev][k] = readings[n]
  BY EmitStep
<1>2. Devices' = Devices /\ \A d : Dps(d)' = Dps(d)
  BY DEF Emitted, Devices, Dps
<1>3. dev \in Devices
  BY DEF IndInv, TypeOK
<1>4. \A d \in Devices : \A k \in DOMAIN out[d] : AsAlone(Dps(d), out[d][k])
  BY DEF AsDedicatedBelowTop, AsAlone
<1>5. \A d \in Devices : \A k \in DOMAIN out'[d] : AsAlone(Dps(d), out'[d][k])
  <2> TAKE d \in Devices
  <2>1. CASE d = dev
    BY <1>1, <1>3, <1>4, <2>1
  <2>2. CASE d # dev
    BY <1>1, <1>4, <2>2
  <2> QED BY <2>1, <2>2
<1> QED BY <1>2, <1>5 DEF AsDedicatedBelowTop, AsAlone

\* Merging is invisible: whatever block a point was merged into, and however its
\* reply is cut up, the reading emitted for it (decodeAndEmit) is the one that a
\* request for the point alone would have brought, for any points, byte orders
\* and limits, also for a point that wraps round the address range; except only
\* for a point that ends with the last register.
THEOREM AsDedicated == Spec => []AsDedicatedBelowTop
<1>1. Init => AsDedicatedBelowTop
  <2> SUFFICES ASSUME Init PROVE AsDedicatedBelowTop
    OBVIOUS
  <2>1. \A d \in Devices : out[d] = <<>>
    BY DEF Init
  <2>2. DOMAIN <<>> = {}
    OBVIOUS
  <2> QED BY <2>1, <2>2 DEF AsDedicatedBelowTop
<1>2. ASSUME IndInv, AsDedicatedBelowTop, [Next]_vars
      PROVE  AsDedicatedBelowTop'
  <2>1. ASSUME out' = out, config' = config PROVE AsDedicatedBelowTop'
    BY <1>2, <2>1 DEF AsDedicatedBelowTop, Devices, Dps
  <2>2. CASE BuildClient \/ Stop \/ ConnectOK \/ Retry \/ Cancel \/ UNCHANGED vars
    BY <2>1, <2>2 DEF BuildClient, Stop, ConnectOK, Retry, Cancel, vars
  <2>3. CASE PlanPoint \/ PlanDone \/ DeviceDone
    BY <2>1, <2>3 DEF PlanPoint, PlanDone, DeviceDone
  <2>4. CASE StartDevice
    <3>1. /\ config' = config /\ dev \in Devices /\ out \in [Devices -> Seq(Reading)]
          /\ out' = [out EXCEPT ![dev] = <<>>]
      BY <1>2, <2>4 DEF StartDevice, IndInv, TypeOK
    <3>2. \A d \in Devices : out'[d] = <<>> \/ out'[d] = out[d]
      BY <3>1
    <3>3. DOMAIN <<>> = {}
      OBVIOUS
    <3> QED BY <1>2, <3>1, <3>2, <3>3 DEF AsDedicatedBelowTop, Devices, Dps
  <2>5. CASE BlockRefused
    BY <1>2, <2>5, RefuseEmitted, RefuseRight, EmitRight
  <2>6. CASE BlockRead
    BY <1>2, <2>6, ReplyEmitted, ReplyRight, EmitRight
  <2>7. ASSUME NEW quality \in config.faults, BlockFails(quality)
        PROVE  AsDedicatedBelowTop'
    <3>1. PICK q \in ErrorQuality : Emitted(BadReadings(Head(blocks).points, q, "fault"))
      BY <1>2, <2>7, FailEmitted
    <3> DEFINE r == BadReadings(Head(blocks).points, q, "fault")
    <3>2. \A n \in DOMAIN r : r[n].via = "fault"
      BY DEF BadReadings
    <3>3. \A n \in DOMAIN r : AsAlone(Dps(dev), r[n])
      BY <3>2 DEF AsAlone
    <3> QED BY <1>2, <3>1, <3>3, EmitRight
  <2>8. ASSUME NEW quality \in config.faults, ConnectFails(quality)
        PROVE  AsDedicatedBelowTop'
    <3>1. /\ out' = [d \in Devices |-> BadReadings(AllPoints(d), quality, "fault")]
          /\ config' = config
      BY <2>8 DEF ConnectFails, ReportOffline
    <3>2. \A d \in Devices : \A k \in DOMAIN out'[d] : out'[d][k].via = "fault"
      BY <3>1 DEF BadReadings
    <3> QED BY <3>1, <3>2 DEF AsDedicatedBelowTop, Devices, Dps
  <2> QED BY <1>2, <2>2, <2>3, <2>4, <2>5, <2>6, <2>7, <2>8 DEF Next, Step
<1> QED BY <1>1, <1>2, Invariance, PTL DEF Spec

-----------------------------------------------------------------------------
(* A plan takes as few requests as any.                                    *)

\* No point comes so near the end of the address range that sums wrap.
NoWrap(dps) == \A i \in DOMAIN dps : End(dps[i]) + MaxGap < W

\* A register of a data point
Within(dp, r) == dp.addr <= r /\ r < End(dp)

\* Points x and y of one function code that no request covers both: y ends too
\* far behind the start of x, or more than MaxGap registers between them, from g
\* on, are used by no point of the function code.
Apart(dps, x, y) ==
  \/ End(dps[y]) - dps[x].addr > MaxRegisters
  \/ \E g \in Nat :
       /\ dps[x].addr < g /\ g + MaxGap < dps[y].addr
       /\ \A i \in DOMAIN dps : dps[i].fc = dps[x].fc =>
            End(dps[i]) <= g \/ g + MaxGap < dps[i].addr

\* A block ends with one of its points, and before each point that is not at its
\* start lies one of its registers, no further than MaxGap allows.
Snug(dps, bl) ==
  /\ \E m \in DOMAIN bl.points : End(dps[bl.points[m]]) = bl.start + bl.quantity
  /\ \A n \in DOMAIN bl.points :
       \/ dps[bl.points[n]].addr = bl.start
       \/ \E m \in DOMAIN bl.points : \E k \in 1..(MaxGap + 1) :
            Within(dps[bl.points[m]], dps[bl.points[n]].addr - k)

\* A set of numbers has a least one.
LEMMA LeastExists ==
  ASSUME NEW T, T \subseteq Nat, T # {}
  PROVE  \E x \in T : \A y \in T : x <= y
<1>1. PICK x \in T : \A y \in T : ~ (<<y, x>> \in OpToRel(<, Nat))
  BY NatLessThanWellFounded, WFMin
<1>2. \A y \in T : <<y, x>> \in OpToRel(<, Nat) <=> y < x
  BY DEF OpToRel
<1>3. \A y \in T : ~ (y < x)
  BY <1>1, <1>2, Zenon
<1> QED BY <1>3

\* The registers that a set of points uses
UsedBy(dps, C) == UNION {dps[i].addr..(dps[i].addr + dps[i].width - 1) : i \in C}

(* The registers a set of points uses are those within one of them.        *)
LEMMA UsedByFacts ==
  ASSUME NEW dps \in Seq(Point), NEW C \in SUBSET DOMAIN dps
  PROVE  /\ UsedBy(dps, C) \subseteq Nat
         /\ \A r \in Int : r \in UsedBy(dps, C) <=> \E i \in C : Within(dps[i], r)
<1>1. \A i \in C : dps[i].addr \in Nat /\ dps[i].width \in Nat /\ End(dps[i]) = dps[i].addr + dps[i].width
  BY PointFacts DEF End
<1>2. \A i \in C : \A r \in Int : r \in dps[i].addr..(dps[i].addr + dps[i].width - 1) <=> Within(dps[i], r)
  BY <1>1 DEF Within
<1>3. \A i \in C : dps[i].addr..(dps[i].addr + dps[i].width - 1) \subseteq Nat
  BY <1>1
<1> QED BY <1>2, <1>3 DEF UsedBy

\* Coverable, with the least address given a name
LEMMA CoverableFacts ==
  ASSUME NEW dps \in Seq(Point), NEW C \in SUBSET DOMAIN dps, NEW a \in {dps[i].addr : i \in C},
         \A i \in C : a <= dps[i].addr
  PROVE  Coverable(dps, C) <=>
           /\ \A r \in UsedBy(dps, C) : r - a < MaxRegisters
           /\ \A r \in UsedBy(dps, C) : r # a =>
                \E k \in 1..(MaxGap + 1) : r - k \in UsedBy(dps, C)
<1> DEFINE first == CHOOSE x \in {dps[i].addr : i \in C} : \A i \in C : x <= dps[i].addr
<1>1. first \in {dps[i].addr : i \in C} /\ \A i \in C : first <= dps[i].addr
  OBVIOUS
<1>2. \A i \in C : dps[i].addr \in Nat
  BY PointFacts
<1> HIDE DEF first
<1>3. first = a
  BY <1>1, <1>2
<1> QED BY <1>3 DEF Coverable, UsedBy, first

\* Some point of a set of points has the least address.
LEMMA FirstExists ==
  ASSUME NEW dps \in Seq(Point), NEW C \in SUBSET DOMAIN dps, C # {}
  PROVE  \E a \in {dps[i].addr : i \in C} : \A i \in C : a <= dps[i].addr
<1> DEFINE T == {dps[i].addr : i \in C}
<1>1. T \subseteq Nat /\ T # {}
  BY PointFacts, SMTT(30)
<1> HIDE DEF T
<1>2. PICK a \in T : \A y \in T : a <= y
  BY <1>1, LeastExists
<1> QED BY <1>2 DEF T

\* No request covers points that are apart.
LEMMA ApartNotCovered ==
  ASSUME NEW dps \in Seq(Point), NEW C \in SUBSET DOMAIN dps, NEW x \in C, NEW y \in C,
         \A i \in C : dps[i].fc = dps[x].fc, Apart(dps, x, y), Coverable(dps, C)
  PROVE  FALSE
<1> DEFINE used == UsedBy(dps, C)
<1>1. PICK a \in {dps[i].addr : i \in C} : \A i \in C : a <= dps[i].addr
  BY FirstExists
<1>2. /\ \A r \in used : r - a < MaxRegisters
      /\ \A r \in used : r # a => \E k \in 1..(MaxGap + 1) : r - k \in used
  BY <1>1, CoverableFacts
<1>3. \A i \in C : /\ dps[i].addr \in Nat /\ End(dps[i]) \in Nat /\ dps[i].addr < End(dps[i])
  BY PointFacts, SMTT(30)
<1>4. a \in Nat /\ a <= dps[x].addr /\ MaxGap \in Nat /\ MaxRegisters \in Nat
  BY <1>1, <1>3, BlockPlanAssumption
<1>5. used \subseteq Nat /\ \A r \in Int : r \in used <=> \E i \in C : Within(dps[i], r)
  BY UsedByFacts
<1> HIDE DEF used
<1>6. CASE End(dps[y]) - dps[x].addr > MaxRegisters
  <2> DEFINE r == End(dps[y]) - 1
  <2>1. r \in Int /\ Within(dps[y], r)
    BY <1>3 DEF Within
  <2>2. r \in used
    BY <1>5, <2>1
  <2>3. r - a < MaxRegisters
    BY <1>2, <2>2
  <2> QED BY <1>3, <1>4, <1>6, <2>3
<1>7. ASSUME NEW g \in Nat, dps[x].addr < g, g + MaxGap < dps[y].addr,
             \A i \in DOMAIN dps : dps[i].fc = dps[x].fc =>
               End(dps[i]) <= g \/ g + MaxGap < dps[i].addr
      PROVE  FALSE
  <2> DEFINE R == {r \in used : r > g + MaxGap}
  <2>1. R \subseteq Nat
    BY <1>5
  <2>2. dps[y].addr \in R
    <3>1. Within(dps[y], dps[y].addr)
      BY <1>3 DEF Within
    <3> QED BY <1>3, <1>4, <1>5, <1>7, <3>1
  <2>3. PICK r \in R : \A s \in R : r <= s
    <3>1. R # {}
      BY <2>2
    <3> HIDE DEF R
    <3> QED BY <2>1, <3>1, LeastExists
  <2>4. r \in Nat /\ r > g + MaxGap /\ r # a /\ r \in used
    BY <1>3, <1>4, <1>7, <2>1, <2>3
  <2>5. PICK k \in 1..(MaxGap + 1) : r - k \in used
    BY <1>2, <2>4
  <2>6. r - k \in Nat /\ r - k <= g + MaxGap /\ r - k >= g
    BY <1>4, <1>5, <2>3, <2>4, <2>5
  <2>7. PICK i \in C : Within(dps[i], r - k)
    BY <1>5, <2>5, <2>6
  <2>8. End(dps[i]) <= g \/ g + MaxGap < dps[i].addr
    BY <1>7, <2>7
  <2> QED BY <1>3, <1>4, <2>6, <2>7, <2>8, SMTT(30) DEF Within
<1> QED BY <1>6, <1>7 DEF Apart

\* Below the top, a block holds its points.
LEMMA NoWrapHolds ==
  ASSUME NEW dps \in Seq(Point), NoWrap(dps), NEW bl, BlockOK(dps, bl)
  PROVE  Holds(dps, bl)
<1>1. bl \in Block
  BY DEF BlockOK
<1>2. CASE Alone(dps, bl)
  <2>1. /\ bl.start = dps[bl.points[1]].addr /\ bl.quantity = dps[bl.points[1]].width
        /\ bl.points = <<bl.points[1]>>
    BY <1>2 DEF Alone, NewBlock
  <2>2. 1 \in DOMAIN bl.points
    BY <2>1
  <2>3. bl.points[1] \in DOMAIN dps
    BY <2>2 DEF BlockOK
  <2>4. /\ End(dps[bl.points[1]]) \in Nat /\ End(dps[bl.points[1]]) + MaxGap < W
        /\ bl.start + bl.quantity = End(dps[bl.points[1]])
    BY <2>1, <2>3, PointFacts DEF NoWrap, End
  <2>5. bl.start + bl.quantity < W
    BY <2>4, BlockPlanAssumption
  <2> QED BY <2>5, BelowTopHolds
<1> QED BY <1>2 DEF BlockOK

\* One request covers the points of a snug block.
LEMMA SnugIsCovered ==
  ASSUME NEW dps \in Seq(Point), NoWrap(dps), NEW bl, BlockOK(dps, bl), Snug(dps, bl)
  PROVE  Coverable(dps, {bl.points[n] : n \in DOMAIN bl.points})
<1> DEFINE C == {bl.points[n] : n \in DOMAIN bl.points}
           used == UsedBy(dps, C)
<1>1. /\ C \subseteq DOMAIN dps /\ bl \in Block
      /\ \A i \in C : /\ dps[i].addr \in Nat /\ End(dps[i]) \in Nat /\ End(dps[i]) + MaxGap < W
                      /\ dps[i].addr < End(dps[i])
  <2>1. C \subseteq DOMAIN dps /\ bl \in Block
    BY DEF BlockOK
  <2> HIDE DEF C
  <2> QED BY <2>1, PointFacts DEF NoWrap
<1>2. bl.start \in Nat /\ bl.quantity \in Nat /\ bl.quantity <= MaxRegisters /\ MaxGap \in Nat
      /\ MaxRegisters \in Nat /\ W \in Nat
  BY <1>1, BlockFacts, BlockPlanAssumption DEF BlockOK
<1>3. \A i \in C : bl.start <= dps[i].addr /\ End(dps[i]) <= bl.start + bl.quantity
  <2>1. Holds(dps, bl)
    BY NoWrapHolds
  <2> QED BY <1>1, <1>2, <2>1, SMTT(30) DEF Holds
<1>4. bl.start \in {dps[i].addr : i \in C}
  <2>1. 1 \in DOMAIN bl.points /\ bl.start = dps[bl.points[1]].addr
    BY <1>1, BlockFacts DEF BlockOK
  <2> QED BY <2>1
<1>5. \A i \in C : \/ dps[i].addr = bl.start
                   \/ \E j \in C : \E k \in 1..(MaxGap + 1) : Within(dps[j], dps[i].addr - k)
  BY DEF Snug
<1> HIDE DEF C
<1>6. used \subseteq Nat /\ \A r \in Int : r \in used <=> \E i \in C : Within(dps[i], r)
  BY <1>1, UsedByFacts
<1> HIDE DEF used
<1>7. ASSUME NEW r \in used
      PROVE  /\ r - bl.start < MaxRegisters
             /\ r # bl.start => \E k \in 1..(MaxGap + 1) : r - k \in used
  <2>1. PICK i \in C : Within(dps[i], r)
    BY <1>6
  <2>2. r \in Nat /\ dps[i].addr <= r /\ r < End(dps[i])
    BY <1>6, <2>1 DEF Within
  <2>3. r - bl.start < MaxRegisters
    BY <1>1, <1>2, <1>3, <2>2
  <2>4. CASE r > dps[i].addr
    <3>1. Within(dps[i], r - 1) /\ r - 1 \in Int
      BY <1>1, <2>2, <2>4 DEF Within
    <3>2. r - 1 \in used /\ 1 \in 1..(MaxGap + 1)
      BY <1>2, <1>6, <3>1
    <3> QED BY <2>3, <3>2
  <2>5. CASE r = dps[i].addr
    <3> SUFFICES ASSUME r # bl.start PROVE \E k \in 1..(MaxGap + 1) : r - k \in used
      BY <2>3
    <3>1. PICK j \in C : \E k \in 1..(MaxGap + 1) : Within(dps[j], r - k)
      BY <1>5, <2>5
    <3>2. PICK k \in 1..(MaxGap + 1) : Within(dps[j], r - k)
      BY <3>1
    <3>3. r - k \in Int
      BY <2>2
    <3> QED BY <1>6, <3>2, <3>3
  <2> QED BY <1>1, <2>2, <2>4, <2>5
<1>8. Coverable(dps, C)
  BY <1>1, <1>3, <1>4, <1>7, CoverableFacts DEF used
<1> QED BY <1>8 DEF C

\* What makes a plan smallest: its register blocks are snug, and the first points
\* of two blocks of a function code are apart.
Smallest(dps, bs) ==
  /\ \A b \in DOMAIN bs : ~ BitWide(bs[b].fc) => Snug(dps, bs[b])
  /\ \A b, c \in DOMAIN bs : b < c /\ bs[b].fc = bs[c].fc /\ ~ BitWide(bs[b].fc) =>
       Apart(dps, bs[b].points[1], bs[c].points[1])

\* A division of the points of a function code into n requests
Divides(dps, S, n, f) ==
  /\ f \in [S -> 1..n]
  /\ \A k \in 1..n : LET C == {i \in S : f[i] = k} IN C # {} => Coverable(dps, C)

\* The number of requests is the least for which there is a division.
LEMMA FewestIs ==
  ASSUME NEW dps \in Seq(Point), NEW fc, NEW N \in 0..Len(dps),
         \E f : Divides(dps, {i \in DOMAIN dps : dps[i].fc = fc}, N, f),
         \A n \in 0..Len(dps) :
           (\E f : Divides(dps, {i \in DOMAIN dps : dps[i].fc = fc}, n, f)) => N <= n
  PROVE  FewestRequests(dps, fc) = N
<1> DEFINE S == {i \in DOMAIN dps : dps[i].fc = fc}
           counts == {n \in 0..Len(dps) :
                        \E f \in [S -> 1..n] :
                          \A k \in 1..n : LET C == {i \in S : f[i] = k}
                                          IN  C # {} => Coverable(dps, C)}
           fewest == CHOOSE n \in counts : \A m \in counts : n <= m
<1>1. \A n \in 0..Len(dps) : n \in counts <=> \E f : Divides(dps, S, n, f)
  <2> TAKE n \in 0..Len(dps)
  <2> DEFINE Q(f) == \A k \in 1..n : LET C == {i \in S : f[i] = k} IN C # {} => Coverable(dps, C)
  <2>1. n \in counts <=> \E f \in [S -> 1..n] : Q(f)
    OBVIOUS
  <2>2. \A f : Divides(dps, S, n, f) <=> f \in [S -> 1..n] /\ Q(f)
    BY DEF Divides
  <2> HIDE DEF S, counts, Q
  <2> QED BY <2>1, <2>2
<1>2. FewestRequests(dps, fc) = fewest
  BY DEF FewestRequests
<1>3. counts \subseteq Nat
  OBVIOUS
<1> HIDE DEF counts
<1>4. N \in counts /\ \A m \in counts : N <= m
  <2>1. \A m \in counts : m \in 0..Len(dps)
    BY DEF counts
  <2> QED BY <1>1, <2>1
<1>5. fewest \in counts /\ \A m \in counts : fewest <= m
  BY <1>4
<1> HIDE DEF fewest
<1> QED BY <1>2, <1>3, <1>4, <1>5

\* A plan of all points that is smallest is as small as can be.
LEMMA PlanSize ==
  ASSUME NEW dps \in Seq(Point), NoWrap(dps), NEW bs \in Seq(Block),
         \A b \in DOMAIN bs : BlockOK(dps, bs[b]), Distinct(bs),
         \A i \in DOMAIN dps : Blocked(bs, i), Smallest(dps, bs),
         NEW fc \in {3, 4}
  PROVE  Cardinality({k \in DOMAIN bs : bs[k].fc = fc}) = FewestRequests(dps, fc)
<1> DEFINE K == {k \in DOMAIN bs : bs[k].fc = fc}
           S == {i \in DOMAIN dps : dps[i].fc = fc}
           N == Cardinality(K)
           L == Len(dps)
           head == [b \in K |-> bs[b].points[1]]
           In(b, i) == \E n \in DOMAIN bs[b].points : bs[b].points[n] = i
<1>1. L \in Nat /\ DOMAIN dps = 1..L /\ Len(bs) \in Nat /\ DOMAIN bs = 1..Len(bs) /\ ~ BitWide(fc)
  BY DEF BitWide
<1>2. \A b \in K : /\ BlockOK(dps, bs[b]) /\ bs[b] \in Block /\ Snug(dps, bs[b])
                   /\ 1 \in DOMAIN bs[b].points
                   /\ \A n \in DOMAIN bs[b].points : bs[b].points[n] \in S
  <2> TAKE b \in K
  <2>1. BlockOK(dps, bs[b]) /\ bs[b].fc = fc /\ b \in DOMAIN bs
    OBVIOUS
  <2>2. bs[b] \in Block /\ \A n \in DOMAIN bs[b].points : bs[b].points[n] \in S
    BY <2>1 DEF BlockOK
  <2>3. 1 \in DOMAIN bs[b].points
    BY <2>1, <2>2, BlockFacts DEF BlockOK
  <2>4. Snug(dps, bs[b])
    BY <1>1, <2>1 DEF Smallest
  <2> QED BY <2>1, <2>2, <2>3, <2>4
<1>3. \A b, c \in DOMAIN bs : \A i : In(b, i) /\ In(c, i) => b = c
  BY DEF Distinct
<1>4. \A i \in S : \E b \in K : In(b, i)
  <2> TAKE i \in S
  <2>1. PICK b \in DOMAIN bs : In(b, i)
    BY DEF Blocked
  <2>2. bs[b].fc = dps[i].fc
    BY <2>1 DEF BlockOK
  <2> QED BY <2>1, <2>2
<1>5. head \in [K -> S] /\ \A b \in K : In(b, head[b]) /\ head[b] = bs[b].points[1]
  BY <1>2
<1>6. head \in Injection(K, 1..L)
  <2>1. head \in [K -> 1..L]
    BY <1>1, <1>5
  <2>2. K \subseteq DOMAIN bs
    OBVIOUS
  <2> HIDE DEF head, In, K
  <2>3. \A b, c \in K : head[b] = head[c] => b = c
    BY <1>3, <1>5, <2>2, Zenon
  <2> QED BY <2>1, <2>3 DEF Injection, IsInjective
<1>7. IsFiniteSet(K) /\ N \in Nat /\ N <= L
  <2> DEFINE T == 1..L
  <2>1. IsFiniteSet(T) /\ Cardinality(T) = L
    BY <1>1, IntervalSize
  <2> HIDE DEF T, K, head
  <2>2. head \in Injection(K, T)
    BY <1>6 DEF T
  <2>3. IsFiniteSet(K) /\ Cardinality(K) <= Cardinality(T)
    BY <2>1, <2>2, FS_Injection
  <2> QED BY <2>1, <2>3, FS_CardinalityType
<1>8. \E f : Divides(dps, S, N, f)
  <2>1. PICK g : g \in Bijection(1..N, K)
    <3> HIDE DEF K
    <3> QED BY <1>7, FS_CardinalityType DEF ExistsBijection
  <2>2. /\ g \in [1..N -> K] /\ \A j, k \in 1..N : g[j] = g[k] => j = k
        /\ \A b \in K : \E k \in 1..N : g[k] = b
    BY <2>1 DEF Bijection, Injection, Surjection, IsInjective
  <2> DEFINE f == [i \in S |-> CHOOSE k \in 1..N : In(g[k], i)]
  <2>3. \A i \in S : \E k \in 1..N : In(g[k], i)
    <3> TAKE i \in S
    <3>1. PICK b \in K : In(b, i)
      BY <1>4
    <3>2. PICK k \in 1..N : g[k] = b
      BY <2>2
    <3> HIDE DEF In, K, S, N
    <3> QED BY <3>1, <3>2
  <2>4. \A i \in S : f[i] \in 1..N /\ In(g[f[i]], i)
    BY <2>3
  <2>5. f \in [S -> 1..N]
    BY <2>4
  <2> HIDE DEF f
  <2>6. \A i \in S : \A k \in 1..N : f[i] = k <=> In(g[k], i)
    <3> TAKE i \in S
    <3> TAKE k \in 1..N
    <3>1. g[k] \in DOMAIN bs /\ g[f[i]] \in DOMAIN bs
      BY <2>2, <2>4
    <3>2. f[i] \in 1..N /\ In(g[f[i]], i)
      BY <2>4
    <3> HIDE DEF In, K, S, N
    <3>3. In(g[k], i) => g[k] = g[f[i]]
      BY <1>3, <3>1, <3>2, Zenon
    <3>4. g[k] = g[f[i]] => k = f[i]
      BY <2>2, <3>2
    <3> QED BY <3>2, <3>3, <3>4
  <2>7. ASSUME NEW k \in 1..N PROVE Coverable(dps, {i \in S : f[i] = k})
    <3> DEFINE b == g[k]
    <3>1. b \in K
      BY <2>2
    <3>2. {i \in S : f[i] = k} = {bs[b].points[n] : n \in DOMAIN bs[b].points}
      BY <1>2, <2>6, <3>1
    <3>3. Coverable(dps, {bs[b].points[n] : n \in DOMAIN bs[b].points})
      BY <1>2, <3>1, SnugIsCovered
    <3> QED BY <3>2, <3>3
  <2>8. Divides(dps, S, N, f)
    BY <2>5, <2>7 DEF Divides
  <2> QED BY <2>8
<1>9. ASSUME NEW n \in 0..L, NEW f, Divides(dps, S, n, f) PROVE N <= n
  <2> DEFINE h == [b \in K |-> f[head[b]]]
             T == 1..n
  <2>1. f \in [S -> T] /\ \A k \in T : LET C == {i \in S : f[i] = k} IN C # {} => Coverable(dps, C)
    BY <1>9 DEF Divides
  <2>2. h \in [K -> T] /\ \A b \in K : h[b] = f[head[b]]
    BY <1>5, <2>1
  <2>3. ASSUME NEW b \in K, NEW c \in K, b < c, h[b] = h[c] PROVE FALSE
    <3> DEFINE x == head[b]
               y == head[c]
               C == {i \in S : f[i] = f[x]}
    <3>1. x \in S /\ y \in S /\ f[x] = f[y] /\ f[x] \in T
      BY <1>5, <2>1, <2>2, <2>3
    <3>2. x \in C /\ y \in C /\ C \subseteq DOMAIN dps /\ \A i \in C : dps[i].fc = dps[x].fc
      BY <3>1
    <3>3. Coverable(dps, C)
      BY <2>1, <3>1, <3>2
    <3>4. Apart(dps, x, y)
      BY <1>1, <1>5, <2>3 DEF Smallest
    <3> HIDE DEF C, x, y
    <3> QED BY <3>2, <3>3, <3>4, ApartNotCovered
  <2>4. \A b, c \in K : h[b] = h[c] => b = c
    <3>1. K \subseteq Int
      BY <1>1
    <3> HIDE DEF h, K
    <3> TAKE b, c \in K
    <3>2. b \in Int /\ c \in Int
      BY <3>1
    <3>3. b < c \/ c < b \/ b = c
      BY <3>2
    <3> QED BY <2>3, <3>3
  <2> HIDE DEF h, K
  <2>5. h \in Injection(K, T)
    BY <2>2, <2>4 DEF Injection, IsInjective
  <2>6. IsFiniteSet(T) /\ Cardinality(T) = n
    BY IntervalSize, <1>1
  <2> HIDE DEF T
  <2>7. Cardinality(K) <= Cardinality(T)
    BY <2>5, <2>6, FS_Injection
  <2> QED BY <2>6, <2>7
<1>10. N \in 0..L
  BY <1>1, <1>7
<1> HIDE DEF N
<1>11. FewestRequests(dps, fc) = N
  BY <1>8, <1>9, <1>10, FewestIs
<1> QED BY <1>11 DEF N

\* Below the top, a point fits a snug block that starts no later just if it lies
\* within the gap allowed and ends within the registers of a request.
LEMMA FitsMeans ==
  ASSUME NEW dps \in Seq(Point), NoWrap(dps), NEW i \in DOMAIN dps, NEW bl, BlockOK(dps, bl),
         Snug(dps, bl), bl.start <= dps[i].addr
  PROVE  /\ Fits(bl, dps[i]) <=> /\ dps[i].addr <= bl.start + bl.quantity + MaxGap
                                 /\ End(dps[i]) - bl.start <= MaxRegisters
         /\ bl.start + bl.quantity + MaxGap < W
<1> DEFINE dp == dps[i]
           e == bl.start + bl.quantity
<1>1. bl \in Block /\ Holds(dps, bl) /\ dp \in Point
  BY NoWrapHolds DEF BlockOK
<1>2. bl.start \in Nat /\ bl.quantity \in Nat /\ W \in Nat /\ MaxGap \in Nat /\ MaxRegisters \in Nat
  BY <1>1, BlockFacts, BlockPlanAssumption
<1>3. e \in Nat /\ e < W /\ BlockEnd(bl) = e
  BY <1>1, <1>2, BlockFacts DEF Holds
<1>4. PICK m \in DOMAIN bl.points : End(dps[bl.points[m]]) = e
  BY DEF Snug
<1>5. e + MaxGap < W
  BY <1>4 DEF NoWrap, BlockOK
<1>6. /\ dp.addr \in Nat /\ End(dp) \in Nat /\ dp.addr < End(dp) /\ End(dp) + MaxGap < W
      /\ bl.start <= dp.addr
  BY <1>1, PointFacts DEF NoWrap
<1>7. DpEnd(dp) = End(dp)
  <2>1. End(dp) < W
    BY <1>2, <1>6
  <2> QED BY <1>1, <2>1, PointFacts
<1> HIDE DEF e, dp
<1> DEFINE x == e + MaxGap
           y == End(dp) - bl.start
<1>8. x \in Int /\ 0 <= x /\ x < W /\ y \in Int /\ 0 <= y /\ y < W
  BY <1>2, <1>3, <1>5, <1>6, SMTT(30)
<1> HIDE DEF x, y
<1>9. x % W = x /\ y % W = y
  BY <1>8, Wrapped
<1>10. Fits(bl, dp) <=> dp.addr <= x % W /\ y % W <= MaxRegisters
  BY <1>3, <1>7 DEF Fits, x, y
<1>11. Fits(bl, dp) <=> dp.addr <= x /\ y <= MaxRegisters
  BY <1>9, <1>10
<1> QED BY <1>2, <1>5, <1>11 DEF x, y, dp, e

\* A snug block with one point more, behind its others, is snug.
LEMMA ExtendedSnug ==
  ASSUME NEW dps \in Seq(Point), NoWrap(dps), NEW i \in DOMAIN dps, NEW bl, BlockOK(dps, bl),
         Snug(dps, bl), bl.fc = dps[i].fc, ~ BitWide(dps[i].fc), Fits(bl, dps[i]),
         \A m \in DOMAIN bl.points : dps[bl.points[m]].addr <= dps[i].addr
  PROVE  LET new == Extended(bl, dps, i)
         IN  /\ Snug(dps, new) /\ new.start = bl.start /\ bl.quantity <= new.quantity
             /\ new.quantity \in Nat
<1> DEFINE new == Extended(bl, dps, i)
           p == bl.points
           l == Len(p)
           q == Quantity(bl, dps[i])
           s == bl.start
           e == End(dps[i])
           At(n) == dps[bl.points[n]]
<1>1. bl \in Block
  BY DEF BlockOK
<1>2. /\ s \in Nat /\ bl.quantity \in Nat /\ p \in Seq(Nat) /\ l \in Nat /\ DOMAIN p = 1..l
      /\ W \in Nat /\ MaxGap \in Nat
  BY <1>1, BlockFacts, BlockPlanAssumption
<1>3. 1 \in DOMAIN p /\ s = At(1).addr
  BY <1>2 DEF BlockOK
<1>4. s <= dps[i].addr
  BY <1>3
<1>5. /\ q \in Nat /\ bl.quantity <= q
      /\ IF e < W /\ e > s + bl.quantity THEN s + q = e ELSE q = bl.quantity
  BY <1>4, QuantityFits
<1>6. new.start = s /\ new.quantity = q /\ new.points = Append(p, i)
  BY <1>1, ExtendedFields
<1>7. /\ DOMAIN new.points = 1..(l + 1) /\ new.points[l + 1] = i
      /\ \A n \in DOMAIN p : n \in DOMAIN new.points /\ new.points[n] = p[n]
      /\ \A n \in DOMAIN new.points : n \in DOMAIN p \/ n = l + 1
  BY <1>2, <1>6
<1>8. /\ dps[i].addr \in Nat /\ e \in Nat /\ dps[i].addr < e /\ e < W
  BY <1>2, PointFacts DEF NoWrap
<1>9. \A n \in DOMAIN p : At(n).addr \in Nat /\ End(At(n)) \in Nat /\ At(n).addr < End(At(n))
                          /\ At(n).addr <= dps[i].addr
  <2>1. \A n \in DOMAIN p : At(n) \in Point /\ At(n).addr <= dps[i].addr
    BY DEF BlockOK
  <2> HIDE DEF At
  <2> QED BY <2>1, PointFacts
<1>10. PICK m \in DOMAIN p : End(At(m)) = s + bl.quantity
  BY DEF Snug
<1>11. \E k \in DOMAIN new.points : End(dps[new.points[k]]) = new.start + new.quantity
  <2>1. CASE e > s + bl.quantity
    <3>1. s + q = e /\ l + 1 \in DOMAIN new.points
      BY <1>2, <1>5, <1>7, <1>8, <2>1
    <3> QED BY <1>6, <1>7, <3>1
  <2>2. CASE ~ (e > s + bl.quantity)
    <3>1. q = bl.quantity
      BY <1>5, <2>2
    <3> QED BY <1>6, <1>7, <1>10, <3>1
  <2> QED BY <2>1, <2>2
<1>12. dps[i].addr <= s + bl.quantity + MaxGap
  BY <1>4, FitsMeans
<1> DEFINE Near(j) == \E k \in 1..(MaxGap + 1) : Within(At(j), dps[i].addr - k)
<1>13. dps[i].addr = s \/ \E j \in DOMAIN p : Near(j)
  <2> DEFINE a == dps[i].addr
             am == At(m).addr
             em == End(At(m))
  <2>0. /\ a \in Nat /\ am \in Nat /\ em \in Nat /\ am < em /\ am <= a
        /\ a <= em + MaxGap
    BY <1>8, <1>9, <1>10, <1>12
  <2>1. CASE a >= em
    <3> DEFINE k == a - em + 1
    <3> HIDE DEF a, am, em
    <3>1. k \in 1..(MaxGap + 1) /\ am <= a - k /\ a - k < em
      BY <1>2, <2>0, <2>1
    <3> HIDE DEF k
    <3>2. Within(At(m), a - k)
      BY <3>1 DEF Within, am, em
    <3>3. Near(m)
      BY <3>1, <3>2 DEF a
    <3> QED BY <1>10, <3>3
  <2>2. CASE a < em /\ am < a
    <3> HIDE DEF a, am, em
    <3>1. am <= a - 1 /\ a - 1 < em /\ 1 \in 1..(MaxGap + 1)
      BY <1>2, <2>0, <2>2
    <3>2. Within(At(m), a - 1)
      BY <3>1 DEF Within, am, em
    <3>3. Near(m)
      BY <3>1, <3>2 DEF a
    <3> QED BY <1>10, <3>3
  <2>3. CASE At(m).addr = a
    <3>1. \/ At(m).addr = s
          \/ \E j \in DOMAIN p : \E k \in 1..(MaxGap + 1) : Within(At(j), At(m).addr - k)
      BY <1>10 DEF Snug
    <3> QED BY <2>3, <3>1
  <2> QED BY <2>0, <2>1, <2>2, <2>3
<1> HIDE DEF new, At
<1>14. ASSUME NEW n \in DOMAIN new.points
       PROVE  \/ dps[new.points[n]].addr = new.start
              \/ \E j \in DOMAIN new.points : \E k \in 1..(MaxGap + 1) :
                   Within(dps[new.points[j]], dps[new.points[n]].addr - k)
  <2>1. CASE n \in DOMAIN p
    <3>1. \/ dps[p[n]].addr = s
          \/ \E j \in DOMAIN p : \E k \in 1..(MaxGap + 1) : Within(dps[p[j]], dps[p[n]].addr - k)
      BY <2>1 DEF Snug
    <3> QED BY <1>6, <1>7, <2>1, <3>1
  <2>2. CASE n = l + 1
    BY <1>6, <1>7, <1>13, <2>2 DEF At
  <2> QED BY <1>7, <2>1, <2>2
<1>15. Snug(dps, new)
  BY <1>11, <1>14 DEF Snug
<1> QED BY <1>5, <1>6, <1>15 DEF new

\* Of the blocks of its function code, the pending one starts and ends last.
Far(bs) ==
  LET last == bs[Len(bs)]
  IN  \A b \in DOMAIN bs : bs[b].fc = last.fc /\ ~ BitWide(last.fc) =>
        bs[b].start <= last.start /\ bs[b].start + bs[b].quantity <= last.start + last.quantity

\* The pending block is of the function code the planner is at.
PendingInv ==
  pc = "plan" /\ next > 1 =>
    blocks # <<>> /\ blocks[Len(blocks)].fc = Dps(dev)[order[next - 1]].fc

FarInv == pc = "plan" /\ NoWrap(Dps(dev)) => Far(blocks)

SmallInv ==
  (pc = "plan" \/ (pc = "read" /\ out[dev] = <<>>)) /\ NoWrap(Dps(dev)) =>
    Smallest(Dps(dev), blocks)

PlanInv == PendingInv /\ FarInv /\ SmallInv

\* What the planner has come by of the next point's function code: its points lie
\* no higher, and the pending block is of that function code.
LEMMA EarlierPoints ==
  ASSUME IndInv, PendingInv, pc = "plan", next <= Len(Dps(dev)), NEW b \in DOMAIN blocks,
         blocks[b].fc = Dps(dev)[order[next]].fc, ~ BitWide(Dps(dev)[order[next]].fc)
  PROVE  /\ \A m \in DOMAIN blocks[b].points :
              Dps(dev)[blocks[b].points[m]].addr <= Dps(dev)[order[next]].addr
         /\ blocks[Len(blocks)].fc = Dps(dev)[order[next]].fc
<1> DEFINE dps == Dps(dev)
           i == order[next]
<1>1. dev \in Devices /\ TypeOK
  BY DEF IndInv, TypeOK
<1>2. dps \in Seq(Point) /\ Len(dps) \in Nat /\ DOMAIN dps = 1..Len(dps)
  BY <1>1, DpsType
<1>3. order \in Orders(dps) /\ next \in DOMAIN dps /\ i \in DOMAIN dps
  BY <1>1, NextPoint DEF TypeOK
<1>4. BlockOK(dps, blocks[b])
  BY DEF IndInv, BlockInv
<1> HIDE DEF dps, i
<1>5. ASSUME NEW m \in DOMAIN blocks[b].points
      PROVE  \E j \in DOMAIN dps : /\ order[j] = blocks[b].points[m] /\ j < next
                                   /\ dps[order[j]].fc = dps[order[next]].fc
  <2> DEFINE x == blocks[b].points[m]
  <2>1. x \in DOMAIN dps /\ dps[x].fc = blocks[b].fc
    BY <1>4 DEF BlockOK
  <2>2. Blocked(blocks, x)
    BY DEF Blocked
  <2>3. PICK j \in 1..(next - 1) : order[j] = x
    BY <2>1, <2>2 DEF IndInv, TakenInv, dps
  <2>4. j \in DOMAIN dps /\ j < next
    BY <1>2, <1>3
  <2> QED BY <2>1, <2>3, <2>4 DEF dps
<1>6. \A m \in DOMAIN blocks[b].points : dps[blocks[b].points[m]].addr <= dps[i].addr
  <2> TAKE m \in DOMAIN blocks[b].points
  <2>1. PICK j \in DOMAIN dps : /\ order[j] = blocks[b].points[m] /\ j < next
                                /\ dps[order[j]].fc = dps[order[next]].fc
    BY <1>5
  <2>2. ~ BitWide(dps[order[j]].fc)
    BY <2>1 DEF dps
  <2> QED BY <1>3, <2>1, <2>2, OrderFacts DEF i
<1>7. blocks[Len(blocks)].fc = dps[i].fc
  <2>1. 1 \in DOMAIN blocks[b].points
    BY <1>4, BlockFacts DEF BlockOK
  <2>2. PICK j \in DOMAIN dps : j < next /\ dps[order[j]].fc = dps[order[next]].fc
    BY <1>5, <2>1
  <2>3. next - 1 \in j..next /\ next > 1
    BY <1>2, <1>3, <2>2
  <2>4. dps[order[next - 1]].fc = dps[order[j]].fc
    BY <1>3, <2>2, <2>3, OrderFacts
  <2> QED BY <2>2, <2>3, <2>4 DEF PendingInv, dps, i
<1> QED BY <1>6, <1>7 DEF dps, i

\* A point that does not fit the pending block is apart from the first points of
\* all blocks of its function code.
LEMMA ApartNew ==
  ASSUME IndInv, PlanInv, pc = "plan", next <= Len(Dps(dev)), NoWrap(Dps(dev)),
         NEW b \in DOMAIN blocks, blocks[b].fc = Dps(dev)[order[next]].fc,
         ~ BitWide(Dps(dev)[order[next]].fc),
         ~ Fits(blocks[Len(blocks)], Dps(dev)[order[next]])
  PROVE  /\ Apart(Dps(dev), blocks[b].points[1], order[next])
         /\ blocks[b].start <= Dps(dev)[order[next]].addr
         /\ blocks[b].start + blocks[b].quantity <= End(Dps(dev)[order[next]])
<1> DEFINE dps == Dps(dev)
           i == order[next]
           bl == blocks[b]
           last == blocks[Len(blocks)]
           g == last.start + last.quantity
           x == blocks[b].points[1]
<1>1. dev \in Devices /\ TypeOK /\ blocks \in Seq(Block) /\ b \in 1..Len(blocks)
  BY DEF IndInv, TypeOK
<1>2. dps \in Seq(Point) /\ Len(dps) \in Nat /\ DOMAIN dps = 1..Len(dps)
  BY <1>1, DpsType
<1>3. order \in Orders(dps) /\ next \in DOMAIN dps /\ i \in DOMAIN dps
  BY <1>1, NextPoint DEF TypeOK
<1>4. Len(blocks) \in DOMAIN blocks
  BY <1>1
<1>5. last.fc = dps[i].fc
  BY EarlierPoints DEF PlanInv
<1>6. /\ BlockOK(dps, bl) /\ BlockOK(dps, last) /\ Snug(dps, bl) /\ Snug(dps, last)
      /\ bl.start <= last.start /\ bl.start + bl.quantity <= g
  <2>1. BlockOK(dps, bl) /\ BlockOK(dps, last)
    BY <1>4 DEF IndInv, BlockInv
  <2>2. Snug(dps, bl) /\ Snug(dps, last)
    BY <1>4, <1>5 DEF PlanInv, SmallInv, Smallest
  <2>3. bl.start <= last.start /\ bl.start + bl.quantity <= g
    BY <1>5 DEF PlanInv, FarInv, Far
  <2> QED BY <2>1, <2>2, <2>3
<1>7. /\ bl.start \in Nat /\ bl.quantity \in Nat /\ bl.quantity >= 1
      /\ last.start \in Nat /\ last.quantity \in Nat /\ last.quantity <= MaxRegisters
      /\ W \in Nat /\ MaxGap \in Nat /\ MaxRegisters \in Nat
  BY <1>6, BlockFacts, BlockPlanAssumption DEF BlockOK
<1>8. x \in DOMAIN dps /\ bl.start = dps[x].addr /\ dps[x].fc = dps[i].fc
  <2>1. 1 \in DOMAIN bl.points
    BY <1>6, BlockFacts DEF BlockOK
  <2> QED BY <1>6, <2>1 DEF BlockOK
<1>9. last.start <= dps[i].addr /\ bl.start <= dps[i].addr
  BY <1>3, <1>4, <1>5, NextPoint
<1>10. dps[i].addr \in Nat /\ End(dps[i]) \in Nat /\ dps[i].addr < End(dps[i])
  BY <1>2, <1>3, PointFacts, SMTT(30)
<1>11. dps[i].addr > g + MaxGap \/ End(dps[i]) - last.start > MaxRegisters
  <2>1. ~ (dps[i].addr <= g + MaxGap /\ End(dps[i]) - last.start <= MaxRegisters)
    BY <1>2, <1>3, <1>6, <1>9, FitsMeans
  <2> HIDE DEF dps, i, bl, last
  <2> QED BY <1>7, <1>10, <2>1, SMTT(30)
<1>12. g \in Nat /\ g <= End(dps[i])
  <2> DEFINE e == End(dps[i])
             a == dps[i].addr
             s == last.start
             q == last.quantity
  <2> HIDE DEF e, a, s, q
  <2>1. /\ s \in Nat /\ q \in Nat /\ q <= MaxRegisters /\ MaxGap \in Nat /\ MaxRegisters \in Nat
        /\ a \in Nat /\ e \in Nat /\ a < e /\ g = s + q
    BY <1>7, <1>10 DEF e, a, s, q
  <2>2. a > s + q + MaxGap \/ e - s > MaxRegisters
    BY <1>11 DEF e, a, s, q
  <2>3. s + q \in Nat /\ s + q <= e
    BY <2>1, <2>2
  <2> QED BY <2>1, <2>3 DEF e
<1>13. CASE End(dps[i]) - last.start > MaxRegisters
  <2>1. End(dps[i]) - dps[x].addr > MaxRegisters
    <3> HIDE DEF dps, i, bl, last, g, x
    <3> QED BY <1>6, <1>7, <1>8, <1>10, <1>13
  <2>2. Apart(dps, x, i)
    BY <2>1 DEF Apart
  <2> QED BY <1>6, <1>7, <1>9, <1>10, <1>12, <2>2
<1>14. CASE dps[i].addr > g + MaxGap
  <2>1. ASSUME NEW j \in DOMAIN dps, dps[j].fc = dps[x].fc
        PROVE  End(dps[j]) <= g \/ g + MaxGap < dps[j].addr
    <3>1. PICK k \in DOMAIN dps : order[k] = j
      BY <1>3, OrderFacts
    <3>2. CASE k < next
      <4>1. k \in 1..(next - 1)
        BY <1>2, <1>3, <3>2
      <4>2. Blocked(blocks, j)
        BY <3>1, <4>1 DEF IndInv, TakenInv
      <4>3. PICK c \in DOMAIN blocks : \E n \in DOMAIN blocks[c].points : blocks[c].points[n] = j
        BY <4>2 DEF Blocked
      <4>4. PICK n \in DOMAIN blocks[c].points : blocks[c].points[n] = j
        BY <4>3
      <4>5. BlockOK(dps, blocks[c]) /\ blocks[c].fc = dps[i].fc
        BY <1>8, <2>1, <4>4 DEF IndInv, BlockInv, BlockOK
      <4>6. blocks[c].start + blocks[c].quantity <= g
        BY <1>5, <4>5 DEF PlanInv, FarInv, Far
      <4>7. Holds(dps, blocks[c])
        BY <1>2, <4>5, NoWrapHolds
      <4>8. End(dps[j]) \in Nat /\ End(dps[j]) < W
        BY <1>2, <1>7, PointFacts, SMTT(30) DEF NoWrap
      <4>9. End(dps[j]) <= blocks[c].start + blocks[c].quantity
        BY <4>4, <4>7, <4>8 DEF Holds
      <4>10. blocks[c].start \in Nat /\ blocks[c].quantity \in Nat
        BY <4>5, BlockFacts DEF BlockOK
      <4> QED BY <1>12, <4>6, <4>8, <4>9, <4>10
    <3>3. CASE k >= next
      <4>1. dps[i].addr <= dps[j].addr
        <5>1. CASE k = next
          BY <1>10, <3>1, <5>1
        <5>2. CASE k > next
          <6>1. next < k /\ dps[order[next]].fc = dps[order[k]].fc /\ ~ BitWide(dps[order[next]].fc)
            BY <1>2, <1>3, <1>8, <2>1, <3>1, <5>2
          <6> QED BY <1>3, <3>1, <6>1, OrderFacts
        <5> QED BY <1>2, <1>3, <3>3, <5>1, <5>2
      <4>2. dps[j].addr \in Nat
        BY <1>2, PointFacts
      <4> QED BY <1>7, <1>10, <1>12, <1>14, <4>1, <4>2, SMTT(30)
    <3> QED BY <1>2, <1>3, <3>2, <3>3
  <2>2. dps[x].addr < g /\ g + MaxGap < dps[i].addr
    <3> HIDE DEF dps, i, bl, last, g, x
    <3> QED BY <1>6, <1>7, <1>8, <1>10, <1>12, <1>14
  <2>3. Apart(dps, x, i)
    <3> HIDE DEF dps, i, bl, last, g, x
    <3> QED BY <1>12, <2>1, <2>2 DEF Apart
  <2> QED BY <1>6, <1>7, <1>9, <1>10, <1>12, <2>3
<1> QED BY <1>11, <1>13, <1>14

\* One turn of planBlockReads keeps the plan smallest.
LEMMA PlanPointSmall ==
  ASSUME IndInv, PlanInv, PlanPoint
  PROVE  PlanInv'
<1> DEFINE dps == Dps(dev)
           i == order[next]
           n == Len(blocks)
           new == Merge(dps, blocks, i)
<1>1. dev \in Devices /\ TypeOK /\ blocks \in Seq(Block) /\ pc = "plan" /\ next <= Len(Dps(dev))
  BY DEF IndInv, TypeOK, PlanPoint
<1>2. dps \in Seq(Point) /\ Len(dps) \in Nat /\ DOMAIN dps = 1..Len(dps)
      /\ n \in Nat /\ DOMAIN blocks = 1..n
  BY <1>1, DpsType
<1>3. /\ next \in DOMAIN dps /\ i \in DOMAIN dps
      /\ \A b \in DOMAIN blocks : blocks[b].fc = dps[i].fc /\ ~ BitWide(dps[i].fc)
                                    => blocks[b].start <= dps[i].addr
  BY <1>1, NextPoint
<1>4. \A b \in DOMAIN blocks : BlockOK(dps, blocks[b])
  BY DEF IndInv, BlockInv
<1>5. /\ blocks' = new /\ next' = next + 1 /\ pc' = "plan" /\ dev' = dev /\ order' = order
      /\ Dps(dev)' = dps
  BY <1>1 DEF PlanPoint, Dps
<1>6. next \in Nat /\ (next + 1) - 1 = next
  BY <1>2, <1>3
<1>7. SUFFICES /\ new # <<>> /\ new[Len(new)].fc = dps[i].fc
               /\ NoWrap(dps) => Far(new) /\ Smallest(dps, new)
  BY <1>5, <1>6, <1>7 DEF PlanInv, PendingInv, FarInv, SmallInv
<1>8. ASSUME NoWrap(dps)
      PROVE  /\ \A b \in DOMAIN blocks : ~ BitWide(blocks[b].fc) => Snug(dps, blocks[b])
             /\ \A b, c \in DOMAIN blocks :
                  b < c /\ blocks[b].fc = blocks[c].fc /\ ~ BitWide(blocks[b].fc) =>
                    Apart(dps, blocks[b].points[1], blocks[c].points[1])
  BY <1>1, <1>8 DEF PlanInv, SmallInv, Smallest
<1>9. CASE /\ new = Append(blocks, NewBlock(dps, i))
           /\ n > 0 /\ blocks[n].fc = dps[i].fc /\ ~ BitWide(dps[i].fc) => ~ Fits(blocks[n], dps[i])
  <2> DEFINE one == NewBlock(dps, i)
             l == n + 1
  <2>1. /\ one.fc = dps[i].fc /\ one.start = dps[i].addr /\ one.quantity = dps[i].width
        /\ one.points = <<i>> /\ BlockOK(dps, one)
    BY <1>2, <1>3, NewBlockOK
  <2>2. one \in Block /\ one.points[1] = i /\ DOMAIN one.points = {1}
    BY <2>1 DEF BlockOK
  <2> HIDE DEF new, one, dps, i
  <2>3. /\ Len(new) = l /\ DOMAIN new = 1..l /\ new[l] = one /\ new # <<>>
        /\ \A b \in DOMAIN blocks : b \in DOMAIN new /\ b < l /\ new[b] = blocks[b]
        /\ \A b \in DOMAIN new : b = l \/ b \in DOMAIN blocks
    BY <1>1, <1>2, <1>9, <2>2 DEF one
  <2>4. ASSUME NoWrap(dps), NEW b \in DOMAIN blocks, blocks[b].fc = dps[i].fc, ~ BitWide(dps[i].fc)
        PROVE  /\ Apart(dps, blocks[b].points[1], i)
               /\ blocks[b].start <= dps[i].addr
               /\ blocks[b].start + blocks[b].quantity <= End(dps[i])
    <3>1. blocks[n].fc = dps[i].fc
      BY <1>1, <2>4, EarlierPoints DEF PlanInv, dps, i
    <3>2. n > 0
      BY <1>2
    <3>3. ~ Fits(blocks[n], dps[i])
      BY <1>9, <2>4, <3>1, <3>2
    <3> QED BY <1>1, <2>4, <3>3, ApartNew DEF dps, i
  <2>5. ASSUME NoWrap(dps) PROVE Far(new)
    <3> SUFFICES ASSUME NEW b \in DOMAIN new, new[b].fc = one.fc, ~ BitWide(one.fc)
                 PROVE  /\ new[b].start <= one.start
                        /\ new[b].start + new[b].quantity <= one.start + one.quantity
      BY <2>3 DEF Far
    <3>1. CASE b = l
      <4>1. one.start \in Nat /\ one.quantity \in Nat
        BY <2>2, BlockFacts
      <4> QED BY <2>3, <3>1, <4>1
    <3>2. CASE b \in DOMAIN blocks
      <4>1. new[b] = blocks[b]
        BY <2>3, <3>2
      <4> QED BY <2>1, <2>4, <2>5, <3>2, <4>1 DEF End
    <3> QED BY <2>3, <3>1, <3>2
  <2>6. ASSUME NoWrap(dps), ~ BitWide(one.fc) PROVE Snug(dps, one)
    <3>1. End(dps[one.points[1]]) = one.start + one.quantity /\ dps[one.points[1]].addr = one.start
      BY <2>1, <2>2 DEF End
    <3> QED BY <2>2, <3>1 DEF Snug
  <2>7. ASSUME NoWrap(dps) PROVE Smallest(dps, new)
    <3>1. \A b \in DOMAIN new : ~ BitWide(new[b].fc) => Snug(dps, new[b])
      BY <1>8, <2>3, <2>6, <2>7
    <3>2. ASSUME NEW b \in DOMAIN new, NEW c \in DOMAIN new, b < c, new[b].fc = new[c].fc,
                 ~ BitWide(new[b].fc)
          PROVE  Apart(dps, new[b].points[1], new[c].points[1])
      <4>1. CASE c = l
        <5>1. b \in DOMAIN blocks
          BY <1>2, <2>3, <3>2, <4>1
        <5> QED BY <2>1, <2>2, <2>3, <2>4, <2>7, <3>2, <4>1, <5>1
      <4>2. CASE c \in DOMAIN blocks
        <5>1. b \in DOMAIN blocks
          BY <1>2, <2>3, <3>2, <4>2
        <5> QED BY <1>8, <2>3, <2>7, <3>2, <4>2, <5>1
      <4> QED BY <2>3, <4>1, <4>2
    <3> QED BY <3>1, <3>2 DEF Smallest
  <2> QED BY <2>1, <2>3, <2>5, <2>7
<1>10. CASE Grows(dps, blocks, new, i)
  <2> DEFINE bl == blocks[n]
             ext == Extended(bl, dps, i)
  <2> HIDE DEF new, dps, i
  <2>1. /\ n > 0 /\ n \in DOMAIN blocks /\ DOMAIN new = DOMAIN blocks
        /\ bl.fc = dps[i].fc /\ ~ BitWide(dps[i].fc) /\ Fits(bl, dps[i])
        /\ new[n] = ext /\ \A b \in DOMAIN blocks : b # n => new[b] = blocks[b]
    BY <1>10 DEF Grows
  <2>2. BlockOK(dps, bl) /\ bl \in Block
    BY <1>4, <2>1 DEF BlockOK
  <2>3. ext.fc = bl.fc /\ ext.points[1] = bl.points[1] /\ BlockOK(dps, ext)
    BY <1>2, <1>3, <2>1, <2>2, ExtendedOK
  <2> HIDE DEF ext
  <2>4. Len(new) = n /\ new # <<>>
    <3>1. new \in Seq(Block)
      BY <1>1, <1>2, <1>3, <1>4, MergeKeepsOK DEF new
    <3> QED BY <1>2, <2>1, <3>1
  <2>5. ASSUME NoWrap(dps)
        PROVE  /\ Snug(dps, ext) /\ ext.start = bl.start /\ bl.quantity <= ext.quantity
               /\ ext.quantity \in Nat
    <3>1. \A m \in DOMAIN bl.points : dps[bl.points[m]].addr <= dps[i].addr
      BY <1>1, <2>1, EarlierPoints DEF PlanInv, dps, i
    <3>2. Snug(dps, bl)
      BY <1>8, <2>1, <2>5
    <3> QED BY <1>2, <1>3, <2>1, <2>2, <2>5, <3>1, <3>2, ExtendedSnug DEF ext
  <2>6. \A b \in DOMAIN new : new[b].fc = blocks[b].fc /\ new[b].points[1] = blocks[b].points[1]
    BY <2>1, <2>3
  <2>7. ASSUME NoWrap(dps) PROVE Far(new)
    <3> SUFFICES ASSUME NEW b \in DOMAIN new, new[b].fc = ext.fc, ~ BitWide(ext.fc)
                 PROVE  /\ new[b].start <= ext.start
                        /\ new[b].start + new[b].quantity <= ext.start + ext.quantity
      BY <2>1, <2>4 DEF Far
    <3>1. bl.start \in Nat /\ bl.quantity \in Nat
      BY <2>2, BlockFacts
    <3>2. CASE b = n
      BY <2>1, <2>5, <2>7, <3>1, <3>2
    <3>3. CASE b # n
      <4>1. new[b] = blocks[b] /\ b \in DOMAIN blocks
        BY <2>1, <3>3
      <4>2. blocks[b].start <= bl.start /\ blocks[b].start + blocks[b].quantity <= bl.start + bl.quantity
        BY <1>1, <2>1, <2>3, <2>7, <4>1 DEF PlanInv, FarInv, Far, dps
      <4>3. blocks[b] \in Block
        BY <1>4, <4>1 DEF BlockOK
      <4>4. blocks[b].start \in Nat /\ blocks[b].quantity \in Nat
        BY <4>3, BlockFacts
      <4> HIDE DEF bl
      <4> QED BY <2>5, <2>7, <3>1, <4>1, <4>2, <4>4
    <3> QED BY <3>2, <3>3
  <2>8. ASSUME NoWrap(dps) PROVE Smallest(dps, new)
    <3>1. \A b \in DOMAIN new : ~ BitWide(new[b].fc) => Snug(dps, new[b])
      BY <1>8, <2>1, <2>5, <2>8
    <3>2. \A b, c \in DOMAIN new : b < c /\ new[b].fc = new[c].fc /\ ~ BitWide(new[b].fc) =>
            Apart(dps, new[b].points[1], new[c].points[1])
      BY <1>8, <2>1, <2>6, <2>8
    <3> QED BY <3>1, <3>2 DEF Smallest
  <2> QED BY <2>1, <2>3, <2>4, <2>7, <2>8
<1> QED BY <1>1, <1>9, <1>10, MergeEffect

\* Every step keeps the plan smallest, until its first block is read.
LEMMA NextPlan ==
  ASSUME IndInv, PlanInv, [Next]_vars
  PROVE  PlanInv'
<1>1. CASE PlanPoint
  BY <1>1, PlanPointSmall
<1>2. CASE StartDevice
  <2>1. pc' = "plan" /\ next' = 1 /\ blocks' = <<>>
    BY <1>2 DEF StartDevice
  <2>2. DOMAIN <<>> = {}
    OBVIOUS
  <2> QED BY <2>1, <2>2 DEF PlanInv, PendingInv, FarInv, Far, SmallInv, Smallest
<1>3. CASE PlanDone
  <2>1. /\ pc = "plan" /\ pc' = "read" /\ blocks' = blocks /\ Dps(dev)' = Dps(dev)
    BY <1>3 DEF PlanDone, Dps
  <2> QED BY <2>1 DEF PlanInv, PendingInv, FarInv, SmallInv
<1>4. ASSUME NEW readings, Emitted(readings) PROVE PlanInv'
  <2>1. /\ pc = "read" /\ pc' = "read" /\ dev' = dev /\ blocks # <<>>
        /\ out' = [out EXCEPT ![dev] = @ \o readings] /\ ReadingsOf(Head(blocks), readings)
    BY <1>4 DEF Emitted
  <2>2. dev \in Devices /\ out \in [Devices -> Seq(Reading)]
    BY DEF IndInv, TypeOK
  <2>3. readings \in Seq(Reading) /\ readings # <<>>
    <3>1. BlockOK(Dps(dev), Head(blocks)) /\ Head(blocks).points \in Seq(Nat)
      BY <2>1, HeadFacts
    <3>2. Head(blocks).points # <<>> /\ 1 \in DOMAIN Head(blocks).points
      BY <3>1 DEF BlockOK
    <3>3. readings \in Seq(Reading) /\ 1 \in DOMAIN readings
      BY <2>1, <3>2 DEF ReadingsOf
    <3> QED BY <3>3
  <2>4. out'[dev] # <<>>
    <3>1. out'[dev] = out[dev] \o readings /\ out[dev] \in Seq(Reading)
      BY <2>1, <2>2
    <3>2. Len(out'[dev]) = Len(out[dev]) + Len(readings) /\ Len(out[dev]) \in Nat
          /\ Len(readings) \in Nat /\ Len(readings) > 0
      BY <2>3, <3>1
    <3> QED BY <3>2
  <2> QED BY <2>1, <2>4 DEF PlanInv, PendingInv, FarInv, SmallInv
<1>5. CASE BuildClient \/ Stop \/ ConnectOK \/ Retry \/ DeviceDone
  BY <1>5 DEF BuildClient, Stop, ConnectOK, Retry, DeviceDone, PlanInv, PendingInv, FarInv, SmallInv
<1>6. CASE Cancel \/ UNCHANGED vars
  BY <1>6 DEF Cancel, vars, PlanInv, PendingInv, FarInv, SmallInv, Dps
<1>7. CASE BlockRefused
  BY <1>4, <1>7, RefuseEmitted
<1>8. CASE BlockRead
  BY <1>4, <1>8, ReplyEmitted
<1>9. CASE \E quality \in config.faults : ConnectFails(quality) \/ BlockFails(quality)
  <2>1. ASSUME NEW quality \in config.faults, ConnectFails(quality) PROVE PlanInv'
    BY <2>1 DEF ConnectFails, PlanInv, PendingInv, FarInv, SmallInv
  <2> QED BY <1>4, <1>9, <2>1, FailEmitted
<1> QED BY <1>1, <1>2, <1>3, <1>5, <1>6, <1>7, <1>8, <1>9 DEF Next, Step

\* For any data points: planBlockReads asks for no more than a Modbus frame holds,
\* and, unless sums of addresses wrap, no division of a register group's points
\* into requests of that size, without longer gaps, takes fewer requests: taking
\* each point into the pending block if it fits is optimal.
THEOREM PlanLegalSmallest == Spec => []PlanIsLegalAndSmallest
<1>1. Init => PlanInv
  BY DEF Init, PlanInv, PendingInv, FarInv, SmallInv
<1>2. IndInv /\ PlanInv /\ [Next]_vars => PlanInv'
  BY NextPlan
<1>3. ASSUME IndInv, PlanInv PROVE PlanIsLegalAndSmallest
  <2> SUFFICES ASSUME pc = "read", out[dev] = <<>>
               PROVE  /\ \A k \in DOMAIN blocks : blocks[k].quantity <= MaxRegisters
                      /\ \A fc \in {3, 4} :
                           (\A i \in DOMAIN Dps(dev) :
                              Dps(dev)[i].addr + Dps(dev)[i].width + MaxGap < W) =>
                             Cardinality({k \in DOMAIN blocks : blocks[k].fc = fc})
                               = FewestRequests(Dps(dev), fc)
    BY DEF PlanIsLegalAndSmallest
  <2>1. \A b \in DOMAIN blocks : BlockOK(Dps(dev), blocks[b])
    BY <1>3 DEF IndInv, BlockInv
  <2>2. TypeOK /\ dev \in Devices /\ blocks \in Seq(Block) /\ Distinct(blocks)
    BY <1>3 DEF IndInv, TypeOK
  <2>3. Dps(dev) \in Seq(Point)
    BY <2>2, DpsType
  <2>4. \A i \in DOMAIN Dps(dev) : Blocked(blocks, i)
    <3>1. \A i : ~ Reported(<<>>, i)
      BY DEF Reported
    <3> QED BY <1>3, <3>1 DEF IndInv, LeftInv
  <2>5. ASSUME NEW fc \in {3, 4},
               \A i \in DOMAIN Dps(dev) : Dps(dev)[i].addr + Dps(dev)[i].width + MaxGap < W
        PROVE  Cardinality({k \in DOMAIN blocks : blocks[k].fc = fc}) = FewestRequests(Dps(dev), fc)
    <3>1. NoWrap(Dps(dev))
      BY <2>5 DEF NoWrap, End
    <3>2. Smallest(Dps(dev), blocks)
      BY <1>3, <3>1 DEF PlanInv, SmallInv
    <3> QED BY <2>1, <2>2, <2>3, <2>4, <3>1, <3>2, PlanSize
  <2> QED BY <2>1, <2>5 DEF BlockOK
<1> QED BY <1>1, <1>2, <1>3, Invariance, PTL DEF Spec
=============================================================================
