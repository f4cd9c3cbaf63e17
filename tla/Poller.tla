------------------------------- MODULE Poller --------------------------------
(***************************************************************************)
(* The goroutine of one physical connection (gateway/internal/acquisition/ *)
(* poller.go): it connects, then polls its devices round robin for ever,   *)
(* reading the blocks planned for a device (BlockPlan) and emitting one    *)
(* reading for every data point, until Manager.Reload cancels it.          *)
(***************************************************************************)
EXTENDS BlockPlan

CONSTANT Configs  \* the connections considered, see Config

\* The qualities of a failed read (QualityFromError)
ErrorQuality == {"TIMEOUT", "CRC_ERROR", "DEVICE_OFFLINE", "INVALID"}

\* A connection: the data points of its devices, the registers its devices do
\* not have, and the errors that may befall its reads.
Config == [devices : Seq(Seq(Point)), missing : SUBSET Addresses,
           faults : SUBSET ErrorQuality]

ASSUME PollerAssumption == Configs \subseteq Config /\ \A c \in Configs : Len(c.devices) > 0

VARIABLES
  config,     \* the connection this poller serves
  cancelled,  \* ctx is done
  pc,         \* where runConnection is
  dev,        \* the device whose turn it is
  order,      \* its points in the order planBlockReads comes by them
  next,       \* the one of them that is to be planned
  blocks,     \* blocks of its plan, when it is made those yet to be read
  out         \* device -> readings of its latest turn; via: history, whether
              \* the device answered, lacks a register of the block, or failed

vars == <<config, cancelled, pc, dev, order, next, blocks, out>>

Devices == DOMAIN config.devices
Dps(d)  == config.devices[d]

Reading == [point : Nat, quality : {"GOOD"} \cup ErrorQuality, value : Seq(Int \X Int),
            via : {"reply", "hole", "fault"}]

TypeOK ==
  /\ config \in Config /\ cancelled \in BOOLEAN /\ dev \in Devices
  /\ pc \in {"build", "connect", "offline", "device", "plan", "read", "closed"}
  /\ pc = "plan" => order \in Orders(Dps(dev)) /\ next \in 1..Len(Dps(dev)) + 1
  /\ blocks \in Seq(Block)
  /\ \A b \in DOMAIN blocks : /\ blocks[b].points # <<>>
                              /\ \A n \in DOMAIN blocks[b].points :
                                   blocks[b].points[n] \in DOMAIN Dps(dev)
  /\ out \in [Devices -> Seq(Reading)]
  /\ \A d \in Devices : \A k \in DOMAIN out[d] :
       /\ out[d][k].point \in DOMAIN Dps(d)
       /\ out[d][k].quality = "GOOD" <=> out[d][k].value # NoValue

-----------------------------------------------------------------------------
Init ==
  /\ config \in Configs
  /\ cancelled = FALSE /\ pc = "build" /\ dev = 1
  /\ order = <<>> /\ next = 0 /\ blocks = <<>> /\ out = [d \in Devices |-> <<>>]

\* Manager.Reload
Cancel ==
  /\ ~ cancelled /\ pc # "closed"
  /\ cancelled' = TRUE
  /\ UNCHANGED <<config, pc, dev, order, next, blocks, out>>

\* runConnection: a connection without address or interface is not polled.
BuildClient ==
  /\ pc = "build"
  /\ pc' \in {"connect", "closed"}
  /\ UNCHANGED <<config, cancelled, dev, order, next, blocks, out>>

\* Mutant: ctx is looked at before a connection is made only.
StopBeforeConnect ==
  /\ cancelled /\ pc \in {"connect", "offline"}
  /\ pc' = "closed"
  /\ UNCHANGED <<config, cancelled, dev, order, next, blocks, out>>

\* ctx.Err() # nil at the head of a loop, or a wait cut short: close, return.
Stop ==
  /\ cancelled /\ pc \in {"connect", "offline", "device"}
  /\ pc' = "closed"
  /\ UNCHANGED <<config, cancelled, dev, order, next, blocks, out>>

\* One reading for each of a device's points, or of a block's
BadReadings(points, quality, via) ==
  [k \in DOMAIN points |-> [point |-> points[k], quality |-> quality, value |-> NoValue,
                            via |-> via]]

AllPoints(d) == [i \in DOMAIN Dps(d) |-> i]

ConnectOK ==
  /\ ~ cancelled /\ pc = "connect"
  /\ pc' = "device" /\ dev' = 1
  /\ UNCHANGED <<config, cancelled, order, next, blocks, out>>

\* emitDeviceOffline for every device
ReportOffline(quality) ==
  out' = [d \in Devices |-> BadReadings(AllPoints(d), quality, "fault")]

ConnectFails(quality) ==
  /\ ~ cancelled /\ pc = "connect"
  /\ ReportOffline(quality)
  /\ pc' = "offline"
  /\ UNCHANGED <<config, cancelled, dev, order, next, blocks>>

\* reconnectFloorDelay has passed.
Retry ==
  /\ ~ cancelled /\ pc = "offline"
  /\ pc' = "connect"
  /\ UNCHANGED <<config, cancelled, dev, order, next, blocks, out>>

\* SetUnitID and readDevice, which plans the blocks of the device first
StartDevice ==
  /\ ~ cancelled /\ pc = "device"
  /\ order' \in Orders(Dps(dev)) /\ next' = 1 /\ blocks' = <<>>
  /\ out' = [out EXCEPT ![dev] = <<>>]
  /\ pc' = "plan"
  /\ UNCHANGED <<config, cancelled, dev>>

\* One turn of planBlockReads' loops
PlanPoint ==
  /\ pc = "plan" /\ next <= Len(Dps(dev))
  /\ blocks' = Merge(Dps(dev), blocks, order[next])
  /\ next' = next + 1
  /\ UNCHANGED <<config, cancelled, pc, dev, order, out>>

\* planBlockReads returns.
PlanDone ==
  /\ pc = "plan" /\ next > Len(Dps(dev))
  /\ pc' = "read" /\ order' = <<>> /\ next' = 0
  /\ UNCHANGED <<config, cancelled, dev, blocks, out>>

\* Mutant: an error ends the device's turn.
DropRest(rest) == <<>>

\* `continue`: the other blocks of the device are read all the same.
GoOn(rest) == rest

\* The request fails.  Once ctx is done the error is ctx's, whatever went
\* wrong: "context canceled" counts as INVALID.
BlockFails(quality) ==
  /\ pc = "read" /\ blocks # <<>>
  /\ out' = [out EXCEPT ![dev] = @ \o BadReadings(Head(blocks).points,
                                     IF cancelled THEN "INVALID" ELSE quality, "fault")]
  /\ blocks' = GoOn(Tail(blocks))
  /\ UNCHANGED <<config, cancelled, pc, dev, order, next>>

\* The device refuses a request for a register it does not have, or that lies
\* beyond the address range.
BlockRefused ==
  /\ pc = "read" /\ blocks # <<>>
  /\ \/ Registers(Head(blocks)) \cap config.missing # {}
     \/ ~ Registers(Head(blocks)) \subseteq Addresses
  /\ out' = [out EXCEPT ![dev] = @ \o BadReadings(Head(blocks).points, "INVALID",
               IF Registers(Head(blocks)) \cap config.missing # {} THEN "hole" ELSE "reply")]
  /\ blocks' = GoOn(Tail(blocks))
  /\ UNCHANGED <<config, cancelled, pc, dev, order, next>>

\* The reply comes, and every point of the block is cut out of it.
BlockRead ==
  /\ pc = "read" /\ blocks # <<>>
  /\ Registers(Head(blocks)) \subseteq Addresses \ config.missing
  /\ LET block == Head(blocks)
         decoded(i) == Decode(Dps(dev)[i], RawReply(block), block.start)
     IN  out' = [out EXCEPT ![dev] = @ \o
                  [k \in DOMAIN block.points |->
                     [point |-> block.points[k], quality |-> decoded(block.points[k]).quality,
                      value |-> decoded(block.points[k]).value, via |-> "reply"]]]
  /\ blocks' = Tail(blocks)
  /\ UNCHANGED <<config, cancelled, pc, dev, order, next>>

\* Mutant: a device that could not be read is tried again.
NextDeviceIfGood(d) ==
  IF \E k \in DOMAIN out[d] : out[d][k].quality = "TIMEOUT" THEN d
  ELSE (d % Len(config.devices)) + 1

\* Mutant: the index runs past the last device.
NextDeviceNoWrap(d) == d + 1

\* In order, and from the last device back to the first
NextDevice(d) == (d % Len(config.devices)) + 1

\* The delay between devices (none if nothing was read), or after the last one
\* the pause between rounds; Stop may cut either short.
DeviceDone ==
  /\ pc = "read" /\ blocks = <<>>
  /\ pc' = "device" /\ dev' = NextDevice(dev)
  /\ UNCHANGED <<config, cancelled, order, next, blocks, out>>

Step ==
  \/ BuildClient \/ Stop \/ ConnectOK \/ Retry
  \/ StartDevice \/ PlanPoint \/ PlanDone
  \/ BlockRefused \/ BlockRead \/ DeviceDone
  \/ \E quality \in config.faults : ConnectFails(quality) \/ BlockFails(quality)

Next == Step \/ Cancel

Spec == Init /\ [][Next]_vars

\* The goroutine runs on: Connect and Read return, by their timeout if need be.
FairSpec == Spec /\ WF_vars(Step)

-----------------------------------------------------------------------------
\* Every turn of a device emits exactly one reading for each of its enabled
\* data points, whatever was merged, refused or failed, and so does a failed
\* Connect for all devices: no point is forgotten, none is reported twice.
OneReadingPerPoint ==
  \A d \in Devices :
    \/ pc = "read" /\ d = dev /\ blocks # <<>>
    \/ out[d] = <<>> /\ pc # "offline" /\ ~ (pc = "read" /\ d = dev)
    \/ Len(out[d]) = Len(Dps(d)) /\ {out[d][k].point : k \in DOMAIN out[d]} = DOMAIN Dps(d)

\* decodeAndEmit "decodes/scales/emits it exactly as a dedicated
\* single-datapoint read would have" (poller.go): so it does for every point
\* whose device answers, whatever it was merged with, but for the points that
\* end with the last register of the address range, where dpEnd wraps to zero.
AsDedicatedBelowTop ==
  \A d \in Devices : \A k \in DOMAIN out[d] :
    LET r == out[d][k]
    IN  r.via = "reply" /\ DpEnd(Dps(d)[r.point]) # 0 =>
          [quality |-> r.quality, value |-> r.value] = Dedicated(Dps(d), r.point)

\* A plan asks for no more than a Modbus frame holds, and takes no more
\* requests than any way to share them would, unless a block (with the gap
\* after it) comes so near the end of the address range that sums wrap.
PlanIsLegalAndSmallest ==
  pc = "read" /\ out[dev] = <<>> =>
    /\ \A k \in DOMAIN blocks : blocks[k].quantity <= MaxRegisters
    /\ \A fc \in {3, 4} :
         (\A i \in DOMAIN Dps(dev) : Dps(dev)[i].addr + Dps(dev)[i].width + MaxGap < W) =>
           Cardinality({k \in DOMAIN blocks : blocks[k].fc = fc}) = FewestRequests(Dps(dev), fc)

\* A cancelled poller closes its client and returns.
CancelledReturns == cancelled ~> pc = "closed"

\* Round robin: while the poller runs, every device has its turn (or is
\* reported offline) again and again, however many fail.
NoDeviceStarves ==
  \A d \in 1..2 :
    []<>(pc = "closed" \/ pc = "offline" \/ d \notin Devices \/ (pc = "read" /\ dev = d))
=============================================================================
