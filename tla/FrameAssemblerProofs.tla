------------------------ MODULE FrameAssemblerProofs ------------------------
(***************************************************************************)
(* Proofs about FrameAssembler, for every image size, id cycle, number of  *)
(* images and pattern of loss, reordering and duplication: type            *)
(* correctness, the absence of torn images, that complete ones are handed  *)
(* on, and, over a network that keeps order, the implementation of         *)
(* FrameFeed.                                                              *)
(***************************************************************************)
EXTENDS FrameAssembler, TLAPS

-----------------------------------------------------------------------------
(* The inductive invariant *)

(* A datagram in the network is less than a cycle of ids old.               *)
NetIsRecent == \A p \in net : p.frame <= frame /\ frame - p.frame < IdModulus

(* So is the block being assembled, whose id is its leader's.               *)
BlockIsRecent ==
    /\ leader = None <=> block_id = None
    /\ leader # None => /\ block_id = BlockId(leader)
                        /\ leader <= frame
                        /\ frame - leader < IdModulus

(* The payloads collected so far are those of the leader's image.           *)
PayloadsAreLeaders ==
    \A k \in PayloadIds : payloads[k] # None => payloads[k] = <<leader, k>>

(* A packet is sent only of an image that exists.                           *)
SendsAnImage == next <= TrailerId => frame >= 1

IInv == /\ TypeOK
        /\ SendsAnImage
        /\ NetIsRecent
        /\ BlockIsRecent
        /\ PayloadsAreLeaders
        /\ FrameIntegrity

-----------------------------------------------------------------------------
(* Ids less than a cycle apart that agree modulo the cycle are equal.       *)
LEMMA SameIdSameFrame ==
  ASSUME NEW M \in Nat \ {0}, NEW a \in Nat, NEW b \in Nat,
         a % M = b % M, a - b < M, b - a < M
  PROVE  a = b
<1> DEFINE q == a \div M
           r == b \div M
           d == a % M
<1>1. q \in Int /\ r \in Int /\ d \in Int
  OBVIOUS
<1>2. a = M * q + d /\ b = M * r + d
  OBVIOUS
<1> HIDE DEF q, r, d
<1>3. a - b = M * (q - r)
  BY <1>1, <1>2
<1>4. q = r
  <2>1. ~(q >= r + 1)
    <3>1. q >= r + 1 => M * (q - r) >= M
      BY <1>1
    <3>2. QED BY <3>1, <1>3
  <2>2. ~(r >= q + 1)
    <3>1. r >= q + 1 => M * (q - r) <= -M
      BY <1>1
    <3>2. QED BY <3>1, <1>3
  <2>3. QED BY <2>1, <2>2, <1>1
<1>5. QED BY <1>4, <1>2

(* What a packet's fields say about each other.                             *)
LEMMA PacketFacts ==
  ASSUME NEW p \in PacketSet
  PROVE  /\ p.frame \in Images
         /\ p.frame \in Nat
         /\ p.packet_id \in 0 .. TrailerId
         /\ p.block_id = BlockId(p.frame)
         /\ p.block_id \in BlockIds
         /\ p.kind = FMT_LEADER <=> p.packet_id = 0
         /\ p.kind = FMT_TRAILER <=> p.packet_id = TrailerId
         /\ p.kind = FMT_PAYLOAD <=> p.packet_id \in PayloadIds
<1> USE StreamAssumption
<1>1. PICK f \in Images, id \in 0 .. TrailerId : p = Packet(f, id)
  BY DEF PacketSet
<1>2. p.frame = f /\ p.packet_id = id /\ p.block_id = BlockId(f) /\ p.kind = Kind(id)
  BY <1>1 DEF Packet
<1>3. f \in Nat /\ BlockId(f) \in BlockIds
  BY DEF Images, BlockId, BlockIds
<1>4. /\ Kind(id) = FMT_LEADER <=> id = 0
      /\ Kind(id) = FMT_TRAILER <=> id = TrailerId
      /\ Kind(id) = FMT_PAYLOAD <=> id \in PayloadIds
  BY DEF Kind, FMT_LEADER, FMT_TRAILER, FMT_PAYLOAD, TrailerId, PayloadIds
<1>5. QED BY <1>2, <1>3, <1>4

(* A packet that is not foreign belongs to the image being assembled.       *)
LEMMA OwnPacket ==
  ASSUME IInv, NEW p \in net, ~Foreign(p)
  PROVE  leader \in Images /\ p.frame = leader
<1> USE StreamAssumption
<1>1. p \in PacketSet
  BY DEF IInv, TypeOK
<1>2. leader # None /\ p.block_id = block_id
  BY DEF IInv, Foreign, BlockIsRecent
<1>3. leader \in Images /\ leader \in Nat
  BY <1>2 DEF IInv, TypeOK, Images
<1>4. p.frame % IdModulus = leader % IdModulus
  BY <1>1, <1>2, PacketFacts DEF IInv, BlockIsRecent, BlockId
<1>5. /\ p.frame - leader < IdModulus
      /\ leader - p.frame < IdModulus
      /\ p.frame \in Nat
  <2>1. p.frame \in Nat /\ frame \in Nat
    BY <1>1, PacketFacts DEF IInv, TypeOK
  <2>2. /\ p.frame <= frame /\ frame - p.frame < IdModulus
        /\ leader <= frame /\ frame - leader < IdModulus
    BY <1>2 DEF IInv, NetIsRecent, BlockIsRecent
  <2>3. QED BY <2>1, <2>2, <1>3
<1>6. p.frame = leader
  BY <1>3, <1>4, <1>5, SameIdSameFrame
<1>7. QED BY <1>3, <1>6

(* A complete block has the bytes of its leader's image at every position.  *)
LEMMA CompleteIsWhole ==
  ASSUME IInv, NEW p \in net, ~Foreign(p), p.kind = FMT_TRAILER, IsComplete(p)
  PROVE  Frame \in FrameSet /\ IsWhole(Frame)
<1> USE StreamAssumption
<1>1. leader \in Images /\ block_id = BlockId(leader) /\ block_id \in BlockIds
  BY OwnPacket DEF IInv, TypeOK, BlockIsRecent, Foreign
<1>2. p.packet_id - 1 = Payloads
  BY PacketFacts DEF IInv, TypeOK, TrailerId
<1>3. \A k \in PayloadIds : payloads[k] # None
  BY <1>2 DEF IsComplete, Keys, PayloadIds
<1>4. \A k \in PayloadIds : payloads[k] = <<leader, k>>
  BY <1>3 DEF IInv, PayloadsAreLeaders
<1>5. Joined = [k \in PayloadIds |-> <<leader, k>>]
  BY <1>4 DEF Joined
<1>6. Joined \in [PayloadIds -> BytesSet]
  BY <1>1, <1>5 DEF BytesSet
<1>7. QED BY <1>1, <1>5, <1>6 DEF Frame, FrameSet, IsWhole

-----------------------------------------------------------------------------
LEMMA InitEstablishes == Init => IInv
<1> USE StreamAssumption
<1> SUFFICES ASSUME Init PROVE IInv
  OBVIOUS
<1>1. TypeOK
  BY DEF Init, TypeOK, NoPayloads, TrailerId
<1>2. SendsAnImage /\ NetIsRecent /\ BlockIsRecent /\ PayloadsAreLeaders /\ FrameIntegrity
  BY DEF Init, SendsAnImage, TrailerId, NetIsRecent, BlockIsRecent, PayloadsAreLeaders, NoPayloads, FrameIntegrity
<1>3. QED BY <1>1, <1>2 DEF IInv

LEMMA StepPreserves == IInv /\ [Next]_vars => IInv'
<1> USE StreamAssumption
<1> SUFFICES ASSUME IInv, [Next]_vars PROVE IInv'
  OBVIOUS
<1>0. frame \in Nat /\ \A p \in net : p \in PacketSet /\ p.frame \in Nat
  BY PacketFacts DEF IInv, TypeOK
<1>1. CASE NewFrame
  <2>1. frame' = frame + 1 /\ frame' \in Images
    BY <1>1, <1>0 DEF NewFrame, Images, IInv, TypeOK
  <2>2. TypeOK'
    BY <1>1, <2>1 DEF NewFrame, IInv, TypeOK, assembler, Images, TrailerId
  <2>3. NetIsRecent'
    BY <1>1, <1>0 DEF NewFrame, IdIsFresh, IInv, NetIsRecent
  <2>4. BlockIsRecent'
    <3>1. leader # None => leader \in Nat
      BY DEF IInv, TypeOK, Images
    <3>2. QED
      BY <1>1, <1>0, <3>1 DEF NewFrame, IdIsFresh, IInv, BlockIsRecent, assembler
  <2>5. (SendsAnImage /\ PayloadsAreLeaders /\ FrameIntegrity)'
    BY <1>1, <1>0
    DEF NewFrame, IInv, SendsAnImage, PayloadsAreLeaders, FrameIntegrity, assembler
  <2>6. QED BY <2>2, <2>3, <2>4, <2>5 DEF IInv
<1>2. CASE SendPacket
  <2> DEFINE new == Packet(frame, next)
  <2>1. new \in PacketSet /\ new.frame = frame
    BY <1>2 DEF SendPacket, IInv, SendsAnImage, TypeOK, Images, PacketSet, Packet, TrailerId
  <2>2. TypeOK'
    BY <1>2, <2>1 DEF SendPacket, IInv, TypeOK, assembler, TrailerId
  <2>3. NetIsRecent'
    BY <1>2, <2>1, <1>0 DEF SendPacket, IInv, NetIsRecent
  <2>4. SendsAnImage'
    BY <1>2 DEF SendPacket, IInv, SendsAnImage
  <2>5. (BlockIsRecent /\ PayloadsAreLeaders /\ FrameIntegrity)'
    BY <1>2 DEF SendPacket, IInv, BlockIsRecent, PayloadsAreLeaders, FrameIntegrity, assembler
  <2>6. QED BY <2>2, <2>3, <2>4, <2>5 DEF IInv
<1>3. ASSUME NEW p \in net, Drop(p) PROVE IInv'
  <2>1. TypeOK'
    BY <1>3 DEF Drop, IInv, TypeOK, assembler, camera
  <2>2. (SendsAnImage /\ NetIsRecent /\ BlockIsRecent /\ PayloadsAreLeaders /\ FrameIntegrity)'
    BY <1>3 DEF Drop, IInv, SendsAnImage, NetIsRecent, BlockIsRecent, PayloadsAreLeaders,
                FrameIntegrity, assembler, camera
  <2>3. QED BY <2>1, <2>2 DEF IInv
<1>4. ASSUME NEW p \in net, Receive(p) PROVE IInv'
  <2>1. /\ net' \subseteq net
        /\ dups' \in 0 .. MaxDups
        /\ frame' = frame /\ next' = next
    BY <1>4 DEF Receive, Arrives, camera, IInv, TypeOK
  <2>2. (SendsAnImage /\ NetIsRecent)'
    BY <2>1 DEF IInv, SendsAnImage, NetIsRecent
  <2>3. /\ p \in PacketSet
        /\ p.frame <= frame /\ frame - p.frame < IdModulus
    BY DEF IInv, TypeOK, NetIsRecent
  <2>4. CASE FeedLeader(p)
    <3>1. TypeOK'
      BY <2>1, <2>3, <2>4, PacketFacts DEF FeedLeader, Reset, NoPayloads, IInv, TypeOK
    <3>2. BlockIsRecent'
      BY <2>1, <2>3, <2>4, PacketFacts
      DEF FeedLeader, Reset, IInv, TypeOK, BlockIsRecent, BlockIds
    <3>3. (PayloadsAreLeaders /\ FrameIntegrity)'
      BY <2>4 DEF FeedLeader, Reset, NoPayloads, IInv, PayloadsAreLeaders, FrameIntegrity
    <3>4. QED BY <3>1, <3>2, <3>3, <2>2 DEF IInv
  <2>5. CASE FeedForeign(p)
    <3>1. TypeOK'
      BY <2>1, <2>3, <2>5 DEF FeedForeign, assembler, IInv, TypeOK
    <3>2. (BlockIsRecent /\ PayloadsAreLeaders /\ FrameIntegrity)'
      BY <2>1, <2>5
      DEF FeedForeign, assembler, IInv, BlockIsRecent, PayloadsAreLeaders, FrameIntegrity
    <3>3. QED BY <3>1, <3>2, <2>2 DEF IInv
  <2>6. CASE FeedPayload(p)
    <3>1. p.packet_id \in PayloadIds /\ Bytes(p) = <<leader, p.packet_id>> /\ leader \in Images
      BY <2>3, <2>6, PacketFacts, OwnPacket DEF FeedPayload, Bytes
    <3>2. Bytes(p) \in BytesSet
      BY <3>1 DEF BytesSet
    <3>3. TypeOK'
      BY <2>1, <2>3, <2>6, <3>1, <3>2 DEF FeedPayload, IInv, TypeOK
    <3>4. PayloadsAreLeaders'
      BY <2>6, <3>1 DEF FeedPayload, IInv, TypeOK, PayloadsAreLeaders
    <3>5. (BlockIsRecent /\ FrameIntegrity)'
      BY <2>1, <2>6 DEF FeedPayload, IInv, BlockIsRecent, FrameIntegrity
    <3>6. QED BY <3>3, <3>4, <3>5, <2>2 DEF IInv
  <2>7. CASE FeedTrailer(p)
    <3>1. returned' = returned
          \/ /\ returned' = Append(returned, Frame)
             /\ Frame \in FrameSet /\ IsWhole(Frame)
      BY <2>7, CompleteIsWhole DEF FeedTrailer
    <3>2. returned' \in Seq(FrameSet)
      BY <3>1 DEF IInv, TypeOK
    <3>3. FrameIntegrity'
      <4>1. CASE returned' = returned
        BY <4>1 DEF IInv, FrameIntegrity
      <4>2. CASE returned' = Append(returned, Frame) /\ IsWhole(Frame)
        <5>1. /\ DOMAIN returned' = 1 .. (Len(returned) + 1)
              /\ DOMAIN returned = 1 .. Len(returned)
              /\ \A i \in 1 .. Len(returned) : returned'[i] = returned[i]
              /\ returned'[Len(returned) + 1] = Frame
              /\ Len(returned) \in Nat
          BY <4>2 DEF IInv, TypeOK
        <5>2. QED BY <4>2, <5>1 DEF IInv, FrameIntegrity
      <4>3. QED BY <3>1, <4>1, <4>2
    <3>4. TypeOK'
      BY <2>1, <2>3, <2>7, <3>2 DEF FeedTrailer, Reset, NoPayloads, IInv, TypeOK
    <3>5. (BlockIsRecent /\ PayloadsAreLeaders)'
      BY <2>7 DEF FeedTrailer, Reset, NoPayloads, BlockIsRecent, PayloadsAreLeaders
    <3>6. QED BY <3>3, <3>4, <3>5, <2>2 DEF IInv
  <2>8. QED BY <1>4, <2>4, <2>5, <2>6, <2>7 DEF Receive, feed
<1>5. CASE UNCHANGED vars
  <2>1. TypeOK'
    BY <1>5 DEF vars, IInv, TypeOK
  <2>2. (SendsAnImage /\ NetIsRecent /\ BlockIsRecent /\ PayloadsAreLeaders /\ FrameIntegrity)'
    BY <1>5 DEF vars, IInv, SendsAnImage, NetIsRecent, BlockIsRecent, PayloadsAreLeaders,
                FrameIntegrity
  <2>3. QED BY <2>1, <2>2 DEF IInv
<1>6. QED BY <1>1, <1>2, <1>3, <1>4, <1>5 DEF Next

-----------------------------------------------------------------------------
(* The inductive invariant always holds.                                    *)
THEOREM InductiveInvariant == Spec => []IInv
<1>1. QED BY InitEstablishes, StepPreserves, PTL DEF Spec

(* Every reachable state is well typed: a Frame that feed() returned misses *)
(* no payload.                                                              *)
THEOREM TypeCorrect == Spec => []TypeOK
<1>1. IInv => TypeOK
  BY DEF IInv
<1>2. QED BY <1>1, InductiveInvariant, PTL

(* No Frame that feed() returns mixes the bytes of two images.              *)
THEOREM NoTornFrame == Spec => []FrameIntegrity
<1>1. IInv => FrameIntegrity
  BY DEF IInv
<1>2. QED BY <1>1, InductiveInvariant, PTL

-----------------------------------------------------------------------------
(* No complete block is withheld. *)

(* Of the packets heard since the last leader one is a leader.  Until the     *)
(* trailer of its image comes, that is the image being assembled, with every  *)
(* payload heard of it.                                                      *)
OneLeaderHeard ==
    \A p, q \in heard : p.kind = FMT_LEADER /\ q.kind = FMT_LEADER => p = q

StillAssembling(f) ==
    Packet(f, 0) \in heard /\ Packet(f, TrailerId) \notin heard
       => /\ leader = f
          /\ \A k \in PayloadIds : Packet(f, k) \in heard => payloads[k] # None

HeardInv == OneLeaderHeard /\ \A f \in Images : StillAssembling(f)

LEMMA PacketsOfAnImage ==
    ASSUME NEW f \in Images, NEW id \in 0 .. TrailerId
    PROVE  /\ Packet(f, id).kind = FMT_LEADER <=> id = 0
           /\ Packet(f, id).kind = FMT_TRAILER <=> id = TrailerId
           /\ Packet(f, id).packet_id = id
           /\ Packet(f, id).frame = f
           /\ Packet(f, id).block_id = BlockId(f)
           /\ \A p \in PacketSet : p.frame = f /\ p.packet_id = id => p = Packet(f, id)
<1>1. Packet(f, id) \in PacketSet
  BY DEF PacketSet
<1>2. Packet(f, id).packet_id = id /\ Packet(f, id).frame = f
  BY DEF Packet
<1>3. ASSUME NEW p \in PacketSet, p.frame = f, p.packet_id = id
      PROVE  p = Packet(f, id)
  <2>1. PICK g \in Images, j \in 0 .. TrailerId : p = Packet(g, j)
    BY DEF PacketSet
  <2>2. p.frame = g /\ p.packet_id = j
    BY <2>1 DEF Packet
  <2>3. QED
    BY <1>3, <2>1, <2>2
<1>4. QED
  BY <1>1, <1>2, <1>3, PacketFacts

LEMMA PlacesOfPackets ==
    /\ 0 \in 0 .. TrailerId /\ TrailerId \in 0 .. TrailerId
    /\ PayloadIds \subseteq 0 .. TrailerId
    /\ 0 \notin PayloadIds /\ TrailerId \notin PayloadIds /\ TrailerId # 0
    /\ \A k \in 0 .. Payloads : k \in 0 .. TrailerId
    /\ PayloadIds \subseteq 0 .. Payloads
  BY StreamAssumption DEF TrailerId, PayloadIds

LEMMA HeardStep ==
    ASSUME IInv, HeardInv, NEW p \in net, feed(p)
    PROVE  HeardInv'
<1>1. p \in PacketSet
  BY DEF IInv, TypeOK
<1>2. /\ p.frame \in Images /\ p.packet_id \in 0 .. TrailerId /\ p.block_id = BlockId(p.frame)
      /\ p.kind = FMT_LEADER <=> p.packet_id = 0
      /\ p.kind = FMT_TRAILER <=> p.packet_id = TrailerId
      /\ p.kind = FMT_PAYLOAD <=> p.packet_id \in PayloadIds
  BY <1>1, PacketFacts
<1>3. CASE FeedLeader(p)
  <2>1. heard' = {p} /\ leader' = p.frame
    BY <1>3 DEF FeedLeader, Reset
  <2>2. ASSUME NEW f \in Images, Packet(f, 0) = p
        PROVE  /\ p.frame = f
               /\ \A k \in PayloadIds : Packet(f, k) # p
    <3>1. p.frame = f /\ p.packet_id = 0
      BY <2>2, PacketsOfAnImage, PlacesOfPackets
    <3>2. \A k \in PayloadIds : Packet(f, k).packet_id # 0
      BY PacketsOfAnImage, PlacesOfPackets
    <3>3. QED
      BY <3>1, <3>2
  <2>3. OneLeaderHeard'
    BY <2>1 DEF OneLeaderHeard
  <2>4. \A f \in Images : StillAssembling(f)'
    BY <2>1, <2>2 DEF StillAssembling
  <2>5. QED
    BY <2>3, <2>4 DEF HeardInv
<1>4. ASSUME p.kind # FMT_LEADER, heard' = heard \cup {p}
      PROVE  /\ OneLeaderHeard'
             /\ \A f \in Images : Packet(f, 0) \in heard' => Packet(f, 0) \in heard
  <2>1. OneLeaderHeard'
    BY <1>4 DEF HeardInv, OneLeaderHeard
  <2>2. \A f \in Images : Packet(f, 0).kind = FMT_LEADER
    BY PacketsOfAnImage, PlacesOfPackets
  <2>3. QED
    BY <1>4, <2>1, <2>2
<1>5. CASE FeedForeign(p)
  <2>1. /\ p.kind # FMT_LEADER /\ heard' = heard \cup {p} /\ Foreign(p)
        /\ leader' = leader /\ payloads' = payloads
    BY <1>5 DEF FeedForeign, assembler
  <2>2. ASSUME NEW f \in Images, Packet(f, 0) \in heard', Packet(f, TrailerId) \notin heard'
        PROVE  /\ leader' = f
               /\ \A k \in PayloadIds : Packet(f, k) \in heard' => payloads'[k] # None
    <3>1. Packet(f, 0) \in heard /\ Packet(f, TrailerId) \notin heard
      BY <1>4, <2>1, <2>2
    <3>2. /\ leader = f
          /\ \A k \in PayloadIds : Packet(f, k) \in heard => payloads[k] # None
      BY <3>1 DEF HeardInv, StillAssembling
    <3>3. f # None
      BY StreamAssumption DEF Images
    <3>4. block_id = BlockId(f) /\ block_id # None
      BY <3>2, <3>3 DEF IInv, BlockIsRecent
    <3>5. \A k \in PayloadIds : Packet(f, k) # p
      <4>1. \A k \in PayloadIds : Packet(f, k).block_id = BlockId(f)
        BY PacketsOfAnImage, PlacesOfPackets
      <4>2. p.block_id # BlockId(f)
        BY <2>1, <3>4 DEF Foreign
      <4>3. QED
        BY <4>1, <4>2
    <3>6. QED
      BY <2>1, <3>2, <3>5
  <2>3. QED
    BY <1>4, <2>1, <2>2 DEF HeardInv, StillAssembling
<1>6. CASE FeedPayload(p)
  <2>1. /\ p.kind = FMT_PAYLOAD /\ heard' = heard \cup {p} /\ leader' = leader
        /\ payloads' = [payloads EXCEPT ![p.packet_id] = Bytes(p)]
    BY <1>6 DEF FeedPayload
  <2>2. p.packet_id \in PayloadIds /\ p.kind # FMT_LEADER
    BY <1>2, <2>1, PlacesOfPackets
  <2>3. Bytes(p) # None
    <3>1. p.frame \in Nat /\ p.packet_id \in Nat
      BY <1>1, <2>2, PacketFacts DEF PayloadIds
    <3>2. Bytes(p) \in Nat \X Nat
      BY <3>1 DEF Bytes
    <3>3. QED
      BY <3>2, StreamAssumption
  <2>4. /\ payloads'[p.packet_id] # None
        /\ \A k \in PayloadIds : k # p.packet_id => payloads'[k] = payloads[k]
    <3>1. payloads \in [PayloadIds -> BytesSet \cup {None}]
      BY DEF IInv, TypeOK
    <3>2. QED
      BY <2>1, <2>2, <2>3, <3>1
  <2>5. ASSUME NEW f \in Images, Packet(f, 0) \in heard', Packet(f, TrailerId) \notin heard'
        PROVE  /\ leader' = f
               /\ \A k \in PayloadIds : Packet(f, k) \in heard' => payloads'[k] # None
    <3>1. Packet(f, 0) \in heard /\ Packet(f, TrailerId) \notin heard
      BY <1>4, <2>1, <2>2, <2>5
    <3>2. /\ leader = f
          /\ \A k \in PayloadIds : Packet(f, k) \in heard => payloads[k] # None
      BY <3>1 DEF HeardInv, StillAssembling
    <3>3. \A k \in PayloadIds : Packet(f, k) = p => k = p.packet_id
      BY PacketsOfAnImage, PlacesOfPackets
    <3>4. QED
      BY <2>1, <2>4, <3>2, <3>3
  <2>6. QED
    BY <1>4, <2>1, <2>2, <2>5 DEF HeardInv, StillAssembling
<1>7. CASE FeedTrailer(p)
  <2>1. /\ p.kind = FMT_TRAILER /\ heard' = heard \cup {p} /\ ~Foreign(p)
    BY <1>7 DEF FeedTrailer
  <2>2. p.packet_id = TrailerId /\ p.kind # FMT_LEADER /\ p.frame = leader
    BY <1>2, <2>1, OwnPacket, PlacesOfPackets
  <2>3. ASSUME NEW f \in Images, Packet(f, 0) \in heard', Packet(f, TrailerId) \notin heard'
        PROVE  FALSE
    <3>1. Packet(f, 0) \in heard /\ Packet(f, TrailerId) \notin heard
      BY <1>4, <2>1, <2>2, <2>3
    <3>2. leader = f
      BY <3>1 DEF HeardInv, StillAssembling
    <3>3. p = Packet(f, TrailerId)
      BY <1>1, <2>2, <3>2, PacketsOfAnImage, PlacesOfPackets
    <3>4. QED
      BY <2>1, <2>3, <3>3
  <2>4. QED
    BY <1>4, <2>1, <2>2, <2>3 DEF HeardInv, StillAssembling
<1>8. QED
  BY <1>3, <1>5, <1>6, <1>7 DEF feed

LEMMA HeardStays == IInv /\ HeardInv /\ [Next]_vars => HeardInv'
<1> SUFFICES ASSUME IInv, HeardInv, [Next]_vars PROVE HeardInv'
  OBVIOUS
<1>1. ASSUME UNCHANGED <<heard, leader, payloads>>
      PROVE  HeardInv'
  BY <1>1 DEF HeardInv, OneLeaderHeard, StillAssembling
<1>2. CASE \E p \in net : Receive(p)
  BY <1>2, HeardStep DEF Receive
<1>3. CASE NewFrame \/ SendPacket \/ (\E p \in net : Drop(p)) \/ UNCHANGED vars
  BY <1>1, <1>3, Zenon DEF NewFrame, SendPacket, Drop, vars, assembler
<1>4. QED
  BY <1>2, <1>3, Zenon DEF Next

(* The trailer that completes a block finds it whole.                        *)
LEMMA LastPacketReturns ==
    ASSUME IInv, HeardInv, NEW f \in Images, NEW p \in net, feed(p),
           BlockHeard(f), Packet(f, TrailerId) \in heard' \ heard
    PROVE  returned' = Append(returned, Frame) /\ leader = f
<1>1. p \in PacketSet
  BY DEF IInv, TypeOK
<1>2. heard' \subseteq heard \cup {p}
  BY Zenon DEF feed, FeedLeader, FeedForeign, FeedPayload, FeedTrailer
<1>3. p = Packet(f, TrailerId)
  BY <1>2
<1>4. p.kind = FMT_TRAILER /\ p.block_id = BlockId(f) /\ p.packet_id = TrailerId
  BY <1>3, PacketsOfAnImage, PlacesOfPackets
<1>5. Packet(f, 0) \in heard /\ \A k \in PayloadIds : Packet(f, k) \in heard
  <2>1. 0 \in 0 .. Payloads
    BY StreamAssumption
  <2>2. QED
    BY <2>1, PlacesOfPackets DEF BlockHeard
<1>6. leader = f /\ \A k \in PayloadIds : payloads[k] # None
  BY <1>5 DEF HeardInv, StillAssembling
<1>7. ~Foreign(p)
  <2>1. f # None
    BY StreamAssumption DEF Images
  <2>2. block_id = BlockId(f) /\ block_id # None
    BY <1>6, <2>1 DEF IInv, BlockIsRecent
  <2>3. QED
    BY <1>4, <2>2 DEF Foreign
<1>8. IsComplete(p)
  <2>1. payloads \in [PayloadIds -> BytesSet \cup {None}]
    BY DEF IInv, TypeOK
  <2>2. Keys(payloads) = PayloadIds
    BY <1>6, <2>1 DEF Keys
  <2>3. p.packet_id - 1 = Payloads
    BY <1>4, StreamAssumption DEF TrailerId
  <2>4. QED
    BY <2>2, <2>3 DEF IsComplete, PayloadIds
<1>9. FeedTrailer(p)
  BY <1>4, <1>7 DEF feed, FeedLeader, FeedForeign, FeedPayload, FMT_LEADER, FMT_TRAILER, FMT_PAYLOAD
<1>10. QED
  BY <1>6, <1>8, <1>9 DEF FeedTrailer

(* feed() hands on an image when its trailer arrives after the leader and all *)
(* payloads of its block and no other leader between, for every block size   *)
(* and whatever else was lost, repeated or reordered.                        *)
THEOREM CompleteBlocksReturn == Spec => CompleteBlockReturned
<1> DEFINE Returns == \A f \in Images :
              BlockHeard(f) /\ Packet(f, TrailerId) \in heard' \ heard
                 => /\ Len(returned') = Len(returned) + 1
                    /\ returned'[Len(returned')].leader = f
<1>1. Init => HeardInv
  BY DEF Init, HeardInv, OneLeaderHeard, StillAssembling
<1>2. IInv /\ HeardInv /\ [Next]_vars => HeardInv'
  BY HeardStays
<1>3. IInv /\ HeardInv /\ [Next]_vars => [Returns]_vars
  <2> SUFFICES ASSUME IInv, HeardInv, Next,
                      NEW f \in Images, BlockHeard(f), Packet(f, TrailerId) \in heard' \ heard
               PROVE  /\ Len(returned') = Len(returned) + 1
                      /\ returned'[Len(returned')].leader = f
    OBVIOUS
  <2>1. PICK p \in net : feed(p)
    <3>1. heard' # heard
      OBVIOUS
    <3>2. QED
      BY <3>1, Zenon DEF Next, NewFrame, SendPacket, Drop, Receive
  <2>2. returned' = Append(returned, Frame) /\ leader = f
    BY <2>1, LastPacketReturns
  <2>3. returned \in Seq(FrameSet)
    BY DEF IInv, TypeOK
  <2>4. Len(returned') = Len(returned) + 1 /\ returned'[Len(returned) + 1] = Frame
    BY <2>2, <2>3
  <2>5. Frame.leader = f
    BY <2>2 DEF Frame
  <2>6. QED
    BY <2>4, <2>5
<1> HIDE DEF Returns
<1>4. CompleteBlockReturned <=> [][Returns]_vars
  BY DEF CompleteBlockReturned, Returns
<1>5. QED
  BY <1>1, <1>2, <1>3, <1>4, InductiveInvariant, PTL DEF Spec

-----------------------------------------------------------------------------
(* Over a network that does not reorder, FrameAssembler implements FrameFeed. *)

shownIds == [i \in DOMAIN returned |-> returned[i].leader]
newest   == Feed!Newest(shownIds)

(* Of the last image handed on only a repeated trailer can still arrive; the *)
(* block being assembled, and what the camera has yet to send, is newer.     *)
InOrderInv ==
    /\ \A p \in net : /\ p.frame >= newest
                      /\ p.frame = newest => p.packet_id = TrailerId
                      /\ p.frame = frame => p.packet_id < next
    /\ leader # None => leader > newest
    /\ newest <= frame
    /\ newest = frame => next > TrailerId

LEMMA NewestFacts ==
  ASSUME TypeOK
  PROVE  /\ shownIds \in Seq(Images)
         /\ newest \in Nat
<1> USE StreamAssumption
<1>1. /\ Len(returned) \in Nat
      /\ DOMAIN returned = 1 .. Len(returned)
      /\ \A i \in DOMAIN returned : returned[i].leader \in Images
  <2>1. \A fr \in FrameSet : fr.leader \in Images
    BY DEF FrameSet
  <2>2. /\ Len(returned) \in Nat
        /\ DOMAIN returned = 1 .. Len(returned)
        /\ \A i \in 1 .. Len(returned) : returned[i] \in FrameSet
    BY DEF TypeOK
  <2>3. QED BY <2>1, <2>2
<1>2. shownIds \in Seq(Images) /\ Len(shownIds) = Len(returned)
  BY <1>1 DEF shownIds
<1>3. newest \in Nat
  BY <1>2 DEF newest, Feed!Newest, Images
<1>4. QED BY <1>2, <1>3

(* Returning a frame shows its image; returning none shows nothing.         *)
LEMMA ReturnShows ==
  ASSUME TypeOK, NEW fr \in FrameSet, returned' = Append(returned, fr)
  PROVE  /\ shownIds' = Append(shownIds, fr.leader)
         /\ newest' = fr.leader
<1>1. /\ Len(returned) \in Nat
      /\ DOMAIN returned = 1 .. Len(returned)
      /\ DOMAIN returned' = 1 .. (Len(returned) + 1)
      /\ \A i \in 1 .. Len(returned) : returned'[i] = returned[i]
      /\ returned'[Len(returned) + 1] = fr
  BY DEF TypeOK
<1>2. shownIds \in Seq(Images) /\ Len(shownIds) = Len(returned) /\ fr.leader \in Images
  BY <1>1, NewestFacts DEF shownIds, FrameSet
<1>3. shownIds' = Append(shownIds, fr.leader)
  <2>1. shownIds' = [i \in 1 .. (Len(returned) + 1) |-> returned'[i].leader]
    BY <1>1 DEF shownIds
  <2>2. Append(shownIds, fr.leader)
          = [i \in 1 .. (Len(returned) + 1) |-> IF i <= Len(returned) THEN shownIds[i] ELSE fr.leader]
    BY <1>1, <1>2
  <2>3. \A i \in 1 .. (Len(returned) + 1) :
           returned'[i].leader = IF i <= Len(returned) THEN shownIds[i] ELSE fr.leader
    BY <1>1 DEF shownIds
  <2>4. QED BY <2>1, <2>2, <2>3
<1>4. newest' = fr.leader
  BY <1>2, <1>3 DEF newest, Feed!Newest
<1>5. QED BY <1>3, <1>4

LEMMA InOrderInit == Init => InOrderInv /\ Feed!Init
<1> USE StreamAssumption
<1> SUFFICES ASSUME Init PROVE InOrderInv /\ Feed!Init
  OBVIOUS
<1>1. shownIds = << >> /\ newest = 0
  BY DEF Init, shownIds, newest, Feed!Newest
<1>2. InOrderInv
  BY <1>1 DEF Init, InOrderInv, TrailerId
<1>3. Feed!Init
  BY <1>1 DEF Init, Feed!Init, shownIds
<1>4. QED BY <1>2, <1>3

LEMMA InOrderStep ==
  ASSUME ~Reorders, IInv, IInv', InOrderInv, [Next]_vars
  PROVE  InOrderInv' /\ [Feed!Next]_(Feed!vars)
<1> USE StreamAssumption
<1>0. /\ TypeOK /\ newest \in Nat /\ frame \in Nat /\ next \in Nat
      /\ \A p \in net : p \in PacketSet /\ p.frame \in Nat /\ p.packet_id \in Nat
  BY NewestFacts, PacketFacts DEF IInv, TypeOK
<1>1. ASSUME UNCHANGED returned PROVE shownIds' = shownIds /\ newest' = newest
  BY <1>1 DEF shownIds, newest
<1>2. CASE NewFrame
  <2>1. shownIds' = shownIds /\ newest' = newest /\ frame' = frame + 1
    BY <1>1, <1>2 DEF NewFrame
  <2>2. InOrderInv'
    <3>1. \A p \in net : p.frame # frame + 1
      BY <1>0 DEF IInv, NetIsRecent
    <3>2. QED
      BY <1>0, <1>2, <2>1, <3>1 DEF NewFrame, InOrderInv, assembler
  <2>3. Feed!Capture
    BY <1>2, <2>1 DEF NewFrame, Feed!Capture, shownIds
  <2>4. QED BY <2>2, <2>3 DEF Feed!Next
<1>3. CASE SendPacket
  <2> DEFINE new == Packet(frame, next)
  <2>1. shownIds' = shownIds /\ newest' = newest
    BY <1>1, <1>3 DEF SendPacket
  <2>2. /\ net' = net \cup {new} /\ new.frame = frame /\ new.packet_id = next
        /\ next' = next + 1 /\ next <= TrailerId
    BY <1>3 DEF SendPacket, Packet
  <2>3. newest < frame
    BY <1>0, <2>2 DEF InOrderInv, TrailerId
  <2>4. InOrderInv'
    BY <1>0, <1>3, <2>1, <2>2, <2>3 DEF SendPacket, InOrderInv, assembler
  <2>5. UNCHANGED Feed!vars
    BY <1>3, <2>1 DEF SendPacket, Feed!vars, shownIds
  <2>6. QED BY <2>4, <2>5
<1>4. ASSUME NEW p \in net, Drop(p) PROVE InOrderInv' /\ UNCHANGED Feed!vars
  <2>1. shownIds' = shownIds /\ newest' = newest
    BY <1>1, <1>4 DEF Drop
  <2>2. QED
    BY <1>4, <2>1 DEF Drop, InOrderInv, assembler, camera, Feed!vars, shownIds
<1>5. ASSUME NEW p \in net, Receive(p) PROVE InOrderInv' /\ [Feed!Next]_(Feed!vars)
  <2>1. /\ net' \subseteq net
        /\ frame' = frame /\ next' = next
        /\ \A q \in net : ~Before(q, p)
    BY <1>5 DEF Receive, Arrives, Deliverable, camera
  <2>2. CASE FeedLeader(p)
    <3>1. shownIds' = shownIds /\ newest' = newest /\ leader' = p.frame
      BY <1>1, <2>2 DEF FeedLeader, Reset
    <3>2. p.frame > newest
      BY <1>0, <2>2, PacketFacts DEF FeedLeader, InOrderInv, TrailerId
    <3>3. InOrderInv'
      BY <2>1, <3>1, <3>2 DEF InOrderInv
    <3>4. UNCHANGED Feed!vars
      BY <2>1, <3>1 DEF Feed!vars, shownIds
    <3>5. QED BY <3>3, <3>4
  <2>3. CASE FeedForeign(p) \/ FeedPayload(p)
    <3>1. shownIds' = shownIds /\ newest' = newest /\ leader' = leader
      BY <1>1, <2>3 DEF FeedForeign, FeedPayload, assembler
    <3>2. InOrderInv'
      BY <2>1, <3>1 DEF InOrderInv
    <3>3. UNCHANGED Feed!vars
      BY <2>1, <3>1 DEF Feed!vars, shownIds
    <3>4. QED BY <3>2, <3>3
  <2>4. CASE FeedTrailer(p) /\ ~IsComplete(p)
    <3>1. shownIds' = shownIds /\ newest' = newest /\ leader' = None
      BY <1>1, <2>4 DEF FeedTrailer, Reset
    <3>2. InOrderInv'
      BY <2>1, <3>1 DEF InOrderInv
    <3>3. UNCHANGED Feed!vars
      BY <2>1, <3>1 DEF Feed!vars, shownIds
    <3>4. QED BY <3>2, <3>3
  <2>5. CASE FeedTrailer(p) /\ IsComplete(p)
    <3>1. /\ returned' = Append(returned, Frame) /\ Frame \in FrameSet
          /\ Frame.leader = leader /\ leader' = None
          /\ leader \in Images /\ p.frame = leader
          /\ p.packet_id = TrailerId
      BY <1>0, <2>5, CompleteIsWhole, OwnPacket, PacketFacts
      DEF FeedTrailer, Reset, Frame
    <3>2. shownIds' = Append(shownIds, leader) /\ newest' = leader
      BY <1>0, <3>1, ReturnShows
    <3>3. /\ leader > newest /\ leader <= frame /\ leader \in Nat
          /\ leader # None
      BY <1>0, <3>1 DEF InOrderInv, IInv, BlockIsRecent
    <3>4. Feed!Show
      <4>1. leader \in (Feed!Newest(shownIds) + 1) .. frame
        BY <1>0, <3>3 DEF newest
      <4>2. QED BY <2>1, <3>2, <4>1 DEF Feed!Show, shownIds
    <3>5. \A q \in net : q.frame >= leader /\ (q.frame = leader => q.packet_id = TrailerId)
      <4>1. \A q \in net : q.packet_id <= TrailerId
        BY <1>0, PacketFacts DEF TrailerId
      <4>2. QED BY <1>0, <2>1, <3>1, <3>3, <4>1 DEF Before, TrailerId
    <3>6. leader = frame => next > TrailerId
      BY <1>0, <3>1 DEF InOrderInv, TrailerId
    <3>7. InOrderInv'
      BY <2>1, <3>1, <3>2, <3>3, <3>5, <3>6 DEF InOrderInv
    <3>8. QED BY <3>4, <3>7 DEF Feed!Next
  <2>6. QED BY <1>5, <2>2, <2>3, <2>4, <2>5 DEF Receive, feed
<1>6. CASE UNCHANGED vars
  BY <1>1, <1>6 DEF vars, InOrderInv, Feed!vars, shownIds
<1>7. QED BY <1>2, <1>3, <1>4, <1>5, <1>6 DEF Next

(* Over a network that keeps its datagrams in order, the receiver hands on  *)
(* only images the camera captured, none twice and none after a newer one,  *)
(* whatever is lost or repeated: FrameAssembler implements FrameFeed.       *)
THEOREM InOrderDelivery ==
  ASSUME ~Reorders
  PROVE  Spec => FeedSpec
<1>1. Init => InOrderInv /\ Feed!Init
  BY InOrderInit
<1>2. IInv /\ IInv' /\ InOrderInv /\ [Next]_vars => InOrderInv' /\ [Feed!Next]_(Feed!vars)
  BY InOrderStep
<1>3. QED BY <1>1, <1>2, InductiveInvariant, PTL DEF Spec, FeedSpec, Feed!Spec
=============================================================================
