--------------------------- MODULE FrameAssembler ---------------------------
(***************************************************************************)
(* Reassembly of GVSP packets into images:                                 *)
(* observers/blackfly/gvsp.py (parse_packet, FrameAssembler) fed by the    *)
(* receiver loop of camera.py, and a camera that streams to it over UDP.   *)
(*                                                                         *)
(* An image is sent as one block: a leader (packet id 0), the payloads     *)
(* 1..Payloads and a trailer whose id is Payloads + 1.  The bytes of a     *)
(* packet are abstracted to the image and position they were cut from.     *)
(* Datagrams may be lost, and reordered or duplicated when the constants   *)
(* say so.                                                                 *)
(***************************************************************************)
EXTENDS Integers, FiniteSets, Sequences

CONSTANTS Payloads,     \* payload packets of a block
          IdModulus,    \* block ids are 16 bits wide and wrap: frame % IdModulus
          MaxFrames,    \* bound: images the camera sends
          MaxInFlight,  \* bound: datagrams in the network at once
          LossyUntil,   \* datagrams of images after this one are not lost
          Reorders,     \* may the network reorder datagrams?
          MaxDups,      \* bound: deliveries of a datagram the network repeats
          None          \* Python's None

ASSUME StreamAssumption ==
    /\ Payloads \in Nat \ {0}
    /\ IdModulus \in Nat \ {0}
    /\ MaxFrames \in Nat
    /\ MaxInFlight \in Nat
    /\ LossyUntil \in Nat
    /\ Reorders \in BOOLEAN
    /\ MaxDups \in Nat
    /\ None \notin Nat
    /\ None \notin Nat \X Nat

VARIABLES frame,     \* camera: number of the image being sent, 0 before the first
          next,      \* camera: id of the next packet of that image to send
          net,       \* datagrams on their way to the host
          dups,      \* deliveries the network has repeated
          block_id,  \* FrameAssembler._block_id
          leader,    \* FrameAssembler._leader
          payloads,  \* FrameAssembler._payloads, None at the keys the dict lacks
          returned,  \* the Frames that feed() has returned, in order
          heard      \* history: the packets fed since the last leader, that leader included

camera == <<frame, next>>
assembler == <<block_id, leader, payloads>>
vars == <<frame, next, net, dups, block_id, leader, payloads, returned, heard>>

-----------------------------------------------------------------------------
(* Packets *)

FMT_LEADER  == "leader"
FMT_TRAILER == "trailer"
FMT_PAYLOAD == "payload"

PayloadIds == 1 .. Payloads
TrailerId  == Payloads + 1
BlockId(f) == f % IdModulus

Kind(id) == CASE id = 0         -> FMT_LEADER
              [] id = TrailerId -> FMT_TRAILER
              [] OTHER          -> FMT_PAYLOAD

(* The packet parse_packet makes of the id-th datagram of image f.  "frame" *)
(* is not on the wire: it says whose leader or bytes the packet carries.    *)
Packet(f, id) == [kind |-> Kind(id), block_id |-> BlockId(f), packet_id |-> id, frame |-> f]

Bytes(p) == <<p.frame, p.packet_id>>

NoPayloads == [k \in PayloadIds |-> None]
Keys(d)    == {k \in DOMAIN d : d[k] # None}

-----------------------------------------------------------------------------
Init ==
    /\ frame = 0 /\ next = TrailerId + 1
    /\ net = {} /\ dups = 0
    /\ block_id = None /\ leader = None /\ payloads = NoPayloads
    /\ returned = << >>
    /\ heard = {}

(***************************************************************************)
(* The camera.  Block ids are reused after IdModulus images.  A new image  *)
(* gets an id that neither a datagram in the network nor the block being   *)
(* assembled still carries: no datagram lives for a whole cycle of ids,    *)
(* and not every leader of a whole cycle is lost.                          *)
(***************************************************************************)
IdIsFresh(f) ==
    /\ \A p \in net : f - p.frame < IdModulus
    /\ leader # None => f - leader < IdModulus

NewFrame ==
    /\ next > TrailerId
    /\ frame < MaxFrames
    /\ IdIsFresh(frame + 1)
    /\ frame' = frame + 1
    /\ next' = 0
    /\ UNCHANGED <<net, dups, assembler, returned, heard>>

SendPacket ==
    /\ next <= TrailerId
    /\ Cardinality(net) < MaxInFlight
    /\ net' = net \cup {Packet(frame, next)}
    /\ next' = next + 1
    /\ UNCHANGED <<frame, dups, assembler, returned, heard>>

-----------------------------------------------------------------------------
(* The network *)

Before(p, q) == \/ p.frame < q.frame
                \/ p.frame = q.frame /\ p.packet_id < q.packet_id

Deliverable(p) == Reorders \/ \A q \in net : ~Before(q, p)

(* The datagram is lost, or parse_packet rejects it and the receiver loop  *)
(* goes on to the next one.                                                *)
Drop(p) ==
    /\ p.frame <= LossyUntil
    /\ net' = net \ {p}
    /\ UNCHANGED <<camera, dups, assembler, returned, heard>>

Arrives(p) ==
    /\ Deliverable(p)
    /\ \/ net' = net \ {p} /\ UNCHANGED dups
       \/ dups < MaxDups /\ dups' = dups + 1 /\ UNCHANGED net

-----------------------------------------------------------------------------
(* FrameAssembler *)

(* Fault: the payloads of the block before are kept.                        *)
ResetKeepsPayloads(b, l) ==
    /\ block_id' = b
    /\ leader' = l
    /\ UNCHANGED payloads

Reset(b, l) ==
    /\ block_id' = b
    /\ leader' = l
    /\ payloads' = NoPayloads

(* b"".join over the payloads sorted by their ids *)
Joined == [i \in PayloadIds |-> payloads[i]]

Foreign(p) == block_id = None \/ p.block_id # block_id

(* Fault: a leader does not interrupt the block being assembled.            *)
FeedLeaderWhenIdle(p) ==
    /\ p.kind = FMT_LEADER
    /\ IF leader = None THEN Reset(p.block_id, p.frame) ELSE UNCHANGED assembler
    /\ heard' = {p}
    /\ UNCHANGED returned

FeedLeader(p) ==
    /\ p.kind = FMT_LEADER
    /\ Reset(p.block_id, p.frame)
    /\ heard' = {p}
    /\ UNCHANGED returned

FeedForeign(p) ==
    /\ p.kind # FMT_LEADER
    /\ Foreign(p)
    /\ heard' = heard \cup {p}
    /\ UNCHANGED <<assembler, returned>>

FeedPayload(p) ==
    /\ p.kind = FMT_PAYLOAD
    /\ ~Foreign(p)
    /\ payloads' = [payloads EXCEPT ![p.packet_id] = Bytes(p)]
    /\ heard' = heard \cup {p}
    /\ UNCHANGED <<block_id, leader, returned>>

Frame == [block_id |-> block_id, leader |-> leader, data |-> Joined]

(* Fault: the trailer's own id is expected too.                              *)
IsCompleteWithTrailer(p) == Keys(payloads) = 1 .. p.packet_id

IsComplete(p) == Keys(payloads) = 1 .. (p.packet_id - 1)

(* Fault: only an incomplete block is reset.                                *)
FeedTrailerKeepsBlock(p) ==
    /\ p.kind = FMT_TRAILER
    /\ ~Foreign(p)
    /\ IF IsComplete(p)
       THEN returned' = Append(returned, Frame) /\ UNCHANGED assembler
       ELSE UNCHANGED returned /\ Reset(None, None)
    /\ heard' = heard \cup {p}

FeedTrailer(p) ==
    /\ p.kind = FMT_TRAILER
    /\ ~Foreign(p)
    /\ IF IsComplete(p)
       THEN returned' = Append(returned, Frame)
       ELSE UNCHANGED returned
    /\ Reset(None, None)
    /\ heard' = heard \cup {p}

feed(p) == FeedLeader(p) \/ FeedForeign(p) \/ FeedPayload(p) \/ FeedTrailer(p)

Receive(p) == Arrives(p) /\ feed(p) /\ UNCHANGED camera

Next ==
    \/ NewFrame
    \/ SendPacket
    \/ \E p \in net : Drop(p) \/ Receive(p)

Spec == Init /\ [][Next]_vars

(* The camera goes on streaming and the receiver thread goes on reading.    *)
LiveSpec ==
    /\ Spec
    /\ WF_vars(NewFrame)
    /\ WF_vars(SendPacket)
    /\ WF_vars(\E p \in net : Receive(p))
-----------------------------------------------------------------------------
(* Properties *)

Images     == 1 .. MaxFrames
BlockIds   == 0 .. (IdModulus - 1)
BytesSet   == Images \X PayloadIds
PacketSet  == {Packet(f, id) : f \in Images, id \in 0 .. TrailerId}
FrameSet   == [block_id : BlockIds, leader : Images, data : [PayloadIds -> BytesSet]]

(* Types of the state: in particular a Frame has bytes at every payload     *)
(* position, none of them missing.                                          *)
TypeOK ==
    /\ frame \in 0 .. MaxFrames
    /\ next \in 0 .. (TrailerId + 1)
    /\ net \subseteq PacketSet
    /\ dups \in 0 .. MaxDups
    /\ block_id \in BlockIds \cup {None}
    /\ leader \in Images \cup {None}
    /\ payloads \in [PayloadIds -> BytesSet \cup {None}]
    /\ returned \in Seq(FrameSet)
    /\ heard \subseteq PacketSet

(* No torn image: whatever was lost, reordered or delivered twice, and       *)
(* although block ids repeat, a Frame that feed() returns has every byte of  *)
(* the image of its leader, each at its own position.                        *)
IsWhole(fr) ==
    /\ fr.block_id = BlockId(fr.leader)
    /\ fr.data = [k \in PayloadIds |-> <<fr.leader, k>>]

FrameIntegrity == \A i \in DOMAIN returned : IsWhole(returned[i])

(* Nothing is thrown away needlessly: a trailer that arrives (the first time) *)
(* after the leader and all payloads of its block, with no other leader in    *)
(* between, makes feed() return that image - whatever foreign, repeated or    *)
(* reordered packets came among them.                                         *)
BlockHeard(f) == \A id \in 0 .. Payloads : Packet(f, id) \in heard

CompleteBlockReturned ==
    [][\A f \in Images :
          BlockHeard(f) /\ Packet(f, TrailerId) \in heard' \ heard
             => /\ Len(returned') = Len(returned) + 1
                /\ returned'[Len(returned')].leader = f]_vars

(* Over a network that keeps datagrams in order the receiver hands on each   *)
(* image at most once and never an older one after a newer one.              *)
Feed == INSTANCE FrameFeed WITH captured <- frame,
                                shown    <- [i \in DOMAIN returned |-> returned[i].leader]
FeedSpec == Feed!Spec

(* No pattern of losses wedges the assembler: every image whose own datagrams *)
(* all arrive in order is handed on, whatever fragments of earlier images     *)
(* the assembler was left with.                                               *)
Recovers ==
    \A f \in Images :
       f > LossyUntil => <>(\E i \in DOMAIN returned : returned[i].leader = f)
=============================================================================
