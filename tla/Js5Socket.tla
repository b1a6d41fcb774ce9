----------------------------- MODULE Js5Socket -----------------------------
(***************************************************************************)
(* js5::Js5Socket (src/network/Js5Socket.cpp): one connection, one request *)
(* at a time.  A container is sent in blocks of at most MaxBlock bytes,    *)
(* each of which repeats the five bytes that name the file; the client     *)
(* finds the end of the container and of every block by counting.          *)
(*                                                                         *)
(* Bytes are abstracted to their places: wire lists the containers that    *)
(* are still to be read off the connection, and <<inBlock, offset>> is     *)
(* where in the first of them, as the server framed it, the next byte is.  *)
(*                                                                         *)
(* A call that fails leaves connected_ set, so the callers that keep the   *)
(* object (RSCache, Js5Cache) go on calling it, and the next call starts   *)
(* wherever the failed one stopped reading.  What five bytes of data say   *)
(* when they are read as a name is not modelled: they may be the name the  *)
(* call waits for, and from then on nothing is known of what it reads.     *)
(*                                                                         *)
(* Environment: the server's framing, a peer that may close at any byte,   *)
(* up to MaxStrays containers nobody asked for, and callers that start no  *)
(* call while MaxBacklog containers are still to be read.                  *)
(***************************************************************************)
EXTENDS Integers, Sequences

CONSTANTS
  Files,      \* <<major, minor>> pairs
  Packed,     \* those with a compression type other than 0
  Size,       \* Size[f]: the compressedSize in f's container
  MaxBlock,   \* kMaxBlockSize
  MaxStrays,
  MaxBacklog

IdLen == 5
CompLen == 5

ASSUME SocketAssumption ==
  /\ Packed \subseteq Files /\ Size \in [Files -> Nat]
  /\ MaxBlock \in Nat /\ MaxBlock > IdLen + CompLen
  /\ MaxStrays \in Nat /\ MaxBacklog \in Nat

VARIABLES
  pc,          \* no object, between calls, or the read getFile waits in
  req,         \* the file the last call asked for
  total,       \* totalBytes
  current,     \* currentBytes
  bytesread,   \* of the block at hand, by the client's count
  wire,        \* Seq(Files)
  inBlock,     \* bytes of the block at hand that are behind
  offset,      \* bytes of the container at hand that are behind
  peerClosed,
  strays,      \* containers nobody asked for, on this connection
  misread,     \* history: a header or data were read as the other
  astray       \* history: on this connection a name was read where no
               \* container begins

call == <<req, total, current, bytesread>>
stream == <<wire, inBlock, offset>>
vars == <<pc, call, stream, peerClosed, strays, misread, astray>>

Reading == {"id", "comp", "payload"}

(* The length of a container: type, size, and for a packed one the size    *)
(* when unpacked.                                                          *)
Length(f) == CompLen + (IF f \in Packed THEN 4 ELSE 0) + Size[f]

(* What the connection and a call on it hold; the client never counts more *)
(* bytes of a block than a block has.                                      *)
TypeOK ==
  /\ pc \in {"none", "idle", "failed"} \cup Reading
  /\ req \in Files
  /\ total \in Nat \cup {-1} /\ current \in Nat /\ bytesread \in 0..MaxBlock
  /\ wire \in Seq(Files) /\ inBlock \in 0..MaxBlock /\ offset \in Nat
  /\ peerClosed \in BOOLEAN /\ strays \in 0..MaxStrays
  /\ misread \in BOOLEAN /\ astray \in BOOLEAN
-----------------------------------------------------------------------------
(* The server's framing: data follows data up to the end of the block or   *)
(* of the container, and then comes the name of the next block's file.     *)
HoldsData(n) ==
  /\ inBlock >= IdLen /\ inBlock + n <= MaxBlock
  /\ offset + n <= Length(Head(wire))

(* n bytes of container data come off the connection. *)
TakesData(n) ==
  IF n = 0 THEN UNCHANGED <<stream, misread>>
  ELSE /\ misread' = (misread \/ ~HoldsData(n))
       /\ IF offset + n >= Length(Head(wire))
          THEN /\ wire' = Tail(wire) /\ inBlock' = 0 /\ offset' = 0
          ELSE /\ wire' = wire /\ offset' = offset + n
               /\ inBlock' = IF inBlock + n >= MaxBlock THEN 0 ELSE inBlock + n

(* Five bytes come off the connection, wherever it is: what is left of a   *)
(* name and data of its block, or data and what follows them.  At the end  *)
(* of what is owed recv waits for more.                                    *)
TakesFive ==
  LET data == IF inBlock < IdLen THEN inBlock ELSE IdLen
      left == Length(Head(wire)) - offset
      room == MaxBlock - inBlock IN
  \/ \* the container ends
     /\ left <= data /\ left <= room
     /\ Tail(wire) = <<>> => left = data
     /\ wire' = Tail(wire) /\ inBlock' = data - left /\ offset' = 0
  \/ \* the block ends
     /\ room <= data /\ room < left
     /\ wire' = wire /\ inBlock' = data - room /\ offset' = offset + room
  \/ /\ data < left /\ data < room
     /\ wire' = wire /\ inBlock' = inBlock + IdLen /\ offset' = offset + data

Init ==
  /\ pc = "none" /\ req \in Files
  /\ total = -1 /\ current = 0 /\ bytesread = 0
  /\ wire = <<>> /\ inBlock = 0 /\ offset = 0
  /\ peerClosed = FALSE /\ strays = 0 /\ misread = FALSE /\ astray = FALSE

(* The constructor, when connect and both handshakes succeed; when one of  *)
(* them throws there is no object.                                         *)
Connect ==
  /\ pc = "none"
  /\ pc' = "idle" /\ peerClosed' = FALSE
  /\ total' = -1 /\ current' = 0 /\ bytesread' = 0
  /\ strays' = 0 /\ astray' = FALSE
  /\ UNCHANGED <<req, stream, misread>>

(* The destructor.  A caller that reconnects, as the mirror does after     *)
(* every exception, begins with it.                                        *)
Destroy ==
  /\ pc \in {"idle", "failed"}
  /\ pc' = "none" /\ wire' = <<>> /\ inBlock' = 0 /\ offset' = 0
  /\ UNCHANGED <<call, peerClosed, strays, misread, astray>>

(* getFile(f), after a call that returned or one that threw: it looks at   *)
(* connected_ only, which nothing clears.  The request is written, and a   *)
(* server that has not closed will answer it behind what it sent before.   *)
Request(f) ==
  /\ pc \in {"idle", "failed"} /\ Len(wire) < MaxBacklog
  /\ pc' = "id" /\ req' = f
  /\ total' = -1 /\ current' = 0 /\ bytesread' = 0
  /\ wire' = IF peerClosed \/ astray THEN wire ELSE Append(wire, f)
  /\ UNCHANGED <<inBlock, offset, peerClosed, strays, misread, astray>>

(* The name asked for is there, at the start of a block; of the container  *)
(* when the call waits for its first block.                                *)
AtName ==
  /\ wire # <<>> /\ Head(wire) = req
  /\ total < 0 => inBlock = 0 /\ offset = 0

(* Mutant: the count of the block's bytes is not reset. *)
ReadIdUnreset ==
  /\ pc = "id" /\ AtName
  /\ misread' = (misread \/ inBlock # 0)
  /\ inBlock' = IdLen
  /\ bytesread' = bytesread + IdLen
  /\ pc' = IF total < 0 THEN "comp" ELSE "payload"
  /\ UNCHANGED <<req, total, current, wire, offset, peerClosed, strays, astray>>

(* The name of the block's file: the one asked for. *)
ReadId ==
  /\ pc = "id" /\ AtName
  /\ misread' = (misread \/ inBlock # 0)
  /\ inBlock' = IdLen
  /\ bytesread' = IdLen
  /\ pc' = IF total < 0 THEN "comp" ELSE "payload"
  /\ UNCHANGED <<req, total, current, wire, offset, peerClosed, strays, astray>>

(* Another file's, or bytes that are not the name asked for: "file-id      *)
(* mismatch".  The five bytes are gone.                                    *)
Mismatch ==
  /\ pc = "id" /\ wire # <<>> /\ (inBlock = 0 => Head(wire) # req)
  /\ TakesFive
  /\ pc' = "failed"
  /\ UNCHANGED <<call, peerClosed, strays, misread, astray>>

(* Past the start of a container five bytes are taken for the name that    *)
(* the call waits for: data that happen to say so (a compression type and  *)
(* a size, say, that are the index and the archive), or the name on a      *)
(* later block of that file.                                               *)
GoesAstray ==
  /\ pc = "id" /\ total < 0 /\ wire # <<>>
  /\ inBlock # 0 \/ (offset # 0 /\ Head(wire) = req)
  /\ astray' = TRUE
  /\ wire' = <<>> /\ inBlock' = 0 /\ offset' = 0
  /\ UNCHANGED <<pc, call, peerClosed, strays, misread>>

(* What such a call reads, and every later one on the connection, is       *)
(* anything: it returns, throws, or (no step) waits for ever.              *)
Blind ==
  /\ astray /\ pc \in Reading
  /\ pc' \in {"idle", "failed"}
  /\ UNCHANGED <<call, stream, peerClosed, strays, misread, astray>>

(* Mutant: the four bytes of the unpacked size are not counted. *)
ReadCompShort ==
  /\ pc = "comp" /\ wire # <<>>
  /\ TakesData(CompLen)
  /\ total' = CompLen + Size[req]
  /\ current' = CompLen
  /\ bytesread' = bytesread + CompLen
  /\ pc' = "payload"
  /\ UNCHANGED <<req, peerClosed, strays, astray>>

(* Mutant: the first block's ten bytes of headers are counted as five. *)
ReadCompUncounted ==
  /\ pc = "comp" /\ wire # <<>>
  /\ TakesData(CompLen)
  /\ total' = CompLen + (IF req \in Packed THEN 4 ELSE 0) + Size[req]
  /\ current' = CompLen
  /\ pc' = "payload"
  /\ UNCHANGED <<req, bytesread, peerClosed, strays, astray>>

(* Compression type and size, at the start of the first block. *)
ReadComp ==
  /\ pc = "comp" /\ wire # <<>>
  /\ TakesData(CompLen)
  /\ total' = CompLen + (IF req \in Packed THEN 4 ELSE 0) + Size[req]
  /\ current' = CompLen
  /\ bytesread' = bytesread + CompLen
  /\ pc' = "payload"
  /\ UNCHANGED <<req, peerClosed, strays, astray>>

(* What is left of the container or fits in the block, whichever is less.  *)
PayloadSize ==
  LET left == total - current IN
  IF MaxBlock - bytesread < left THEN MaxBlock - bytesread ELSE left

(* Mutant: one more block is expected after a container that ends with one. *)
ReadPayloadOnce ==
  /\ pc = "payload" /\ (PayloadSize > 0 => wire # <<>>)
  /\ TakesData(PayloadSize)
  /\ current' = current + PayloadSize
  /\ pc' = IF current' < total \/ bytesread + PayloadSize = MaxBlock
           THEN "id" ELSE "idle"
  /\ UNCHANGED <<req, total, bytesread, peerClosed, strays, astray>>

ReadPayload ==
  /\ pc = "payload" /\ (PayloadSize > 0 => wire # <<>>)
  /\ TakesData(PayloadSize)
  /\ current' = current + PayloadSize
  /\ pc' = IF current + PayloadSize < total THEN "id" ELSE "idle"
  /\ UNCHANGED <<req, total, bytesread, peerClosed, strays, astray>>

(* Once the peer has closed, recv fails when the bytes that had arrived    *)
(* are read; what is left on the wire by then never comes.                 *)
ReadFails ==
  /\ peerClosed /\ pc \in Reading
  /\ pc' = "failed"
  /\ wire' = <<>> /\ inBlock' = 0 /\ offset' = 0
  /\ UNCHANGED <<call, peerClosed, strays, misread, astray>>

(* A call whose send fails; what had arrived stays readable. *)
SendFails ==
  /\ peerClosed /\ pc \in {"idle", "failed"}
  /\ pc' = "failed"
  /\ UNCHANGED <<call, stream, peerClosed, strays, misread, astray>>

PeerCloses ==
  /\ ~peerClosed /\ pc # "none"
  /\ peerClosed' = TRUE
  /\ UNCHANGED <<pc, call, stream, strays, misread, astray>>

Stray(f) ==
  /\ pc \in {"idle", "failed"} /\ ~peerClosed /\ ~astray
  /\ strays < MaxStrays /\ Len(wire) < MaxBacklog
  /\ strays' = strays + 1 /\ wire' = Append(wire, f)
  /\ UNCHANGED <<pc, call, inBlock, offset, peerClosed, misread, astray>>

(* The steps of a call.  There are no timeouts: a read waits for as long   *)
(* as its bytes do not come.                                               *)
Step == ReadId \/ Mismatch \/ GoesAstray \/ ReadComp \/ ReadPayload \/ ReadFails

Next ==
  \/ Connect \/ Destroy \/ PeerCloses \/ SendFails
  \/ \E f \in Files : Request(f) \/ Stray(f)
  \/ Step \/ Blind

Spec == Init /\ [][Next]_vars

(* The server sends what it owes, and recv returns once the peer has       *)
(* closed: a call goes on reading.                                         *)
FairSpec == Spec /\ WF_vars(Step)
-----------------------------------------------------------------------------
(* The connection is at the start of a container; and it holds none, but   *)
(* for a container nobody asked for and what that kept from being read.    *)
InSync ==
  /\ inBlock = 0 /\ offset = 0
  /\ strays = 0 => wire = <<>>

(* getFile returns the container it asked for, whole and nothing else: no  *)
(* block header is left in it, whatever its length and wherever the block  *)
(* boundaries fall, and the next call can begin (Js5Socket.cpp:227-263).   *)
(* So it is after failed calls, too, whose five bytes are gone: either the *)
(* next call fails as well, or what it returns is right.  The exception is *)
(* a connection gone astray, which only one with a stray container can.    *)
AnswerIsExact ==
  /\ pc = "idle" /\ ~astray => InSync /\ (total # -1 => current = Length(req))
  /\ ~misread
  /\ astray => strays > 0

(* A call fails only for what the peer did, be it at an earlier call: on a *)
(* connection that is open and brought nothing unasked for, none does.     *)
FailsWithCause == pc = "failed" => peerClosed \/ strays > 0

(* Every call returns or throws, as long as the server sends what it owes: *)
(* no call waits for bytes that nobody owes it, also not one that starts   *)
(* in the middle of what a failed call left.  A connection gone astray is  *)
(* the exception again.                                                    *)
CallEnds == pc \in Reading ~> pc \notin Reading \/ astray
=============================================================================
