------------------------------- MODULE Framing -------------------------------
(***************************************************************************)
(* The link layer (framing_loop.py): frame_build escapes a frame for the    *)
(* socket, deframe_feed finds the frames in what arrives, whatever was      *)
(* lost, altered or sent before them, and the session hands them out one    *)
(* at a time (Session._recv_one_frame_no_crc).                              *)
(*                                                                         *)
(* deframe_feed keeps everything in its DeframeState between two bytes and  *)
(* between two chunks alike, so a chunk is any number of steps, one a byte. *)
(* Base stands for 256, Crc for CRC-16, MaxSize for 4096.                   *)
(***************************************************************************)
EXTENDS Integers, Sequences

CONSTANTS
    Base,        \* a byte is in 0..Base-1
    StartChar,   \* STARTCHAR
    Protocols,   \* the protocol bytes encrypt_schema0_envelope makes
    Payloads,    \* the data frames sent
    Preambles,   \* what may be left of the unframed HELLO on a new link
    MaxSize,     \* data_bus_in_buffer_size
    Crc(_),      \* calculate_crc16_checksum of the bytes of a sequence
    MaxFrames,   \* bound: frames sent on a link
    MaxFaults,   \* bound: bytes lost or altered on a link
    MaxLinks     \* bound: links opened

Byte == 0..(Base - 1)

\* min_message_size: the protocol byte, the length and the checksum.
MinSize == 5

ASSUME FramingBounds ==
    /\ Base \in Nat /\ Base > 1
    /\ StartChar \in Byte \ {0}
    /\ Protocols \subseteq Byte \ {0, StartChar}
    /\ MaxSize \in Nat /\ MaxSize < Base * Base
    /\ \A d \in Payloads : MinSize + Len(d) <= MaxSize

VARIABLES
    rcvState,    \* rcv_state: WAIT_START, WAIT_LENGTH or WAIT_DATA
    escaping,    \* the last byte was STARTCHAR
    justResynced,
    msgLength,
    inputBuffer,
    pending,     \* _pending_frames
    wire,        \* what was sent: frames, what is left of each, is it whole?
    due,         \* history: the whole frames read to their last byte
    received,    \* history: the frames found on this link
    sent, faults, links

deframe == <<rcvState, escaping, justResynced, msgLength, inputBuffer>>
vars == <<deframe, pending, wire, due, received, sent, faults, links>>

-----------------------------------------------------------------------------
(* frame_build.                                                            *)

Size(d) == MinSize + Len(d)

\* frame_no_crc: the protocol byte, the length, low byte first, and the data.
Body(p, d) == <<p, Size(d) % Base, Size(d) \div Base>> \o d

Unescaped(p, d) ==
    LET body == Body(p, d)
    IN body \o <<Crc(body) % Base, Crc(body) \div Base>>

\* Wrong: the checksum goes out as it is.
EscapeBody(s) ==
    LET esc[i \in 0..Len(s)] ==
            IF i = 0 THEN <<>>
            ELSE esc[i - 1] \o (IF s[i] = StartChar /\ i < Len(s) - 1
                                THEN <<StartChar, 0>> ELSE <<s[i]>>)
    IN esc[Len(s)]

Escape(s) ==
    LET esc[i \in 0..Len(s)] ==
            IF i = 0 THEN <<>>
            ELSE esc[i - 1] \o (IF s[i] = StartChar THEN <<StartChar, 0>> ELSE <<s[i]>>)
    IN esc[Len(s)]

FrameBuild(p, d) == <<StartChar>> \o Escape(Unescaped(p, d))

-----------------------------------------------------------------------------
(* The link.                                                               *)

Init ==
    /\ rcvState = "WAIT_START" /\ escaping = FALSE /\ justResynced = FALSE
    /\ msgLength = 0 /\ inputBuffer = <<>>
    /\ pending = <<>> /\ wire = <<>>
    /\ due = <<>> /\ received = <<>> /\ sent = 0 /\ faults = 0 /\ links = 0

\* _reset_to_wait_start.
Reset ==
    /\ rcvState' = "WAIT_START" /\ escaping' = FALSE /\ justResynced' = FALSE
    /\ msgLength' = 0 /\ inputBuffer' = <<>>

\* Wrong: the frames not yet handed out outlive their link.
ConnectKeepsPending ==
    /\ links < MaxLinks /\ links' = links + 1
    /\ \E pre \in Preambles : wire' = <<[frame |-> <<>>, rest |-> pre, whole |-> FALSE]>>
    /\ Reset
    /\ UNCHANGED pending
    /\ due' = <<>> /\ received' = pending /\ sent' = 0 /\ faults' = 0

\* close() and connect(): a new socket, a new DeframeState, nothing pending.
Connect ==
    /\ links < MaxLinks /\ links' = links + 1
    /\ \E pre \in Preambles : wire' = <<[frame |-> <<>>, rest |-> pre, whole |-> FALSE]>>
    /\ Reset
    /\ pending' = <<>>
    /\ due' = <<>> /\ received' = <<>> /\ sent' = 0 /\ faults' = 0

\* The panel sends a frame.
Send ==
    /\ links > 0 /\ sent < MaxFrames
    /\ sent' = sent + 1
    /\ \E p \in Protocols, d \in Payloads :
          wire' = Append(wire, [frame |-> Body(p, d), rest |-> FrameBuild(p, d),
                                whole |-> TRUE])
    /\ UNCHANGED <<deframe, pending, due, received, faults, links>>

\* A byte is lost or altered on its way: its frame is no longer whole.
Fault ==
    /\ faults < MaxFaults
    /\ faults' = faults + 1
    /\ \E k \in 1..Len(wire) : \E i \in 1..Len(wire[k].rest) :
         LET before == SubSeq(wire[k].rest, 1, i - 1)
             after == SubSeq(wire[k].rest, i + 1, Len(wire[k].rest))
         IN \E noise \in {<<>>} \cup {<<b>> : b \in Byte \ {wire[k].rest[i]}} :
              wire' = [wire EXCEPT ![k].whole = FALSE,
                                   ![k].rest = before \o noise \o after]
    /\ UNCHANGED <<deframe, pending, due, received, sent, links>>

\* The next byte from the socket is b.
Reads(b) ==
    /\ wire # <<>> /\ wire[1].rest # <<>>
    /\ b = Head(wire[1].rest)
    /\ LET left == Tail(wire[1].rest)
       IN /\ wire' = IF left = <<>> THEN Tail(wire) ELSE [wire EXCEPT ![1].rest = left]
          /\ due' = IF left = <<>> /\ wire[1].whole THEN Append(due, wire[1].frame)
                                                   ELSE due
    /\ UNCHANGED <<sent, faults, links>>

\* An emptied entry (a frame that lost its last byte) is nothing to read.
NothingLeft ==
    /\ wire # <<>> /\ wire[1].rest = <<>>
    /\ wire' = Tail(wire)
    /\ UNCHANGED <<deframe, pending, due, received, sent, faults, links>>

-----------------------------------------------------------------------------
(* deframe_feed, a byte at a time.                                         *)

StartByte ==
    /\ Reads(StartChar)
    /\ escaping' = TRUE
    /\ UNCHANGED <<rcvState, justResynced, msgLength, inputBuffer, pending, received>>

\* Wrong: a frame cut short goes on as if nothing had happened.
NewFrameIfIdle ==
    /\ escaping
    /\ \E b \in Byte \ {0, StartChar} :
         /\ Reads(b)
         /\ inputBuffer' = IF rcvState = "WAIT_START" THEN <<b>> ELSE Append(inputBuffer, b)
    /\ rcvState' = IF rcvState = "WAIT_START" THEN "WAIT_LENGTH" ELSE rcvState
    /\ escaping' = FALSE
    /\ justResynced' = (rcvState = "WAIT_START")
    /\ UNCHANGED <<msgLength, pending, received>>

\* STARTCHAR and a byte that is not 0: a new frame, wherever we were.
NewFrame ==
    /\ escaping
    /\ \E b \in Byte \ {0, StartChar} : Reads(b) /\ inputBuffer' = <<b>>
    /\ msgLength' = 0 /\ rcvState' = "WAIT_LENGTH"
    /\ escaping' = FALSE /\ justResynced' = TRUE
    /\ UNCHANGED <<pending, received>>

\* Any other byte reads as d: itself, or STARTCHAR for STARTCHAR 0.
ReadsAs(d) ==
    /\ escaping' = FALSE
    /\ \/ ~escaping /\ d # StartChar /\ Reads(d)
       \/ escaping /\ d = StartChar /\ Reads(0)

Discard ==
    /\ rcvState = "WAIT_START"
    /\ \E d \in Byte : ReadsAs(d)
    /\ UNCHANGED <<rcvState, justResynced, msgLength, inputBuffer, pending, received>>

\* Right after a resync, a first length byte that repeats the protocol byte.
Repeats(d) == justResynced /\ Len(inputBuffer) = 1 /\ d = inputBuffer[1]

SkipRepeated ==
    /\ rcvState = "WAIT_LENGTH"
    /\ \E d \in Byte : Repeats(d) /\ ReadsAs(d)
    /\ UNCHANGED <<rcvState, justResynced, msgLength, inputBuffer, pending, received>>

LengthLow ==
    /\ rcvState = "WAIT_LENGTH" /\ Len(inputBuffer) = 1
    /\ \E d \in Byte :
         ~Repeats(d) /\ ReadsAs(d) /\ inputBuffer' = Append(inputBuffer, d)
    /\ justResynced' = FALSE
    /\ UNCHANGED <<rcvState, msgLength, pending, received>>

LengthHigh ==
    /\ rcvState = "WAIT_LENGTH" /\ Len(inputBuffer) = 2
    /\ \E d \in Byte :
         LET length == inputBuffer[2] + Base * d
         IN /\ ReadsAs(d)
            /\ IF length \in MinSize..MaxSize
               THEN /\ rcvState' = "WAIT_DATA" /\ msgLength' = length
                    /\ inputBuffer' = Append(inputBuffer, d)
                    /\ UNCHANGED justResynced
               ELSE Reset
    /\ UNCHANGED <<pending, received>>

DataByte ==
    /\ rcvState = "WAIT_DATA" /\ Len(inputBuffer) + 1 < msgLength
    /\ \E d \in Byte : ReadsAs(d) /\ inputBuffer' = Append(inputBuffer, d)
    /\ UNCHANGED <<rcvState, justResynced, msgLength, pending, received>>

\* The last byte: the frame is good, or the checksum says otherwise.
FrameDone ==
    /\ rcvState = "WAIT_DATA" /\ Len(inputBuffer) + 1 = msgLength
    /\ \E d \in Byte :
         LET body == SubSeq(inputBuffer, 1, msgLength - 2)
             good == inputBuffer[msgLength - 1] + Base * d = Crc(body)
         IN /\ ReadsAs(d)
            /\ pending' = IF good THEN Append(pending, body) ELSE pending
            /\ received' = IF good THEN Append(received, body) ELSE received
    /\ Reset

\* recv_json takes the next frame.
TakeFrame ==
    /\ pending # <<>>
    /\ pending' = Tail(pending)
    /\ UNCHANGED <<deframe, wire, due, received, sent, faults, links>>

Feed == StartByte \/ NewFrame \/ Discard \/ SkipRepeated \/ LengthLow \/ LengthHigh
        \/ DataByte \/ FrameDone

Next == Connect \/ Send \/ Fault \/ NothingLeft \/ Feed \/ TakeFrame

Spec == Init /\ [][Next]_vars

-----------------------------------------------------------------------------
(* Properties.                                                             *)

\* The buffer holds what its state says, whatever has arrived: a frame under
\* way always has its protocol byte, its length is one the buffer can hold, and
\* the buffer ends with it.
TypeOK ==
    /\ escaping \in BOOLEAN /\ justResynced \in BOOLEAN
    /\ inputBuffer \in Seq(Byte) /\ msgLength \in {0} \cup MinSize..MaxSize
    /\ \/ rcvState = "WAIT_START" /\ inputBuffer = <<>> /\ msgLength = 0
       \/ rcvState = "WAIT_LENGTH" /\ Len(inputBuffer) \in 1..2 /\ msgLength = 0
       \/ rcvState = "WAIT_DATA" /\ Len(inputBuffer) \in 3..(msgLength - 1)

\* The frames of s are among those of t, in that order.
Within(s, t) ==
    LET in[i \in 0..Len(s), j \in 0..Len(t)] ==
            IF i = 0 THEN TRUE
            ELSE IF j = 0 THEN FALSE
            ELSE IF s[i] = t[j] THEN in[i - 1, j - 1] ELSE in[i, j - 1]
    IN in[Len(s), Len(t)]

Ambiguous(f) == f[2] = f[1]

\* Resynchronisation: every frame that arrives as it was sent is found, in
\* order, however the bytes before it were damaged -- but for a frame whose
\* first length byte is the protocol byte.
IntactFramesArrive == Within(SelectSeq(due, LAMBDA f : ~Ambiguous(f)), received)

\* On a link without faults nothing else is found: no frame twice, none made up
\* of the bytes of others or of the preamble, none of an earlier link.
NothingElse == faults = 0 => Within(received, due)

\* The module's wire format (framing_loop.py:4): a STARTCHAR, a protocol byte
\* and two length bytes, whatever their values: every intact frame is found.
EveryFrameArrives == Within(due, received)
=============================================================================
