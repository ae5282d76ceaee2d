--------------------------- MODULE ResourceWebsocket ---------------------------
(***************************************************************************)
(* The limit on messages of an upgraded connection.  The proxy writes the  *)
(* client's bytes in pieces of any size; the writer keeps the bytes of a   *)
(* header until it knows the frame, forwards it or rejects the connection, *)
(* and then lets the payload through.                                      *)
(***************************************************************************)
EXTENDS Integers

CONSTANT Limit       \* limit of a message

ASSUME WebsocketAssumption == Limit \in Nat

VARIABLES
    remaining,     \* payload of the frame that has not come yet
    message,       \* payload of the data frames of the message
    messageOpen,
    frame,         \* the frame of the last complete header
    rejected,      \* tooLarge
    recorded,      \* how often onReject was called
    receiver,      \* history: what the upstream has read of what went there
    broken         \* a write upstream failed

frameVars == <<remaining, message, messageOpen, frame, rejected, recorded, receiver, broken>>

Opcodes == {"continuation", "data", "control"}
\* sound stands for the bits that do not depend on other frames: reserved
\* bits, the mask, a length of 63 bits, and a control frame's own rules.
Frames == [opcode : Opcodes, final : BOOLEAN, length : 0..(Limit + 1), sound : BOOLEAN]
FirstFrame == [opcode |-> "control", final |-> TRUE, length |-> 0, sound |-> TRUE]

WebsocketTypeOK ==
    /\ remaining \in 0..(Limit + 1) /\ message \in 0..Limit /\ messageOpen \in BOOLEAN
    /\ frame \in Frames /\ rejected \in BOOLEAN /\ recorded \in 0..1 /\ broken \in BOOLEAN
    /\ receiver \in [within : BOOLEAN, payload : Nat, due : 0..(Limit + 1), confused : BOOLEAN]

WebsocketInit ==
    /\ remaining = 0 /\ message = 0 /\ messageOpen = FALSE /\ frame = FirstFrame
    /\ rejected = FALSE /\ recorded = 0 /\ broken = FALSE
    /\ receiver = [within |-> FALSE, payload |-> 0, due |-> 0, confused |-> FALSE]

-----------------------------------------------------------------------------
IsControl(f) == f.opcode = "control"

\* The upstream reads the header of a frame, or n bytes.  It is within a message
\* until a final data frame; it is confused by a frame that cannot stand there.
Receives(f) ==
    receiver' = [within |-> IF IsControl(f) THEN receiver.within ELSE ~f.final,
                 payload |-> (IF f.opcode = "data" THEN 0 ELSE receiver.payload)
                             + (IF IsControl(f) THEN 0 ELSE f.length),
                 due |-> f.length,
                 confused |-> \/ receiver.confused \/ receiver.due # 0
                              \/ f.opcode = "data" /\ receiver.within
                              \/ f.opcode = "continuation" /\ ~receiver.within]
ReceivesBytes(n) == receiver' = [receiver EXCEPT !.due = @ - n]

\* Mutant: a control frame between the fragments ends the message, too.
EndFrameAlways(f, count) ==
    IF f.final THEN message' = 0 /\ messageOpen' = FALSE
    ELSE message' = count /\ UNCHANGED messageOpen

\* endFrame, where `count` is the message with this frame.
EndFrame(f, count) ==
    IF f.final /\ ~IsControl(f) THEN message' = 0 /\ messageOpen' = FALSE
    ELSE message' = count /\ messageOpen' = (messageOpen \/ f.opcode = "data")

\* reject: the first time it records an event; it closes the connection.
Reject ==
    /\ rejected' = TRUE /\ recorded' = IF rejected THEN recorded ELSE recorded + 1
    /\ UNCHANGED <<remaining, receiver, broken>>

\* The last byte of a header has come.
Header(f) ==
    LET counted == IF f.opcode = "data" THEN 0 ELSE message
        open == messageOpen \/ f.opcode = "data"
        misplaced == (f.opcode = "continuation" /\ ~messageOpen) \/ (f.opcode = "data" /\ messageOpen)
        tooLong == ~IsControl(f) /\ f.length > Limit - counted
    IN  /\ remaining = 0 /\ ~rejected /\ ~broken
        /\ frame' = f
        /\ \/ /\ ~f.sound \/ misplaced \/ tooLong
              /\ Reject /\ messageOpen' = open
              /\ message' = IF tooLong THEN counted ELSE IF IsControl(f) THEN message ELSE counted + f.length
           \/ /\ f.sound /\ ~misplaced /\ ~tooLong
              /\ Receives(f) /\ remaining' = f.length
              /\ LET count == IF IsControl(f) THEN message ELSE counted + f.length IN
                 IF f.length = 0 THEN EndFrame(f, count)
                 ELSE message' = count /\ messageOpen' = open
              /\ UNCHANGED <<rejected, recorded, broken>>

\* Bytes of the payload come, as many as the writer was handed.
Payload(n) ==
    /\ ~rejected /\ ~broken /\ n \in 1..remaining
    /\ ReceivesBytes(n) /\ remaining' = remaining - n
    /\ IF n = remaining THEN EndFrame(frame, message) ELSE UNCHANGED <<message, messageOpen>>
    /\ UNCHANGED <<frame, rejected, recorded, broken>>

\* The upstream takes less than it is given; the proxy gives up.
ShortWrite(n) ==
    /\ ~rejected /\ ~broken /\ n < remaining /\ broken' = TRUE
    /\ ReceivesBytes(n) /\ remaining' = remaining - n
    /\ UNCHANGED <<message, messageOpen, frame, rejected, recorded>>

\* The proxy goes on after a rejection: one more byte for the same header, which
\* is refused again, whatever is counted meanwhile.
HeaderAgain ==
    /\ rejected /\ Reject /\ UNCHANGED <<message, messageOpen, frame>>

WebsocketNext ==
    \/ \E f \in Frames : (f.sound => (IsControl(f) => f.final)) /\ Header(f)
    \/ \E n \in 0..(Limit + 1) : Payload(n) \/ ShortWrite(n)
    \/ HeaderAgain

WebsocketSpec == WebsocketInit /\ [][WebsocketNext]_frameVars

-----------------------------------------------------------------------------
\* No message of more than Limit goes upstream, in whatever fragments, with
\* control frames in between and however the bytes are cut; what goes upstream
\* is a stream that a receiver reads as the same frames; and a connection that
\* was rejected is recorded once and ends there.
MessagesWithinLimit ==
    /\ receiver.payload <= Limit /\ ~receiver.confused
    /\ recorded = IF rejected THEN 1 ELSE 0

-----------------------------------------------------------------------------
(* Why it holds.                                                           *)

\* The payload of a data frame is on its way.
InData == remaining > 0 /\ ~IsControl(frame)

\* Between two frames the writer counts and knows what the receiver does; it
\* leaves a message only with the last byte of its final frame, which the
\* receiver expects from its header on.
WebsocketInv ==
    /\ WebsocketTypeOK /\ MessagesWithinLimit
    /\ rejected \/ /\ receiver.due = remaining
                   /\ messageOpen <=> receiver.within \/ InData
                   /\ messageOpen => message = receiver.payload
                   /\ InData => (frame.final <=> ~receiver.within)
=============================================================================
