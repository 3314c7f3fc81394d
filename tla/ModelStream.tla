---------------------------- MODULE ModelStream ----------------------------
(***************************************************************************)
(* The client side of Core's model stream (app-events/src/lib.rs): bytes   *)
(* arrive in chunks of any size, frames are cut at the first empty line,   *)
(* and each frame becomes an event, an error or nothing.                   *)
(*                                                                         *)
(* The wire is a sequence of tokens: "nl" and "cr" are the bytes of those  *)
(* names, every other token is the rest of a line.                         *)
(***************************************************************************)
EXTENDS Integers, Sequences

\* What a "data:" line may hold.
Data == {"delta", "completed", "failed", "[DONE]", "error", "unknown", "notJson", "blank"}

Tokens == Data \union {"nl", "cr", "comment", "notUtf8"}

Events == {"textDelta", "completed", "failed"}
Errors == {"transport", "protocol"}
Terminal == {"completed", "failed"} \union Errors

Stream ==
    [wire : Seq(Tokens), taken : Nat, buffer : Seq(Tokens),
     yields : Seq(Events \union Errors), over : BOOLEAN]

Opened(wire) ==
    [wire |-> wire, taken |-> 0, buffer |-> <<>>, yields |-> <<>>, over |-> FALSE]

\* find_sse_frame_boundary: only two line feeds in a row end a frame.
Boundaries(buffer) ==
    {i \in 1 .. Len(buffer) - 1 : buffer[i] = "nl" /\ buffer[i + 1] = "nl"}

Boundary(buffer) ==
    CHOOSE i \in Boundaries(buffer) : \A j \in Boundaries(buffer) : i <= j

\* The lines of a frame that begin with "data:".
DataLines(frame) ==
    {i \in DOMAIN frame : frame[i] \in Data /\ (i = 1 \/ frame[i - 1] = "nl")}

FirstData(frame) ==
    IF DataLines(frame) = {} THEN "blank"
    ELSE frame[CHOOSE i \in DataLines(frame) : \A j \in DataLines(frame) : i <= j]

Meaning == [delta |-> "textDelta", completed |-> "completed", failed |-> "failed",
            error |-> "failed", notJson |-> "protocol", unknown |-> "none", blank |-> "none"]

\* parse_model_stream_frame
Parse(frame) ==
    IF \E i \in DOMAIN frame : frame[i] = "notUtf8" THEN "protocol"
    ELSE IF FirstData(frame) = "[DONE]" THEN "completed"
    ELSE Meaning[FirstData(frame)]

Yield(s, item) ==
    IF item = "none" THEN s
    ELSE [s EXCEPT !.yields = Append(@, item), !.over = item \in Terminal]

\* One turn of the inner loop.
CutFrame(s) ==
    LET i == Boundary(s.buffer)
    IN  Yield([s EXCEPT !.buffer = SubSeq(@, i + 2, Len(@))], Parse(SubSeq(s.buffer, 1, i - 1)))

HasFrame(s) == ~s.over /\ Boundaries(s.buffer) # {}

\* One turn of the outer loop takes the next n tokens, when no frame is left.
MayTake(s, n) == ~s.over /\ ~HasFrame(s) /\ s.taken + n <= Len(s.wire)

\* A chunk replaces what was left of the one before.
TakeChunkMutant(s, n) ==
    [s EXCEPT !.buffer = SubSeq(s.wire, s.taken + 1, s.taken + n), !.taken = @ + n]

TakeChunk(s, n) ==
    [s EXCEPT !.buffer = @ \o SubSeq(s.wire, s.taken + 1, s.taken + n), !.taken = @ + n]

\* The response ends, properly or not; what is left in the buffer is dropped.
EndOfInput(s) == Yield(s, "protocol")
CutOff(s) == Yield(s, "transport")

-----------------------------------------------------------------------------
(***************************************************************************)
(* What the tokens mean, however they were cut into chunks: the events of  *)
(* the frames in their order, up to the first terminal one.                *)
(***************************************************************************)
FrameAt(wire, from) ==
    {to \in from .. Len(wire) :
        /\ to < Len(wire) /\ wire[to] = "nl" /\ wire[to + 1] = "nl"
        /\ \A i \in from .. to - 1 : ~(wire[i] = "nl" /\ wire[i + 1] = "nl")}

\* The events of the wire from its k-th token on, given those from the later ones.
Means(wire, later, k) ==
    IF FrameAt(wire, k) = {} THEN <<>>
    ELSE LET to == CHOOSE i \in FrameAt(wire, k) : TRUE
             item == Parse(SubSeq(wire, k, to - 1))
         IN  IF item = "none" THEN later[to + 2]
             ELSE IF item \in Terminal THEN <<item>>
             ELSE <<item>> \o later[to + 2]

MeantFrom(wire) ==
    LET from[k \in 1 .. Len(wire) + 1] == Means(wire, from, k)
    IN  from

Meant(wire) == MeantFrom(wire)[1]

=============================================================================
