------------------------------ MODULE BodyRecords ------------------------------
(***************************************************************************)
(* Body transformation (transform_body.rs): a body is buffered whole,      *)
(* perhaps only if it starts with a prefix, or is cut into records, lines  *)
(* (ndjson) or events (sse), that are transformed and delivered one by one *)
(* on demand.  The network delivers the body in pieces of any size, cut    *)
(* anywhere, the middle of a CR LF included.                               *)
(*                                                                         *)
(* Bytes are "r" and "n" (CR and LF) and "x", any other.  What operations  *)
(* and the Lua script make of a record is any record, or an error: a       *)
(* record is represented by the input it was made from, an event by its    *)
(* lines.                                                                  *)
(***************************************************************************)
EXTENDS Naturals, Sequences, SequencesExt

CONSTANTS
    TransformConfigs,  \* [mode, prefixed, buffer]: BodyTransform
    WhenPrefix,        \* when_prefix
    MaxBody, MaxFrame  \* bytes of a body and of one frame

ASSUME RecordConstants == {MaxBody, MaxFrame} \subseteq Nat

VARIABLES
    transformer,   \* its configuration
    stage,         \* "probing", "collecting", "reading", "applying", "passing", "done", "failed"
    history,       \* every byte received
    chunk,         \* Reader.chunk, or the frame in hand
    eof, skipLf,   \* Reader
    partial,       \* the record or the line being assembled; probe_prefix's retained
    eventLines,    \* sse: the event's lines so far
    delivered      \* records handed on

recordVars == <<transformer, stage, history, chunk, eof, skipLf, partial, eventLines, delivered>>

-----------------------------------------------------------------------------
BodyBytes == {"r", "n", "x"}
Frames == UNION {[1 .. n -> BodyBytes] : n \in 1 .. MaxFrame}
Buffer == transformer.buffer
Sse == transformer.mode = "sse"
Up(a, b) == IF a >= b THEN a ELSE b
Final(s) == IF s = <<>> THEN "none" ELSE s[Len(s)]
WithoutCr(s) == IF Final(s) = "r" THEN Front(s) ELSE s

(* BodyTransform::validate: a prefix needs a buffered body *)
TransformValid(c) == c.prefixed => c.mode = "buffered"

RecordsInit ==
    /\ transformer \in {c \in TransformConfigs : TransformValid(c)}
    /\ stage = CASE transformer.prefixed -> "probing"
                 [] transformer.mode = "buffered" -> "collecting"
                 [] OTHER -> "reading"
    /\ history = <<>> /\ chunk = <<>> /\ eof = FALSE /\ skipLf = FALSE
    /\ partial = <<>> /\ eventLines = <<>> /\ delivered = <<>>

(* The body's next frame, or its end; an error of the body is final *)
Frame(bytes) ==
    /\ stage \in {"probing", "collecting", "reading", "passing"}
    /\ chunk = <<>> /\ ~eof
    /\ Len(history) + Len(bytes) <= MaxBody
    /\ history' = history \o bytes
    /\ chunk' = bytes
    /\ UNCHANGED <<transformer, stage, eof, skipLf, partial, eventLines, delivered>>
LastFrame ==
    /\ stage \in {"probing", "collecting", "reading", "passing"}
    /\ chunk = <<>> /\ ~eof
    /\ eof' = TRUE
    /\ UNCHANGED <<transformer, stage, history, chunk, skipLf, partial, eventLines, delivered>>

Fail ==
    /\ stage' = "failed"
    /\ UNCHANGED <<transformer, history, chunk, eof, skipLf, partial, eventLines, delivered>>
BodyFails == stage \in {"probing", "collecting", "reading", "applying"} /\ Fail

-----------------------------------------------------------------------------
(* probe_prefix: the frame in hand decides, or is retained *)
Remaining == SubSeq(WhenPrefix, Len(partial) + 1, Len(WhenPrefix))
Agrees ==
    \A i \in 1 .. Len(chunk) : i <= Len(Remaining) => chunk[i] = Remaining[i]
ProbeFrame ==
    /\ stage = "probing" /\ chunk # <<>>
    /\ IF Agrees /\ Len(chunk) < Len(Remaining)
       THEN /\ partial' = partial \o chunk /\ chunk' = <<>>
            /\ UNCHANGED stage
       ELSE /\ chunk' = partial \o chunk /\ partial' = <<>>
            /\ stage' = IF Agrees THEN "collecting" ELSE "passing"
    /\ UNCHANGED <<transformer, history, eof, skipLf, eventLines, delivered>>
ProbeEnds ==
    /\ stage = "probing" /\ eof /\ chunk = <<>>
    /\ stage' = "passing" /\ chunk' = partial /\ partial' = <<>>
    /\ UNCHANGED <<transformer, history, eof, skipLf, eventLines, delivered>>

(* The representation did not match: PrefixedBody hands it on as it came *)
PassFrame ==
    /\ stage = "passing" /\ chunk # <<>>
    /\ delivered' = <<(IF delivered = <<>> THEN <<>> ELSE delivered[1]) \o chunk>>
    /\ chunk' = <<>>
    /\ UNCHANGED <<transformer, stage, history, eof, skipLf, partial, eventLines>>
PassEnds ==
    /\ stage = "passing" /\ chunk = <<>> /\ eof
    /\ stage' = "done"
    /\ UNCHANGED <<transformer, history, chunk, eof, skipLf, partial, eventLines, delivered>>

(* collect_buffered *)
CollectFrame ==
    /\ stage = "collecting" /\ chunk # <<>>
    /\ \/ Len(partial) + Len(chunk) > Buffer /\ Fail
       \/ /\ Len(partial) + Len(chunk) <= Buffer
          /\ partial' = partial \o chunk /\ chunk' = <<>>
          /\ UNCHANGED <<transformer, stage, history, eof, skipLf, eventLines, delivered>>
CollectEnds ==
    /\ stage = "collecting" /\ chunk = <<>> /\ eof
    /\ stage' = "applying"
    /\ UNCHANGED <<transformer, history, chunk, eof, skipLf, partial, eventLines, delivered>>

-----------------------------------------------------------------------------
(* Reader::line.  An event's lines share its buffer, each with its end. *)
Used == FoldLeft(LAMBDA sum, line : sum + Len(line) + 1, 0, eventLines)
LineLimit == Up(Buffer, Used) - Used
AppendLimit == IF Sse THEN LineLimit ELSE LineLimit + 1
Terminates(c) == c = "n" \/ (Sse /\ c = "r")
FirstEnd == SelectInSeq(chunk, Terminates)

SkipAfter(c) == Sse /\ c = "r"

SkipLineFeed ==
    /\ stage = "reading" /\ chunk # <<>> /\ skipLf
    /\ skipLf' = FALSE
    /\ chunk' = IF chunk[1] = "n" THEN Tail(chunk) ELSE chunk
    /\ UNCHANGED <<transformer, stage, history, eof, partial, eventLines, delivered>>

(* State::next and State::sse: what a line is for.  A line is a record; an *)
(* event ends with an empty one.                                           *)
TakeLine(line, terminated) ==
    IF ~Sse THEN /\ stage' = "applying" /\ partial' = line
                 /\ UNCHANGED eventLines
    ELSE IF Used + Len(line) + 1 > Buffer \/ ~terminated
    THEN stage' = "failed" /\ UNCHANGED <<partial, eventLines>>
    ELSE /\ partial' = <<>>
         /\ eventLines' = IF line = <<>> THEN eventLines ELSE Append(eventLines, line)
         /\ stage' = IF line = <<>> THEN "applying" ELSE "reading"

LineEnds ==
    LET whole == partial \o SubSeq(chunk, 1, FirstEnd - 1)
        line == IF Sse THEN whole ELSE WithoutCr(whole)
    IN  /\ stage = "reading" /\ chunk # <<>> /\ ~skipLf /\ FirstEnd # 0
        /\ \/ /\ Len(whole) > AppendLimit \/ Len(line) > LineLimit
              /\ Fail
           \/ /\ Len(whole) <= AppendLimit /\ Len(line) <= LineLimit
              /\ skipLf' = SkipAfter(chunk[FirstEnd])
              /\ chunk' = SubSeq(chunk, FirstEnd + 1, Len(chunk))
              /\ TakeLine(line, TRUE)
              /\ UNCHANGED <<transformer, history, eof, delivered>>
LineContinues ==
    LET whole == partial \o chunk
    IN  /\ stage = "reading" /\ chunk # <<>> /\ ~skipLf /\ FirstEnd = 0
        /\ \/ /\ Len(whole) > AppendLimit \/ (Len(whole) > LineLimit /\ Final(whole) # "r")
              /\ Fail
           \/ /\ Len(whole) <= AppendLimit /\ (Len(whole) > LineLimit => Final(whole) = "r")
              /\ partial' = whole /\ chunk' = <<>>
              /\ UNCHANGED <<transformer, stage, history, eof, skipLf, eventLines, delivered>>
LinesEnd ==
    /\ stage = "reading" /\ chunk = <<>> /\ eof
    /\ \/ Len(partial) > LineLimit /\ Fail
       \/ /\ Len(partial) <= LineLimit /\ partial # <<>>
          /\ TakeLine(partial, FALSE)
          /\ UNCHANGED <<transformer, history, chunk, eof, skipLf, delivered>>
       \/ /\ partial = <<>>
          /\ stage' = IF eventLines = <<>> THEN "done" ELSE "failed"
          /\ UNCHANGED <<transformer, history, chunk, eof, skipLf, partial, eventLines, delivered>>

(* apply, and the record or the event is handed on; any of its steps may   *)
(* refuse (BodyFails).                                                     *)
Apply ==
    /\ stage = "applying"
    /\ delivered' = Append(delivered, IF Sse THEN eventLines ELSE partial)
    /\ partial' = <<>> /\ eventLines' = <<>>
    /\ stage' = IF transformer.mode = "buffered" THEN "done" ELSE "reading"
    /\ UNCHANGED <<transformer, history, chunk, eof, skipLf>>

RecordsNext ==
    \/ \E bytes \in Frames : Frame(bytes)
    \/ LastFrame \/ BodyFails \/ ProbeFrame \/ ProbeEnds \/ PassFrame \/ PassEnds
    \/ CollectFrame \/ CollectEnds
    \/ SkipLineFeed \/ LineEnds \/ LineContinues \/ LinesEnd \/ Apply

-----------------------------------------------------------------------------
(* The whole body's lines, by position: where they end, and what is left *)
EndsAt(s) ==
    {i \in 1 .. Len(s) : IF Sse THEN s[i] = "r" \/ (s[i] = "n" /\ (i = 1 \/ s[i - 1] # "r"))
                         ELSE s[i] = "n"}
AfterEnd(s, i) == IF Sse /\ s[i] = "r" /\ i < Len(s) /\ s[i + 1] = "n" THEN i + 2 ELSE i + 1
StartOf(s, i) ==
    LET earlier == {j \in EndsAt(s) : j < i}
    IN  IF earlier = {} THEN 1 ELSE AfterEnd(s, CHOOSE j \in earlier : \A k \in earlier : k <= j)
LinesOf(s) ==
    LET ends == SetToSortSeq(EndsAt(s), <)
        raw == [k \in 1 .. Len(ends) |-> SubSeq(s, StartOf(s, ends[k]), ends[k] - 1)]
    IN  IF Sse THEN raw ELSE [k \in 1 .. Len(ends) |-> WithoutCr(raw[k])]
LeftOver(s) == SubSeq(s, StartOf(s, Len(s) + 1), Len(s))

HasPrefix(s, prefix) == Len(s) >= Len(prefix) /\ SubSeq(s, 1, Len(prefix)) = prefix
Unread == SubSeq(history, 1, Len(history) - Len(chunk))

(* A body is delivered as it was sent, however it was cut.  A body that    *)
(* does not start with the prefix is passed on byte for byte, and one that *)
(* does is transformed from its first byte; the records handed on are      *)
(* exactly the lines of the body, or its events, in order, none lost, none *)
(* made up at a CR LF that two frames share, and none longer than the      *)
(* buffer, though the limit is enforced on pieces of a line.               *)
(* (probe_prefix, collect_buffered, Reader::line, State::next, State::sse) *)
RecordsExact ==
    /\ transformer.prefixed /\ stage = "done" =>
          /\ (delivered = <<>> /\ history = <<>>) \/ delivered = <<history>>
    /\ transformer.prefixed /\ stage \in {"collecting", "applying"} =>
          HasPrefix(history, WhenPrefix)
    /\ transformer.prefixed /\ stage = "passing" /\ (eof \/ delivered # <<>>) =>
          ~HasPrefix(history, WhenPrefix)
    /\ transformer.mode = "buffered" /\ ~transformer.prefixed /\ stage = "done" =>
          delivered = <<history>> /\ Len(history) <= Buffer
    /\ transformer.mode = "ndjson" /\ stage # "failed" =>
          LET read == IF stage = "applying" THEN Append(delivered, partial) ELSE delivered
          IN  /\ \A k \in DOMAIN read : Len(read[k]) <= Buffer
              /\ IF eof /\ chunk = <<>> /\ LeftOver(history) # <<>>
                 THEN read \in {LinesOf(history), Append(LinesOf(history), LeftOver(history))}
                 ELSE read = LinesOf(Unread)
    /\ Sse /\ stage = "done" =>
          LET lines == LinesOf(history)
          IN  /\ LeftOver(history) = <<>>
              /\ FlattenSeq([k \in DOMAIN delivered |-> Append(delivered[k], <<>>)]) = lines
=============================================================================
