------------------------------ MODULE MCDecoder ------------------------------
(***************************************************************************)
(* Instances of the decoder with its history.  The frames of an endpoint   *)
(* carry one message, or two; lengths are a byte or two, LengthMod 5.      *)
(***************************************************************************)
EXTENDS CmpDecoderHistory

Msg(type, length, data) ==
    [segmentType |-> type, payloadLength |-> length, errorInPayload |-> FALSE,
     payloadType |-> 1, data |-> data]

\* A frame of the given endpoint, counter and messages with "pad" zero bytes
\* behind them (negative: truncated).
MCFrame(e, seq, msgs, pad) ==
    [version |-> 1, deviceId |-> e[1], streamId |-> e[2], messageType |-> "data",
     sequenceCounter |-> seq, body |-> msgs,
     size |-> CmpHeaderSize + pad +
                (IF Len(msgs) = 0 THEN 0
                 ELSE IF Len(msgs) = 1 THEN MessageHeaderSize + msgs[1].payloadLength
                 ELSE 2 * MessageHeaderSize + msgs[1].payloadLength + msgs[2].payloadLength)]

\* One endpoint, every kind of frame the loop tells apart.
OneEndpoint == <<1, 1>>
Segments ==
    {MCFrame(OneEndpoint, c, <<Msg("firstSegment", 1, "a")>>, 0) : c \in {1, 3}}
        \cup {MCFrame(OneEndpoint, c, <<Msg("intermediarySegment", 1, "a")>>, 0) : c \in {2, 3}}
        \cup {MCFrame(OneEndpoint, c, <<Msg("lastSegment", 1, "a")>>, 0) : c \in {0, 2, 3}}
Odd ==
    LET first == MCFrame(OneEndpoint, 1, <<Msg("firstSegment", 1, "a")>>, 0)
        second == MCFrame(OneEndpoint, 2, <<Msg("lastSegment", 2, "b")>>, 0)
        error == [Msg("intermediarySegment", 1, "a") EXCEPT !.errorInPayload = TRUE]
    IN  {MCFrame(OneEndpoint, 2, <<Msg("unsegmented", 2, "b")>>, 0),
         MCFrame(OneEndpoint, 1, <<Msg("unsegmented", 1, "a"), Msg("firstSegment", 1, "b")>>, 0),
         MCFrame(OneEndpoint, 2, <<Msg("unsegmented", 1, "a"), Msg("unsegmented", 1, "b")>>, 3),
         MCFrame(OneEndpoint, 1, <<Msg("firstSegment", 1, "a")>>, 2),
         MCFrame(OneEndpoint, 2, <<Msg("lastSegment", 2, "b")>>, 4),
         MCFrame(OneEndpoint, 2, <<Msg("lastSegment", 2, "b")>>, -1),
         MCFrame(OneEndpoint, 2, <<error>>, 0),
         MCFrame(OneEndpoint, 2, <<>>, 0),
         MCFrame(OneEndpoint, 2, <<>>, 20),
         [second EXCEPT !.version = 2],
         [second EXCEPT !.messageType = "status"],
         [first EXCEPT !.version = 0],
         [first EXCEPT !.size = 7]}
RichDatagrams == Segments \cup Odd
OneId == {1}

\* Two more endpoints, which share the device or the stream with the first.
TwoIds == {1, 2}
Neighbours ==
    UNION {{MCFrame(e, 1, <<Msg("firstSegment", 1, "a")>>, 0),
            MCFrame(e, 2, <<Msg("lastSegment", 1, "b")>>, 0)} :
              e \in {<<1, 2>>, <<2, 1>>}}
        \cup {MCFrame(<<1, 2>>, 2, <<Msg("unsegmented", 1, "b")>>, 0)}
AllDatagrams == Segments \cup Odd \cup Neighbours
=============================================================================
