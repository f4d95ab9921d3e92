-------------------------------- MODULE MCLink --------------------------------
(***************************************************************************)
(* Instances of the link: frames with room for two payload bytes or for 20,*)
(* packets of up to five bytes, each encoded at most once.                 *)
(***************************************************************************)
EXTENDS CmpLink

P(id, type, length, error) ==
    [id |-> id, version |-> IF type = "data" THEN 1 ELSE 2, messageType |-> type,
     payloadType |-> 1, errorInPayload |-> error, payloadLength |-> length]

A == P("a", "data", 5, FALSE)
B == P("b", "data", 4, FALSE)
C == P("c", "data", 1, FALSE)
D == P("d", "status", 3, FALSE)
E == P("e", "data", 2, TRUE)
F == P("f", "data", 1, FALSE)
G == P("g", "status", 2, FALSE)
N == P("n", "status", 0, FALSE)
MCIds == {"a", "b", "c", "d", "e", "f", "g", "n"}
SomePackets == {A, B, C, D, E, F, G, N}

Tight == [minBytesPerMessage |-> 0, maxBytesPerMessage |-> 26]
Padded == [minBytesPerMessage |-> 26, maxBytesPerMessage |-> 26]
Wide == [minBytesPerMessage |-> 44, maxBytesPerMessage |-> 44]
AllContexts == {Tight, Padded, Wide}

\* A network that drops frames, and an encoder that may be restarted.
Lossy ==
    [requests |-> {<<A>>, <<B>>, <<C, B>>, <<A, C>>, <<D, C>>, <<C, E, B>>},
     contexts |-> {Padded, Wide}, duplicating |-> FALSE, reordering |-> FALSE,
     maxCalls |-> 2, maxFaults |-> 3, maxRestarts |-> 1]

\* A network that drops, repeats and reorders frames.
Chaos ==
    [requests |-> {<<A>>, <<F, B>>, <<F, C>>}, contexts |-> {Tight},
     duplicating |-> TRUE, reordering |-> TRUE,
     maxCalls |-> 2, maxFaults |-> 2, maxRestarts |-> 0]

\* A network without faults.  A call never opens with a packet that has to be
\* cut, and has packets of one type and version only (see ComesThrough).
Reliable(maxCalls) ==
    [requests |-> {<<C, A>>, <<F, B>>, <<F, C>>, <<C, B, A>>, <<F, A, B>>, <<G, N, D>>, <<C>>},
     contexts |-> {Tight, Padded}, duplicating |-> FALSE, reordering |-> FALSE,
     maxCalls |-> maxCalls, maxFaults |-> 0, maxRestarts |-> 1]
AllScenarios == {Lossy, Chaos, Reliable(3)}
OneCall == {[Reliable(1) EXCEPT !.maxRestarts = 0]}

MCRequests == UNION {s.requests : s \in AllScenarios}
=============================================================================
