------------------------------ MODULE MCPayload ------------------------------
(***************************************************************************)
(* Instances of the payload classes.  The setters' arguments use bits at   *)
(* the edges of the masks; of the fields that have a word of their own two *)
(* are set in each class.                                                  *)
(***************************************************************************)
EXTENDS CmpPayloadProps

\* Fields with a word of their own that are left alone.
Idle ==
    {"sampleInterval", "sampleOffset", "sampleScalar", "gmIdentity",
     "gmClockQuality", "timeSource", "domainNumber", "currentUtcOffset",
     "msgTotalRx", "msgTotalTx", "msgDroppedRx", "msgDroppedTx",
     "errorsTotalRx", "errorsTotalTx", "interfaceType", "featureSupportBitmask"}


\* The bits the arguments are made of, class by class.
SampleBits ==
    [can |-> {0, 14, 29, 30, 31}, canFd |-> {0, 21, 24, 29, 30, 31},
     lin |-> {0, 5, 6, 7}, ethernet |-> {}, analog |-> {0, 1},
     cmStatMsg |-> {0}, ifStatMsg |-> {0, 1}]

MCValues ==
    [t \in AllTypes |-> [f \in Fields(t) |->
        IF f \in Idle THEN {} ELSE SUBSET (FieldsOf[t][f].mask \cap SampleBits[t])]]
MCFlagValues == SUBSET {1, 12}
MCCanData == {<<>>, <<1>>, <<2, 1, 2>>, <<1, 2, 1, 2, 1, 2, 1, 2, 1, 2, 1, 2, 1, 2, 1, 2>>}
MCStrings == {<<>>, <<1>>, <<2, 1, 1>>}
MCLists == {<<>>, <<2>>, <<1, 2, 3, 0, 4, 1>>}
=============================================================================
