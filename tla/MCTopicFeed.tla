---------------------------- MODULE MCTopicFeed ----------------------------
(* An instance of TopicFeed for TLC.                                        *)
EXTENDS TopicFeed

Text == [kind |-> "text", of |-> 0]
Use == [kind |-> "use", of |-> 0]
Long == [kind |-> "long", of |-> 0]
ResultOf(call) == [kind |-> "result", of |-> call]

\* Calls that fill a batch and overflow it, a long call, results that arrive
\* at once, late and out of order, texts that merge and texts that separate.
FeedTranscripts ==
    {<<Use, Use, Use, Text>>,
     <<Use, Text, ResultOf(1), Text>>,
     <<Use, Use, ResultOf(2), ResultOf(1)>>,
     <<Text, Text, Text, Use>>,
     <<Use, Long, ResultOf(1), ResultOf(2)>>,
     <<Use, Text, Use, Text>>}
=============================================================================
