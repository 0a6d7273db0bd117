---------------------------- MODULE MCMuxPlayer ----------------------------
(* The media the configurations of MuxPlayer choose from.                  *)
EXTENDS MuxPlayer

Item(kind) == [kind |-> kind, timed |-> FALSE]
TimedItem(kind) == [kind |-> kind, timed |-> TRUE]

\* An image on the device, a stream, and a stream that cannot be opened.
StreamsOnly == [logo |-> <<Item("image")>>, film |-> <<Item("stream")>>, gone |-> <<Item("dead")>>]

\* A stream next to the image, nothing that fails to open.
PlayableOnly == [logo |-> <<Item("image")>>, film |-> <<Item("stream")>>]

\* A playlist with durations, of a stream and an image.
TimedMix == [logo |-> <<Item("image")>>,
             show |-> <<TimedItem("stream"), TimedItem("image")>>]
=============================================================================
