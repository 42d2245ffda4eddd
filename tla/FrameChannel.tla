---------------------------- MODULE FrameChannel ----------------------------
(***************************************************************************)
(* What the receive side of the client promises: the frames the broker     *)
(* sends are taken one at a time, in the order they were sent, each once,  *)
(* and while the connection is up each frame is taken in the end.  Nothing *)
(* here knows of bytes, segments, buffers or timeouts; RxStream implements *)
(* this specification.                                                     *)
(***************************************************************************)
EXTENDS Naturals, Sequences

CONSTANT Frame          \* what a frame may be

VARIABLES sent,         \* the frames sent so far, in order
          taken,        \* the frames the client has taken, in order
          up            \* the connection has not failed

channelVars == <<sent, taken, up>>

ChannelInit == sent = << >> /\ taken = << >> /\ up = TRUE

ChannelSend(f) == up /\ sent' = Append(sent, f) /\ UNCHANGED <<taken, up>>

\* The next frame that has not been taken, and no other.
ChannelTake ==
    /\ Len(taken) < Len(sent)
    /\ taken' = Append(taken, sent[Len(taken) + 1])
    /\ UNCHANGED <<sent, up>>

ChannelBreak == up /\ up' = FALSE /\ UNCHANGED <<sent, taken>>

ChannelNext == (\E f \in Frame : ChannelSend(f)) \/ ChannelTake \/ ChannelBreak

ChannelSafe == ChannelInit /\ [][ChannelNext]_channelVars

ChannelSpec == ChannelSafe /\ WF_channelVars(up /\ ChannelTake)
=============================================================================
