------------------------------ MODULE SendPath ------------------------------
(***************************************************************************)
(* native.Track and srtpWriter: how one packet at a time gets from a        *)
(* goroutine that sends samples or padding to the wire.  A track's mutex    *)
(* covers the buffer its send time is stamped in, which a packet refers to  *)
(* until it is marshalled; the stack's covers the buffer that packets of    *)
(* both tracks are encrypted in, and the write.                             *)
(***************************************************************************)
CONSTANTS
  AudioLoop, VideoLoop, Watchdog,  \* the goroutines that send: two streamers', the monitor's
  Nil

ASSUME SendAssumption ==
  /\ AudioLoop # VideoLoop /\ AudioLoop # Watchdog /\ VideoLoop # Watchdog
  /\ Nil \notin {AudioLoop, VideoLoop, Watchdog}

Senders == {AudioLoop, VideoLoop, Watchdog}
Tracks == {"audio", "video"}
TrackOf(s) == IF s = AudioLoop THEN "audio" ELSE "video"

VARIABLES
  writeMu, srtpMu,  \* who holds each track's mutex, and the stack's
  absSendBuf,       \* whose send time each track's buffer has, until it is unlocked
  encryptBuf,       \* whose packet, with whose send time, is in the buffer, likewise
  sending           \* each sender's place: "idle", "stamped" or "encrypted"

sendVars == <<writeMu, srtpMu, absSendBuf, encryptBuf, sending>>

SendInit ==
  /\ writeMu = [k \in Tracks |-> Nil] /\ srtpMu = Nil
  /\ absSendBuf = [k \in Tracks |-> Nil] /\ encryptBuf = <<Nil, Nil>>
  /\ sending = [s \in Senders |-> "idle"]

writePackets(s) ==    \* up to the stamp; nothing is sent before the attachment
  /\ sending[s] = "idle" /\ writeMu[TrackOf(s)] = Nil
  /\ writeMu' = [writeMu EXCEPT ![TrackOf(s)] = s]
  /\ absSendBuf' = [absSendBuf EXCEPT ![TrackOf(s)] = s]
  /\ sending' = [sending EXCEPT ![s] = "stamped"]
  /\ UNCHANGED <<srtpMu, encryptBuf>>

Unlock(s) ==
  /\ writeMu' = [writeMu EXCEPT ![TrackOf(s)] = Nil]
  /\ absSendBuf' = [absSendBuf EXCEPT ![TrackOf(s)] = Nil]
  /\ sending' = [sending EXCEPT ![s] = "idle"]

BufferFree_Unlocked == TRUE
BufferFree == srtpMu = Nil

Encrypt(s, ready) ==
  /\ sending[s] = "stamped"
  /\ IF ready
     THEN /\ BufferFree
          /\ srtpMu' = s
          /\ encryptBuf' = <<s, absSendBuf[TrackOf(s)]>>
          /\ sending' = [sending EXCEPT ![s] = "encrypted"]
          /\ UNCHANGED <<writeMu, absSendBuf>>
     ELSE Unlock(s) /\ UNCHANGED <<srtpMu, encryptBuf>>

Write(s) ==    \* also when the connection is closed: then it is an error
  /\ sending[s] = "encrypted"
  /\ srtpMu' = Nil /\ encryptBuf' = <<Nil, Nil>>
  /\ Unlock(s)

Send(s, ready) == Encrypt(s, ready) \/ Write(s)

SendTypeOK ==
  /\ writeMu \in [Tracks -> Senders \cup {Nil}] /\ srtpMu \in Senders \cup {Nil}
  /\ absSendBuf \in [Tracks -> Senders \cup {Nil}]
  /\ encryptBuf \in (Senders \cup {Nil}) \X (Senders \cup {Nil})
  /\ sending \in [Senders -> {"idle", "stamped", "encrypted"}]

(***************************************************************************)
(* What goes out is the packet of the goroutine that sends it, with the     *)
(* send time it was stamped with, although the keepalive shares its track   *)
(* with a streamer and both tracks share one buffer.                        *)
(***************************************************************************)
DatagramsWhole == \A s \in Senders : sending[s] = "encrypted" => encryptBuf = <<s, s>>
=============================================================================
