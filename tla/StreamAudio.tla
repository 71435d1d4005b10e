---------------------------- MODULE StreamAudio ----------------------------
(***************************************************************************)
(* Sound of a session in the desktop client (gui/src/streamsession.cpp):   *)
(* the microphone from SDL to the encoder, the mute button, and the        *)
(* console's sound from the decoder to SDL.  Threads: the GUI's            *)
(* (ToggleMute, InitAudio, ReadMic), SDL's recording one, which posts what *)
(* it recorded to the GUI's, and the session's, which pushes frames.       *)
(*                                                                         *)
(* Samples are numbered modulo Numbers in the order in which they are read *)
(* unmuted; the queue of the output device is counted in frames.           *)
(* The echo canceller (speex) is left out.                                 *)
(***************************************************************************)
EXTENDS Naturals, Sequences

CONSTANTS FrameSize,  \* samples of mic_buf
          Chunks,     \* how many samples SDL records at a time
          Numbers,    \* bound: more than FrameSize and a chunk together
          MaxPosted,  \* bound: ReadMic calls that are posted
          Buffer,     \* audio_buffer_size, in frames
          MaxQueued   \* bound: what SDL would hold

VARIABLES allow, micConnected, muted, \* allow_unmute, mic_connected, muted
          recording,  \* audio_in: "none", "paused", "on"
          gui,        \* where the GUI thread is in ToggleMute
          console,    \* what the console was told: "none", "muted", "unmuted"
          posted,     \* posted ReadMic calls: [n, secret]
          buf, read,  \* mic_buf; samples read so far
          encoded,    \* the frame last given to the encoder, and what was due
          out, queued, drain, \* audio_out, SDL's queue, audio_out_drain_queue
          push        \* where the session's thread is in PushAudioFrame
mic == <<posted, buf, read, encoded>>
button == <<allow, micConnected, muted, recording, gui, console>>
play == <<out, queued, drain, push>>
vars == <<mic, button, play>>

-----------------------------------------------------------------------------
(* ToggleMute                                                               *)

\* The player is slower than the GUI's loop: nothing recorded waits.
ToggleMute ==
  /\ gui = "idle" /\ allow /\ posted = <<>>
  /\ gui' = IF micConnected THEN "tell" ELSE "connect"
  /\ UNCHANGED <<allow, micConnected, muted, recording, console, mic, play>>

\* InitMic, which may find no microphone; it is not tried again.
Connect ==
  /\ gui = "connect"
  /\ gui' = "tell" /\ micConnected' = TRUE /\ console' = "muted"
  /\ \E r \in {"none", "paused"} : recording' = r
  /\ buf' = <<>>
  /\ UNCHANGED <<allow, muted, posted, read, encoded, play>>

\* mutant: the console is told what was, not what will be
TellsOld(m) == IF m THEN "muted" ELSE "unmuted"
Tells(m) == IF m THEN "unmuted" ELSE "muted"
Tell ==
  /\ gui = "tell"
  /\ gui' = "pause" /\ console' = Tells(muted) /\ muted' = ~muted
  /\ UNCHANGED <<allow, micConnected, recording, mic, play>>

Pause ==
  /\ gui = "pause"
  /\ gui' = "idle"
  /\ recording' = IF recording = "none" THEN "none" ELSE IF muted THEN "paused" ELSE "on"
  /\ UNCHANGED <<allow, micConnected, muted, console, mic, play>>

\* The session's thread waits for it (a blocking call); it may open no device.
InitAudio ==
  /\ ~allow /\ gui = "idle"
  /\ allow' = TRUE /\ out' \in BOOLEAN /\ queued' = 0 /\ drain' = FALSE
  /\ \E unmuted \in BOOLEAN : gui' = IF unmuted THEN "connect" ELSE "idle"
  /\ UNCHANGED <<micConnected, muted, recording, console, push, mic>>

-----------------------------------------------------------------------------
(* The microphone                                                           *)

\* SDL's callback, at any time the device is not paused
Record(n) ==
  /\ recording = "on" /\ Len(posted) < MaxPosted
  /\ posted' = Append(posted, [n |-> n, secret |-> muted])
  /\ UNCHANGED <<buf, read, encoded, button, play>>

Samples(n, secret) ==
  [i \in 1 .. n |-> [number |-> (read + i - 1) % Numbers, secret |-> secret]]
Whole(s, left, k) == SubSeq(s, left + k * FrameSize + 1, left + (k + 1) * FrameSize)
Rest(s, left) ==
  LET frames == (Len(s) - left) \div FrameSize
      cur == (Len(s) - left) % FrameSize IN
  SubSeq(s, left + frames * FrameSize + 1, left + frames * FrameSize + cur)

\* Frames that one call encodes: the one in mic_buf, then whole ones.
Frames(s, left) ==
  <<buf \o SubSeq(s, 1, left)>>
    \o [k \in 1 .. ((Len(s) - left) \div FrameSize) |-> Whole(s, left, k - 1)]

\* mutant: what was recorded is read, muted or not
HearsAlways(m) == TRUE
Hears(m) == ~m
ReadMic ==
  /\ gui = "idle" /\ posted # <<>>
  /\ posted' = SubSeq(posted, 2, Len(posted))
  /\ IF ~Hears(muted) THEN UNCHANGED <<buf, read, encoded>>
     ELSE LET p == posted[1]
              s == Samples(p.n, p.secret)
              left == FrameSize - Len(buf) IN
          /\ read' = (read + p.n) % Numbers
          /\ IF p.n < left THEN buf' = buf \o s /\ UNCHANGED encoded
             ELSE /\ buf' = Rest(s, left)
                  /\ encoded' = [due |-> (encoded.due + FrameSize * Len(Frames(s, left))) % Numbers,
                                 was |-> encoded.due, frames |-> Frames(s, left)]
  /\ UNCHANGED <<button, play>>

-----------------------------------------------------------------------------
(* PushAudioFrame; the device goes on playing in between                    *)

\* mutant: the queue is drained for ever
DrainsOn(q) == TRUE
Drains(q) == q >= Buffer
TooLate(q) == q > 3 * Buffer
PushBegins ==
  /\ push = "idle" /\ out /\ allow
  /\ drain' = (drain \/ TooLate(queued)) /\ push' = "late"
  /\ UNCHANGED <<out, queued, mic, button>>
PushEnds ==
  /\ push = "late"
  /\ push' = "idle"
  /\ IF drain /\ Drains(queued) THEN UNCHANGED <<drain, queued>>
     ELSE drain' = FALSE /\ queued' = queued + 1
  /\ UNCHANGED <<out, mic, button>>
PushAudioFrame == PushBegins \/ PushEnds

Play ==
  /\ queued > 0
  /\ queued' = queued - 1
  /\ UNCHANGED <<out, drain, push, mic, button>>

-----------------------------------------------------------------------------
Init ==
  /\ allow = FALSE /\ micConnected = FALSE /\ muted = TRUE /\ recording = "none"
  /\ gui = "idle" /\ console = "none"
  /\ posted = <<>> /\ buf = <<>> /\ read = 0
  /\ encoded = [due |-> 0, was |-> 0, frames |-> <<>>]
  /\ out = FALSE /\ queued = 0 /\ drain = FALSE /\ push = "idle"
Next ==
  \/ ToggleMute \/ Connect \/ Tell \/ Pause \/ InitAudio
  \/ (\E n \in Chunks : Record(n)) \/ ReadMic
  \/ PushBegins \/ PushEnds \/ Play
Spec == Init /\ [][Next]_vars
\* The console goes on sending sound, and the device playing it.
FairSpec == Spec /\ WF_vars(PushAudioFrame) /\ WF_vars(Play)

-----------------------------------------------------------------------------
\* Every variable has its type; SDL holds no more than it would.
TypeOK ==
  /\ recording \in {"none", "paused", "on"} /\ console \in {"none", "muted", "unmuted"}
  /\ gui \in {"idle", "connect", "tell", "pause"} /\ muted \in BOOLEAN
  /\ Len(buf) < FrameSize /\ Len(posted) <= MaxPosted /\ read \in 0 .. Numbers - 1
  /\ queued \in 0 .. MaxQueued /\ push \in {"idle", "late"} /\ drain \in BOOLEAN

Numbered(s, first) == \A i \in DOMAIN s : s[i].number = (first + i - 1) % Numbers
\* What is encoded is what was read, every sample once and in order, however
\* SDL cuts it.
FramesInOrder ==
  /\ \A k \in DOMAIN encoded.frames :
       /\ Len(encoded.frames[k]) = FrameSize
       /\ Numbered(encoded.frames[k], encoded.was + (k - 1) * FrameSize)
  /\ Numbered(buf, encoded.due)
\* Nothing recorded while the button said "muted" is sent or kept to be sent.
MutedStaysHere ==
  /\ \A k \in DOMAIN encoded.frames : \A i \in 1 .. FrameSize : ~encoded.frames[k][i].secret
  /\ \A i \in DOMAIN buf : ~buf[i].secret
\* The console hears the microphone exactly when the player thinks so.
ConsoleAgrees ==
  gui # "connect" /\ micConnected => (console = "muted" <=> muted)
\* Sound is never more than three buffers and a frame late.
NeverFarBehind == queued <= 3 * Buffer + 1
Safe == FramesInOrder /\ MutedStaysHere /\ ConsoleAgrees /\ NeverFarBehind
\* Sound that was dropped to catch up comes back.
NotDropped == ~drain
SoundComesBack == []<>NotDropped
=============================================================================
