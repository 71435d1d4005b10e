--------------------------- MODULE ConnectionMessages ---------------------------
(***************************************************************************)
(* What a stream connection says and what it makes of what it hears        *)
(* (lib/src/streamconnection.c, with lib/src/launchspec.c): the "big"      *)
(* message that is cut into chunks of the path's size, the settings of the *)
(* pad that the application is told of, and the numbers of the overlay. It *)
(* runs on the session thread up to the big message, and on the Takion     *)
(* thread, which handles one packet after the other, from then on. In      *)
(* which state a connection waits for what is in StreamConnection.         *)
(***************************************************************************)
EXTENDS Integers, Sequences, SequencesExt

CONSTANTS Overhead, FirstOverhead, ContOverhead, \* of the network, a first and a further chunk: 50, 26, 25 (cloud: 28, 30, 29)
          Mtus, BigSizes, \* what Senkusha measured, and how long a big message may be
          ProfilesMax,    \* CHIAKI_VIDEO_PROFILES_MAX
          Lists,          \* what a streaminfo may list: sequences of records [id, header]
          Sessions,       \* what is connected to: records [kind, target, service, codec, dualsense, port, wrapper, spec]
          Pads, Leds,     \* values of a setting of the pad, 0 the first, and of its light
          Rtts,           \* what the console may measure, 0 no reading
          MaxMessages, MaxTime, MaxFails \* bounds: messages of the console, the clock, sends that fail

ConnectionMessagesAssumption == ContOverhead < FirstOverhead /\ \A m \in Mtus : m > Overhead + FirstOverhead

VARIABLES session,      \* [kind, target, service, codec, dualsense]: what is connected to
          mtu, total,   \* the smaller mtu less the overhead; total_size, what is left of the big message
          size,         \* how long the big message was
          chunks, err,  \* what was handed to takion, and the result of the last one
          phase,        \* "big", "bang", "idle", "over"
          sent,         \* the types of messages that were sent after the big one but heartbeats
          profiles,     \* video_profiles
          pad,          \* haptic_intensity, trigger_intensity, player_index, led_state
          console,      \* the pad's settings that the console sent last
          app, origin,  \* what the events told the application; resets of the origin: asked for and told
          frames, shown, counted, \* stream_stats.frames; frames completed, and those some sample took
          last_us, now, \* connection_quality_last_us, and the clock
          measured_fps, measured_rtt_ms, rtts, \* the overlay, and history: the readings
          takion, av,   \* how the connection was made and what with; where the last packet went and its codec
          messages
vars == <<takion, av, session, mtu, total, size, chunks, err, phase, sent, profiles, pad, console, app, origin, frames, shown, counted, last_us, now,
          measured_fps, measured_rtt_ms, rtts, messages>>
bigVars == <<mtu, total, size, chunks, err>>
context == <<session, takion, av>>
padVars == <<pad, console, app, origin>>
overlay == <<frames, shown, counted, last_us, now, measured_fps, measured_rtt_ms, rtts>>

Settings == [haptic : Pads, trigger : Pads, player : Pads, led : Leds]
NoSettings == CHOOSE s \in Settings : s.haptic = 0 /\ s.trigger = 0 /\ s.player = 0 /\ s.led = 0

\* chiaki_stream_connection_run: where to, and which Takion is spoken there
Cloud(s) == s.kind = "cloud"
Port(s) == IF Cloud(s) /\ s.port > 0 THEN s.port ELSE 9296
ProtocolVersion(s) == IF Cloud(s) THEN (IF s.service = "pscloud" THEN 12 ELSE 9) ELSE (IF s.target = "ps5" THEN 12 ELSE 9)
Wrapper(s) == IF Cloud(s) THEN s.wrapper ELSE 0
Connect(s) == [port |-> Port(s), version |-> ProtocolVersion(s), wrapper |-> Wrapper(s)]

\* chiaki_launchspec_format: only a PS5 is told of a codec; in the cloud the API's own spec is sent.
LaunchSpec(s) ==
  IF Cloud(s) THEN [from |-> "api"]
  ELSE [from |-> "session", codec |-> IF s.target = "ps5" THEN s.codec ELSE "none"]

\* What the big message holds besides the ids: the version, the spec, the public key and its signature.
BigMessage(s) == [client_version |-> ProtocolVersion(s), launch_spec |-> LaunchSpec(s), ecdh_pub_key |-> "signed with handshake_key"]

\* A cloud session has a launch spec, or there is no big message.
RefusesBig == Cloud(session) /\ ~session.spec
NoSpec ==
  /\ phase = "big" /\ RefusesBig /\ err' = "invalid data" /\ phase' = "over"
  /\ UNCHANGED <<context, mtu, total, size, chunks, sent, profiles, padVars, overlay, messages>>

First == chunks = <<>>
HasToBeCut == mtu < total + FirstOverhead \/ (mtu < total + ContOverhead /\ ~First)
Fails == Len(SelectSeq(chunks, LAMBDA c : ~c.ok))
Chunk(n, flag) ==
  /\ \E ok \in {TRUE} \cup (IF Fails < MaxFails THEN {FALSE} ELSE {}) :
       /\ chunks' = Append(chunks, [from |-> size - total, size |-> n, cont |-> ~First, flag |-> flag, ok |-> ok])
       /\ err' = IF ok THEN "success" ELSE "network"
  /\ total' = total - n

\* A turn of the loop of stream_connection_send_big. What is left fits no first
\* chunk, so it is cut, even where it would fit a further one exactly.
SendBigChunk ==
  /\ phase = "big" /\ ~RefusesBig /\ HasToBeCut
  /\ Chunk(mtu - (IF First THEN FirstOverhead ELSE ContOverhead), 0)
  /\ UNCHANGED <<context, mtu, size, phase, sent, profiles, padVars, overlay, messages>>

\* After the loop: the last chunk, if anything is left. Only its own result counts.
SendBigRest ==
  /\ phase = "big" /\ ~RefusesBig /\ ~HasToBeCut
  /\ IF total > 0 THEN Chunk(total, 1) ELSE UNCHANGED <<chunks, err, total>>
  /\ phase' = IF err' = "success" THEN "bang" ELSE "over"
  /\ UNCHANGED <<context, mtu, size, sent, profiles, padVars, overlay, messages>>

\* Of a list of resolutions those with a header, until there is no room.
Kept(list) ==
  FoldLeft(LAMBDA ps, r : IF r.header /\ Len(ps) < ProfilesMax THEN Append(ps, r.id) ELSE ps, <<>>, list)

\* The bang, the streaminfo, its acknowledgement on channel 9, the controller, and
\* the microphone's own streaminfo: the connection is idle.
Controller == IF session.dualsense THEN "dualsense" ELSE "dualshock4"
Streaminfo(list) ==
  /\ phase = "bang" /\ profiles' = Kept(list) /\ phase' = "idle"
  /\ sent' = sent \o <<"streaminfo ack", Controller, "microphone">>
  /\ UNCHANGED <<context, bigVars, padVars, overlay, messages>>

\* stream_connection_takion_data: PAD_INFO. Both layouts carry the same settings;
\* the fields are compared one by one and the events follow in a fixed order.
Told(old, new, k) == IF new[k] # old[k] THEN new[k] ELSE app[k]
PadInfoInOne(new, reset) == \* mutant: one event at most for a packet
  /\ phase = "idle" /\ messages < MaxMessages /\ messages' = messages + 1
  /\ console' = new /\ pad' = new
  /\ app' = [k \in DOMAIN app |-> IF reset /\ k = "haptic" THEN app[k] ELSE Told(pad, new, k)]
  /\ origin' = IF reset THEN [asked |-> origin.asked + 1, told |-> origin.told + 1] ELSE origin
  /\ UNCHANGED <<context, bigVars, phase, sent, profiles, overlay>>
PadInfo(new, reset) ==
  /\ phase = "idle" /\ messages < MaxMessages /\ messages' = messages + 1
  /\ console' = new /\ pad' = new
  /\ app' = [k \in DOMAIN app |-> Told(pad, new, k)]
  /\ origin' = IF reset THEN [asked |-> origin.asked + 1, told |-> origin.told + 1] ELSE origin
  /\ UNCHANGED <<context, bigVars, phase, sent, profiles, overlay>>

\* A pad info of another size, a short rumble or trigger effect is thrown away; a
\* long one is an event and no state.
OtherData ==
  /\ phase = "idle" /\ messages < MaxMessages /\ messages' = messages + 1
  /\ UNCHANGED <<context, bigVars, phase, sent, profiles, padVars, overlay>>

\* stream_connection_takion_av: where a packet goes and with which codec. A video
\* packet may complete a frame.
Receiver(p) == IF p.video THEN "video" ELSE IF p.haptics THEN "haptics" ELSE "audio"
Codec(p) == IF p.codec = "cloud" THEN session.codec ELSE p.codec
AvPackets == {p \in [video : BOOLEAN, haptics : BOOLEAN, codec : {"h264", "cloud"}] : p.video => ~p.haptics}
Av(p) ==
  /\ phase = "idle" /\ messages < MaxMessages /\ messages' = messages + 1
  /\ av' = [to |-> Receiver(p), codec |-> IF p.video THEN Codec(p) ELSE "none"]
  /\ IF p.video THEN frames' = frames + 1 /\ shown' = shown + 1 ELSE UNCHANGED <<frames, shown>>
  /\ UNCHANGED <<session, takion, bigVars, phase, sent, profiles, padVars, counted, last_us, now, measured_fps, measured_rtt_ms, rtts>>

\* 0.3 of the new and 0.7 of the old
SmoothedAlways(old, new) == (3 * new + 7 * old) \div 10 \* mutant: no seed
Smoothed(old, new) == IF old > 0 THEN (3 * new + 7 * old) \div 10 ELSE new

\* CONNECTIONQUALITY: the frames since the last one and the time between them; an
\* rtt of zero is no reading. The count starts anew.
ConnectionQuality(rtt) ==
  /\ phase = "idle" /\ messages < MaxMessages /\ messages' = messages + 1
  /\ LET sampled == last_us # 0 /\ now > last_us IN
     /\ measured_fps' = IF sampled THEN Smoothed(measured_fps, (100 * frames) \div (now - last_us)) ELSE measured_fps
     /\ counted' = counted + frames
  /\ measured_rtt_ms' = IF rtt > 0 THEN Smoothed(measured_rtt_ms, rtt) ELSE measured_rtt_ms
  /\ rtts' = rtts \cup ({rtt} \ {0}) /\ last_us' = now /\ frames' = 0
  /\ UNCHANGED <<context, bigVars, phase, sent, profiles, padVars, shown, now>>

\* DISCONNECT in any state: the run ends with the console's reason.
Disconnect == /\ phase \in {"bang", "idle"} /\ phase' = "over" /\ UNCHANGED <<context, bigVars, sent, profiles, padVars, overlay, messages>>

\* The session thread: a heartbeat every second, and a disconnect at the end.
Heartbeat ==
  /\ phase = "idle" /\ now < MaxTime /\ now' = now + 1
  /\ UNCHANGED <<context, bigVars, phase, sent, profiles, padVars, frames, shown, counted, last_us, measured_fps, measured_rtt_ms, rtts, messages>>
SendDisconnect ==
  /\ phase \in {"bang", "idle"} /\ phase' = "over" /\ sent' = Append(sent, "disconnect")
  /\ UNCHANGED <<context, bigVars, profiles, padVars, overlay, messages>>

Init ==
  /\ session \in Sessions /\ takion = [connect |-> Connect(session), big |-> BigMessage(session)] /\ av = [to |-> "none", codec |-> "none"]
  /\ \E m \in Mtus : mtu = m - Overhead
  /\ size \in BigSizes /\ total = size /\ chunks = <<>> /\ err = "success" /\ phase = "big"
  /\ sent = <<>> /\ profiles = <<>> /\ pad = NoSettings /\ console = NoSettings /\ app = NoSettings
  /\ origin = [asked |-> 0, told |-> 0]
  /\ frames = 0 /\ shown = 0 /\ counted = 0 /\ last_us = 0 /\ now = 1
  /\ measured_fps = 0 /\ measured_rtt_ms = 0 /\ rtts = {} /\ messages = 0

Next ==
  \/ NoSpec \/ SendBigChunk \/ SendBigRest \/ OtherData \/ Disconnect \/ Heartbeat \/ SendDisconnect
  \/ \E list \in Lists : Streaminfo(list)
  \/ \E new \in Settings, reset \in BOOLEAN : PadInfo(new, reset)
  \/ \E p \in AvPackets : Av(p)
  \/ \E rtt \in Rtts : ConnectionQuality(rtt)

Spec == Init /\ [][Next]_vars

TypeOK ==
  /\ total \in 0..size /\ phase \in {"big", "bang", "idle", "over"} /\ err \in {"success", "network", "invalid data"}
  /\ {pad, console, app} \subseteq Settings /\ Len(profiles) <= ProfilesMax /\ last_us \in 0..now

\* streamconnection.c:1248-1270: the chunks of the big message are the message, none
\* missing and none twice, each fits the path with its header, only the first is no
\* continuation, and nothing follows the one that is marked as the last.
BigArrivesWhole ==
  /\ \A i \in DOMAIN chunks : LET c == chunks[i] IN
       /\ c.from = (IF i = 1 THEN 0 ELSE chunks[i - 1].from + chunks[i - 1].size) /\ c.cont = (i > 1)
       /\ c.size > 0 /\ c.size + (IF c.cont THEN ContOverhead ELSE FirstOverhead) <= mtu
       /\ c.flag = 1 => i = Len(chunks)
  /\ phase = "bang" => Last(chunks).from + Last(chunks).size = size

\* streamconnection.c:1216 "Increased to 32768 to handle very large launch specs":
\* a big message of any length comes to an end, so its last chunk is marked as such.
BigIsFinished == phase = "bang" => Last(chunks).flag = 1

\* streamconnection.c:607-715: after any sequence of pad infos what the application
\* was told last of each setting is what the console said last, however many
\* settings change at once, and every reset of the origin was told.
AppKnowsPad == app = console /\ pad = console /\ origin.asked = origin.told

\* streamconnection.c:789-818: a completed frame belongs to exactly one window
\* between two readings of the quality, and the smoothed rtt never leaves the
\* range of the readings, nor falls back to zero once there was one.
OverlayTellsTruth ==
  /\ counted + frames = shown
  /\ rtts # {} => \E lo, hi \in rtts : lo <= measured_rtt_ms /\ measured_rtt_ms <= hi

Safe == BigArrivesWhole /\ AppKnowsPad /\ OverlayTellsTruth
===============================================================================
