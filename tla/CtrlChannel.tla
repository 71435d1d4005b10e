------------------------------ MODULE CtrlChannel ------------------------------
(***************************************************************************)
(* The bytes of the control connection (lib/src/ctrl.c, and the end of the *)
(* HTTP header that lib/src/http.c looks for): what the request says, how  *)
(* the messages of the console are cut out of recv_buf, and how messages   *)
(* leave. The ctrl thread holds notif_mutex while it sends; the session    *)
(* thread (ctrl_enable_features) and the application (go_home, microphone) *)
(* send under no lock, with the same counter and the same socket. When the *)
(* thread connects, stops and is asked for a PIN is in Ctrl.               *)
(***************************************************************************)
EXTENDS Integers, FiniteSets, Sequences, SequencesExt

CONSTANTS HeaderSize, BufSize, \* 8 and sizeof(recv_buf), scaled
          Sessions, Profiles, \* what is connected to and asked for: some of Answers and of profiles
          Messages,    \* what the console may send: records of a type, the size of its payload and a value
          Endings,     \* ends of HTTP headers, as "r", "n" and "x" for any other byte
          MaxIn, MaxOut, \* bounds: messages of the console, calls that send
          MaxRead      \* bound: bytes that one recv returns

VARIABLES info,        \* the session: is it over RUDP, its target, and the console's answer
          profile,     \* connect_info.video_profile
          phase,       \* "connect", "header", "open", "over"
          nl_state, header_left, \* how far the end of the header has come
          crypt_counter_local, crypt_counter_remote,
          have,        \* recv_buf_size
          inbox,       \* messages of the console that are not handled, the first at recv_buf
          ins, outs,   \* messages of the console, calls that send, so far
          msg_queue,
          todo, at, counter, \* thread -> messages to send, where it is, the counter it took
          last, payloads, \* what the console got last, and how many payloads
          unreadable,  \* history: the console could not read what it got
          overlapped,  \* history: a thread began to send while another did
          garbled,     \* history: a payload was decrypted with another counter than its own
          id_received, keyboard, \* whether there is an id, the last event of the keyboard
          cant_displaya, cant_displayb, told \* what cantdisplay_cb was told last
vars == <<info, profile, phase, nl_state, header_left, crypt_counter_local, crypt_counter_remote, have, inbox, ins, outs, msg_queue,
          todo, at, counter, last, payloads, unreadable, overlapped, garbled, id_received, keyboard, cant_displaya, cant_displayb, told>>
connecting == <<info, profile, nl_state, header_left>>
receiving == <<crypt_counter_remote, have, inbox, ins, garbled, id_received, keyboard, cant_displaya, cant_displayb, told>>
wire == <<last, payloads, unreadable>>
sending == <<crypt_counter_local, todo, at, counter, wire, overlapped>>

Threads == {"ctrl", "session", "user"}
Targets == {"ps4_9", "ps4_10", "ps5"}

\* ctrl_connect encrypts auth, did and ostype, the bitrate for a newer console, and
\* the type of stream for a PS5; over RUDP a PS5 costs one counter more.
Fields(i) == 3 + (IF i.target # "ps4_9" THEN 1 ELSE 0) + (IF i.target = "ps5" THEN 1 ELSE 0)
FirstCounter(i) == Fields(i) + (IF i.rudp /\ i.target = "ps5" THEN 1 ELSE 0)

\* Over RUDP the handshake, over TCP the connection, and then the request.
Connect ==
  /\ phase = "connect" /\ crypt_counter_local' = FirstCounter(info) /\ crypt_counter_remote' = 0 /\ phase' = "header"
  /\ UNCHANGED <<connecting, have, inbox, ins, outs, msg_queue, todo, at, counter, wire, overlapped, garbled, id_received, keyboard,
                 cant_displaya, cant_displayb, told>>
ConnectFails ==
  /\ phase \in {"connect", "header"} /\ phase' = "over" /\ UNCHANGED <<connecting, receiving, sending, outs, msg_queue>>

\* chiaki_recv_http_header: the transitions to "", "\r", "\r\n", "\r\n\r" and the end.
TransitionsR == <<1, 1, 3, 1>>
TransitionsNLoose == <<0, 2, 2, 4>> \* mutant: "\n" alone is no other byte
TransitionsN == <<0, 2, 0, 4>>
Step(state, c) == CASE c = "r" -> TransitionsR[state + 1] [] c = "n" -> TransitionsN[state + 1] [] OTHER -> 0
Steps(state, text) == FoldLeft(LAMBDA s, c : IF s = 4 THEN 4 ELSE Step(s, c), state, text)

\* Regular PS4s show no 1080p, and no PS4 another codec than H264.
Downgraded(i, p) ==
  [height |-> IF i.server = "ps4" /\ i.downgrade /\ p.height = 1080 THEN 720 ELSE p.height,
   codec |-> IF i.server \in {"ps4", "ps4pro"} THEN "h264" ELSE p.codec]

Bytes(m) == HeaderSize + m.size
Coming == FoldLeft(LAMBDA n, m : n + Bytes(m), 0, inbox) \* bytes of messages that are not handled

\* parse_ctrl_response, and what ctrl_connect makes of it
Opens(behind) ==
  IF ~info.ok THEN phase' = "over" /\ UNCHANGED <<profile, crypt_counter_remote, told, have>>
  ELSE /\ phase' = "open" /\ have' = behind /\ told' = (told \/ info.prohibit)
       /\ crypt_counter_remote' = crypt_counter_remote + (IF info.server = "none" THEN 0 ELSE 1)
       /\ profile' = Downgraded(info, profile)

\* Each recv may bring some of the header, and the last one some of what is behind it.
ReceiveHeader(n) ==
  LET chunk == SubSeq(header_left, 1, n) IN
  /\ phase = "header" /\ nl_state' = Steps(nl_state, chunk)
  /\ header_left' = SubSeq(header_left, n + 1, Len(header_left))
  /\ IF nl_state' = 4 THEN \E behind \in 0..(IF info.rudp THEN 0 ELSE MaxRead) : behind <= Coming /\ Opens(behind + Len(header_left'))
     ELSE UNCHANGED <<phase, profile, crypt_counter_remote, told, have>>
  /\ UNCHANGED <<info, sending, outs, msg_queue, inbox, ins, garbled, id_received, keyboard, cant_displaya, cant_displayb>>

-----------------------------------------------------------------------------
(* Receiving *)

Idle(t) == at[t] = "idle" /\ todo[t] = <<>>
Parsing == phase = "open" /\ Idle("ctrl") \* the ctrl thread is in its loop, in no call

\* mutant: a message that just fills the buffer is taken for too long
TooLongAtOnce(m) == Bytes(m) >= BufSize

TooLong(m) == Bytes(m) > BufSize
FirstIsWhole == have >= HeaderSize /\ have >= Bytes(Head(inbox))
Overflows == have >= HeaderSize /\ ~FirstIsWhole /\ TooLong(Head(inbox))
Receiving == Parsing /\ ~FirstIsWhole /\ ~Overflows \* in select, and then in recv

RoomLeft == BufSize - have
Recv(n) ==
  /\ Receiving /\ ~info.rudp /\ n <= RoomLeft /\ have + n <= Coming /\ have' = have + n
  /\ UNCHANGED <<connecting, phase, sending, outs, msg_queue, crypt_counter_remote, inbox, ins, garbled, id_received, keyboard,
                 cant_displaya, cant_displayb, told>>

\* One packet of RUDP may hold several messages, each one whole.
RecvRudp(n) ==
  /\ Receiving /\ info.rudp /\ have = 0 /\ n <= Len(inbox)
  /\ have' = FoldLeft(LAMBDA s, m : s + Bytes(m), 0, SubSeq(inbox, 1, n)) /\ have' <= BufSize
  /\ UNCHANGED <<connecting, phase, sending, outs, msg_queue, crypt_counter_remote, inbox, ins, garbled, id_received, keyboard,
                 cant_displaya, cant_displayb, told>>

Overflow ==
  /\ Parsing /\ Overflows /\ phase' = "over" /\ UNCHANGED <<connecting, receiving, sending, outs, msg_queue>>

\* ctrl_enable_features
Features == <<"features", "display">>
\* mutant: the console may show the stream again though B still says no
DisplayAFirst(value) ==
  IF value = "no" THEN cant_displaya' = TRUE /\ UNCHANGED <<cant_displayb, told>>
  ELSE cant_displaya' = FALSE /\ told' = FALSE /\ UNCHANGED cant_displayb

DisplayA(value) ==
  IF value = "no" THEN cant_displaya' = TRUE /\ UNCHANGED <<cant_displayb, told>>
  ELSE IF cant_displayb THEN UNCHANGED <<cant_displaya, cant_displayb, told>>
  ELSE cant_displaya' = FALSE /\ told' = FALSE /\ UNCHANGED cant_displayb
DisplayB(value) ==
  IF value = "no" THEN /\ IF cant_displaya /\ ~cant_displayb THEN told' = TRUE /\ cant_displayb' = TRUE ELSE UNCHANGED <<told, cant_displayb>>
                       /\ UNCHANGED cant_displaya
  ELSE cant_displayb' = FALSE /\ UNCHANGED <<cant_displaya, told>>

Replies(ms) == todo' = [todo EXCEPT !["ctrl"] = ms]
SessionId == id_received' = TRUE /\ Replies(Features)
Keyboard(m) == keyboard' = m.type
NoDisplay == UNCHANGED <<cant_displaya, cant_displayb, told>>

\* mutant: the counter goes on for a message without a payload as well
CountsAll(m) == 1

Counts(m) == IF m.size > 0 THEN 1 ELSE 0

\* ctrl_message_received: the payload is decrypted with the next counter.
Handle ==
  LET m == Head(inbox) IN
  /\ Parsing /\ FirstIsWhole
  /\ inbox' = Tail(inbox) /\ have' = have - Bytes(m)
  /\ crypt_counter_remote' = crypt_counter_remote + Counts(m)
  /\ garbled' = (garbled \/ (m.size > 0 /\ m.counter # crypt_counter_remote))
  /\ CASE m.type = "session_id" -> SessionId /\ NoDisplay /\ UNCHANGED keyboard
       [] m.type = "heartbeat" -> Replies(<<"heartbeat">>) /\ NoDisplay /\ UNCHANGED <<id_received, keyboard>>
       [] m.type = "displaya" -> DisplayA(m.value) /\ UNCHANGED <<todo, id_received, keyboard>>
       [] m.type = "displayb" -> DisplayB(m.value) /\ UNCHANGED <<todo, id_received, keyboard>>
       [] m.type \in {"keyboard_open", "keyboard_text", "keyboard_close"} -> Keyboard(m) /\ NoDisplay /\ UNCHANGED <<todo, id_received>>
  /\ UNCHANGED <<connecting, phase, ins, outs, msg_queue, crypt_counter_local, at, counter, wire, overlapped>>

\* The console (external) counts the payloads it encrypts.
ConsoleCounter == (IF info.server = "none" THEN 0 ELSE 1) + ins.payloads
ConsoleSends(m) ==
  /\ phase \in {"header", "open"} /\ ins.messages < MaxIn
  /\ inbox' = Append(inbox, [type |-> m.type, size |-> m.size, value |-> m.value, counter |-> IF m.size > 0 THEN ConsoleCounter ELSE 0])
  /\ ins' = [messages |-> ins.messages + 1, payloads |-> ins.payloads + (IF m.size > 0 THEN 1 ELSE 0)]
  /\ UNCHANGED <<connecting, phase, sending, outs, msg_queue, crypt_counter_remote, have, garbled, id_received, keyboard,
                 cant_displaya, cant_displayb, told>>

-----------------------------------------------------------------------------
(* Sending: ctrl_message_send *)

HasPayload(m) == m # "heartbeat"

\* crypt_counter_local++ reads and writes with nothing in between to stop another
\* thread. A PIN over RUDP is encrypted with the counter before the one it takes.
TakeCounter(t) ==
  LET m == Head(todo[t]) IN
  /\ at[t] = "idle" /\ todo[t] # <<>> /\ phase \in {"open", "over"}
  /\ IF HasPayload(m) THEN at' = [at EXCEPT ![t] = "counted"] /\ counter' = [counter EXCEPT ![t] = crypt_counter_local]
     ELSE at' = [at EXCEPT ![t] = "header"] /\ UNCHANGED counter
  /\ overlapped' = (overlapped \/ \E u \in Threads \ {t} : at[u] # "idle")
  /\ UNCHANGED <<connecting, phase, receiving, outs, msg_queue, crypt_counter_local, todo, wire>>
WriteCounter(t) ==
  /\ at[t] = "counted" /\ crypt_counter_local' = counter[t] + 1 /\ at' = [at EXCEPT ![t] = "header"]
  /\ UNCHANGED <<connecting, phase, receiving, outs, msg_queue, todo, counter, wire, overlapped>>

UsedCounter(t) == IF info.rudp /\ Head(todo[t]) = "pin" THEN counter[t] - 1 ELSE counter[t]
Header(t) == [part |-> "header", of |-> Head(todo[t]), counter |-> 0]
Payload(t) == [part |-> "payload", of |-> Head(todo[t]), counter |-> UsedCounter(t)]
Done(t) == at' = [at EXCEPT ![t] = "idle"] /\ counter' = [counter EXCEPT ![t] = 0] /\ todo' = [todo EXCEPT ![t] = Tail(@)]

\* The console (external) takes what follows a header for its payload, and decrypts each
\* payload with the next counter.
Reads(part) ==
  /\ last' = [part EXCEPT !.counter = 0] /\ payloads' = payloads + (IF part.part = "payload" THEN 1 ELSE 0)
  /\ unreadable' = \/ unreadable
                   \/ last.part = "header" /\ HasPayload(last.of) /\ ~(part.part = "payload" /\ part.of = last.of)
                   \/ part.part = "payload" /\ ~(info.rudp /\ part.of = "pin") /\ part.counter # FirstCounter(info) + payloads

\* Over TCP header and payload are two sends, over RUDP one message.
SendHeader(t) ==
  /\ at[t] = "header"
  /\ IF info.rudp THEN Reads(IF HasPayload(Head(todo[t])) THEN Payload(t) ELSE Header(t)) /\ Done(t)
     ELSE /\ Reads(Header(t))
          /\ IF HasPayload(Head(todo[t])) THEN at' = [at EXCEPT ![t] = "payload"] /\ UNCHANGED <<todo, counter>> ELSE Done(t)
  /\ UNCHANGED <<connecting, phase, receiving, outs, msg_queue, crypt_counter_local, overlapped>>
SendPayload(t) ==
  /\ at[t] = "payload" /\ Reads(Payload(t)) /\ Done(t)
  /\ UNCHANGED <<connecting, phase, receiving, outs, msg_queue, crypt_counter_local, overlapped>>

Calls(t, ms) ==
  /\ phase = "open" /\ outs < MaxOut /\ Idle(t) /\ outs' = outs + 1 /\ todo' = [todo EXCEPT ![t] = ms]
  /\ UNCHANGED <<connecting, phase, receiving, msg_queue, crypt_counter_local, at, counter, wire, overlapped>>
GoHome == Calls("user", <<"go_home">>)
Microphone == Calls("user", <<"mic_connect">>) \/ Calls("user", <<"toggle">>)

\* No session id in time: the session thread makes one up and enables the features.
FallbackId ==
  /\ phase = "open" /\ ~id_received /\ outs < MaxOut /\ outs' = outs + 1 /\ id_received' = TRUE
  /\ todo' = [todo EXCEPT !["session"] = Features]
  /\ UNCHANGED <<connecting, phase, msg_queue, crypt_counter_local, crypt_counter_remote, have, inbox, ins, garbled, keyboard,
                 cant_displaya, cant_displayb, told, at, counter, wire, overlapped>>

\* goto_bed, the keyboard and the PIN are left to the ctrl thread.
Queue(m) ==
  /\ outs < MaxOut /\ Receiving /\ outs' = outs + 1 /\ msg_queue' = Append(msg_queue, m)
  /\ UNCHANGED <<connecting, phase, receiving, sending>>
GotoBed == Queue("goto_bed")
KeyboardText == Queue("text")
KeyboardClose == Queue("accept") \/ Queue("reject")
EnterPin == Queue("pin")
Drain ==
  /\ Receiving /\ msg_queue # <<>> /\ Replies(msg_queue) /\ msg_queue' = <<>>
  /\ UNCHANGED <<connecting, phase, receiving, outs, crypt_counter_local, at, counter, wire, overlapped>>

-----------------------------------------------------------------------------
Answers == [rudp : BOOLEAN, target : Targets, server : {"ps4", "ps4pro", "ps5", "none"}, ok : BOOLEAN, prohibit : BOOLEAN, downgrade : BOOLEAN]
Possible(i) == /\ i.target = "ps5" => i.server \in {"ps5", "none"}
               /\ i.target # "ps5" => i.server # "ps5"
Init == /\ info \in {i \in Sessions : Possible(i)} /\ profile \in Profiles
        /\ phase = "connect" /\ nl_state = 0 /\ header_left \in Endings
        /\ crypt_counter_local = 0 /\ crypt_counter_remote = 0 /\ have = 0 /\ inbox = <<>> /\ ins = [messages |-> 0, payloads |-> 0] /\ outs = 0
        /\ msg_queue = <<>> /\ todo = [t \in Threads |-> <<>>] /\ at = [t \in Threads |-> "idle"] /\ counter = [t \in Threads |-> 0]
        /\ last = [part |-> "none", of |-> "none", counter |-> 0] /\ payloads = 0 /\ unreadable = FALSE /\ overlapped = FALSE /\ garbled = FALSE /\ id_received = FALSE /\ keyboard = "none"
        /\ cant_displaya = FALSE /\ cant_displayb = FALSE /\ told = FALSE

Next == \/ Connect \/ ConnectFails \/ \E n \in 1..Len(header_left) : ReceiveHeader(n)
        \/ \E n \in 1..MaxRead : Recv(n) \/ RecvRudp(n)
        \/ Overflow \/ Handle \/ FallbackId \/ Drain
        \/ \E m \in Messages : ConsoleSends(m)
        \/ \E t \in Threads : TakeCounter(t) \/ WriteCounter(t) \/ SendHeader(t) \/ SendPayload(t)
        \/ GoHome \/ Microphone \/ GotoBed \/ KeyboardText \/ KeyboardClose \/ EnterPin
Spec == Init /\ [][Next]_vars

-----------------------------------------------------------------------------
TypeOK == /\ info \in Answers /\ profile \in [height : {720, 1080}, codec : {"h264", "h265"}]
          /\ phase \in {"connect", "header", "open", "over"} /\ nl_state \in 0..4 /\ have \in 0..BufSize
          /\ \A t \in Threads : at[t] \in {"idle", "counted", "header", "payload"}
          /\ crypt_counter_local \in Nat /\ crypt_counter_remote \in Nat

\* The first byte of recv_buf is always the first byte of a message: the end of the
\* HTTP header is found where it is, however the bytes were cut.
HeaderEndsThere == /\ phase = "header" => header_left # <<>>
                   /\ phase = "open" => header_left = <<>> /\ have <= Coming

\* recv is never asked for no bytes, which it would answer with 0 as if the console
\* had gone; and a message that fits into recv_buf is never given up as too long.
AsksForSomething == /\ Receiving => RoomLeft > 0
                    /\ (phase = "open" /\ Overflows) => Bytes(Head(inbox)) > BufSize

\* Both ends count the same payloads: what the console sent is decrypted with the
\* counter it was encrypted with.
RemoteInStep == ~garbled

\* If no two threads sent at once, every payload follows its header and the counters of
\* the payloads follow each other, which is all that the console has to read them by.
\* (A PIN over RUDP goes with an earlier counter, as the code has it.)
ConsoleCanRead == ~overlapped => ~unreadable

\* The application knows while the console's picture may not be shown, and is not told
\* so for no reason.
DisplayTold == /\ cant_displayb => told
               /\ told => cant_displaya \/ info.prohibit

\* What the console shows can be decoded: no PS4 is asked for more than it has.
ProfileFits == phase = "open" => /\ info.server \in {"ps4", "ps4pro"} => profile.codec = "h264"
                                 /\ info.server = "ps4" /\ info.downgrade => profile.height # 1080

Safe == HeaderEndsThere /\ AsksForSomething /\ RemoteInStep /\ ConsoleCanRead /\ DisplayTold /\ ProfileFits
=============================================================================
