----------------------------- MODULE MCConnecting -----------------------------
\* What finds a console, or a slot in the cloud, and connects to it, each part on a
\* small instance. They
\* share no state here: `part` names the one that runs.
EXTENDS Integers, FiniteSets, Sequences
CONSTANTS Parts

\* The end of the HTTP header, sessions, profiles and messages of a ctrl connection.
MCEndings == {<<"r", "n", "n", "r", "n", "r", "r", "n", "r", "n">>}
MCSessions == {[rudp |-> FALSE, target |-> "ps4_10", server |-> "ps4", ok |-> TRUE, prohibit |-> FALSE, downgrade |-> TRUE],
               [rudp |-> TRUE, target |-> "ps5", server |-> "none", ok |-> TRUE, prohibit |-> TRUE, downgrade |-> TRUE]}
MCProfiles == {[height |-> 1080, codec |-> "h265"]}
MCMessages == [type : {"heartbeat"}, size : {0}, value : {"yes"}] \union [type : {"session_id"}, size : {2}, value : {"yes"}]
              \union [type : {"displaya", "displayb"}, size : {1}, value : {"yes", "no"}]
              \union [type : {"keyboard_text"}, size : {3}, value : {"yes"}]
\* What a stream connection is made with, and a list of more profiles than fit.
MCConnections == {[kind |-> "cloud", target |-> "ps5", service |-> "pscloud", codec |-> "h265", dualsense |-> TRUE, port |-> 9,
                   wrapper |-> 3, spec |-> b] : b \in BOOLEAN}
                 \union {[kind |-> "home", target |-> "ps4", service |-> "none", codec |-> "h264", dualsense |-> FALSE, port |-> 0,
                          wrapper |-> 0, spec |-> FALSE]}
MCLists == {<<[id |-> 1, header |-> FALSE], [id |-> 2, header |-> TRUE], [id |-> 3, header |-> TRUE], [id |-> 4, header |-> TRUE]>>}

VARIABLE part \* the part that runs; the others keep their initial state
VARIABLES regist_info, regist_pc, stop_pipe, found, lost, outcome, events, owner, mutex, succeeded,
          should_stop
VARIABLES cloud, senkusha_pc, waiting, id, finished, flight, taken, search, senkusha_mtu, senkusha_result,
          senkusha_faults
VARIABLES discovery_console, changes, hosts, running, discovery_answers, queued, discovery_shown, reporter,
          ended
VARIABLES kind, ps5, auto_regist, request_console, request_pc, request_stop, failures, regist, target,
          server_target, requests, addresses, request_tried, sock, nonce, request_mtu, handshake,
          request_hole, quit_reason
VARIABLES channel_info, profile, channel_phase, nl_state, header_left, crypt_counter_local,
          crypt_counter_remote, have, channel_inbox, ins, outs, msg_queue, todo, channel_at, counter, last,
          payloads, unreadable, overlapped, garbled, id_received, keyboard, cant_displaya, cant_displayb, told
VARIABLES session, messages_mtu, total, size, chunks, messages_err, messages_phase, sent, profiles, pad,
          messages_console, app, origin, frames, messages_shown, counted, last_us, now, measured_fps,
          measured_rtt_ms, rtts, takion, av, messages
VARIABLES flags, punch_at, punch_port, req, offer_id, punch_result, punch_stop, leaked, queue, ws, hand, wire,
          ws_stop, punch_inbox, answered, offers, accepts, acked, unanswered, fini, punch_faults
VARIABLES candidates_random, candidates_pc, candidates_err, open, watched, candidates_tried, extra, retries,
          responded, chosen, candidates_answers, packets, candidates_faults
VARIABLES step, stun_next, skips, asked, replies, stun_hole, increment, stun_random, stun_port, candidates
VARIABLES cfg, provision_pc, polled, whole, retried, locks, net, elapsed, limit, provision_err, msg, slot,
          provision_cancelled, late, bought, readOnly
VARIABLES forced, prior, pings_pc, pings_next, job, threaded, thread, done, handoff, ok, seen, rows, picker,
          selected, pings_cancelled

\* The registration with a console, of a dialog or a session.
Regist == INSTANCE Regist WITH
  info <- regist_info, pc <- regist_pc
RegistVars == <<regist_info, regist_pc, stop_pipe, found, lost, outcome, events, owner, mutex, succeeded,
    should_stop>>

\* The test of the network before the stream.
Senkusha == INSTANCE Senkusha WITH
  MinMtu <- 2, MaxMtu <- 7, PathIn <- 5, PathOut <- 6, Pings <- 2, Retries <- 2, MaxFaults <- 3,
  pc <- senkusha_pc, mtu <- senkusha_mtu, result <- senkusha_result, faults <- senkusha_faults
SenkushaVars == <<cloud, senkusha_pc, waiting, id, finished, flight, taken, search, senkusha_mtu,
    senkusha_result, senkusha_faults>>

\* The search for consoles and the list of those that answer.
Discovery == INSTANCE Discovery WITH
  Services <- {"v4", "v6"}, Consoles <- {"a"}, HostsMax <- 2, DropPings <- 1, MaxQueued <- 2, MaxChanges <- 1,
  console <- discovery_console, answers <- discovery_answers, shown <- discovery_shown
DiscoveryVars == <<discovery_console, changes, hosts, running, discovery_answers, queued, discovery_shown,
    reporter, ended>>

\* The session request, its retries and what leads up to the stream.
Request == INSTANCE SessionRequest WITH
  Kinds <- {"lan", "psn", "cloud"}, MaxAddresses <- 2, MaxFailures <- 3, console <- request_console,
  pc <- request_pc, stop <- request_stop, tried <- request_tried, mtu <- request_mtu, hole <- request_hole
RequestVars == <<kind, ps5, auto_regist, request_console, request_pc, request_stop, failures, regist, target,
    server_target, requests, addresses, request_tried, sock, nonce, request_mtu, handshake, request_hole,
    quit_reason>>

\* The messages of the ctrl connection, cut and counted.
Channel == INSTANCE CtrlChannel WITH
  HeaderSize <- 2, BufSize <- 4, Sessions <- MCSessions, Profiles <- MCProfiles, Messages <- MCMessages,
  Endings <- MCEndings, MaxIn <- 3, MaxOut <- 1, MaxRead <- 2, info <- channel_info, phase <- channel_phase,
  inbox <- channel_inbox, at <- channel_at
ChannelVars == <<channel_info, profile, channel_phase, nl_state, header_left, crypt_counter_local,
    crypt_counter_remote, have, channel_inbox, ins, outs, msg_queue, todo, channel_at, counter, last,
    payloads, unreadable, overlapped, garbled, id_received, keyboard, cant_displaya, cant_displayb, told>>

\* The messages of the stream connection.
Messages == INSTANCE ConnectionMessages WITH
  Overhead <- 2, FirstOverhead <- 3, ContOverhead <- 2, Mtus <- {7, 8}, BigSizes <- 1 .. 12, ProfilesMax <- 2,
  Lists <- MCLists, Sessions <- MCConnections, Pads <- {0, 1}, Leds <- {0}, Rtts <- {0, 20, 40},
  MaxMessages <- 2, MaxTime <- 2, MaxFails <- 1, mtu <- messages_mtu, err <- messages_err,
  phase <- messages_phase, console <- messages_console, shown <- messages_shown
MessagesVars == <<session, messages_mtu, total, size, chunks, messages_err, messages_phase, sent, profiles,
    pad, messages_console, app, origin, frames, messages_shown, counted, last_us, now, measured_fps,
    measured_rtt_ms, rtts, takion, av, messages>>

\* The exchange of offers over the push service.
Punch == INSTANCE Holepunch WITH
  MaxOffers <- 1, MaxFaults <- 1, at <- punch_at, port <- punch_port, result <- punch_result,
  stop <- punch_stop, inbox <- punch_inbox, faults <- punch_faults
PunchVars == <<flags, punch_at, punch_port, req, offer_id, punch_result, punch_stop, leaked, queue, ws, hand,
    wire, ws_stop, punch_inbox, answered, offers, accepts, acked, unanswered, fini, punch_faults>>

\* The choice of an address that the console answers from.
Candidates == INSTANCE CheckCandidates WITH
  Known <- {"k1", "k2"}, Strangers <- {"s1", "s2"}, MaxExtra <- 1, Tries <- 1, Random <- {"r1"},
  MaxPackets <- 3, MaxFaults <- 1, random <- candidates_random, pc <- candidates_pc, err <- candidates_err,
  tried <- candidates_tried, answers <- candidates_answers, faults <- candidates_faults
CandidatesVars == <<candidates_random, candidates_pc, candidates_err, open, watched, candidates_tried, extra,
    retries, responded, chosen, candidates_answers, packets, candidates_faults>>

\* The guess of the next port of a NAT.
Stun == INSTANCE StunAllocation WITH
  U16 <- 31, WellKnown <- 7, Dynamic <- 24, Guesses <- 3, RandomGuesses <- 4, Servers <- 5, Addresses <- {1},
  Steps <- {0, 1, 2}, MaxSkips <- 1, next <- stun_next, hole <- stun_hole, random <- stun_random,
  port <- stun_port
StunVars == <<step, stun_next, skips, asked, replies, stun_hole, increment, stun_random, stun_port,
    candidates>>

\* The way to a slot of the cloud.
Provision == INSTANCE CloudProvision WITH
  MaxLock <- 1, MaxNet <- 1, NetRetry <- 2, DefaultWait <- 4, MaxWait <- 5, Polls <- {1, 3},
  Estimates <- {0, 1, 4}, pc <- provision_pc, err <- provision_err, cancelled <- provision_cancelled
ProvisionVars == <<cfg, provision_pc, polled, whole, retried, locks, net, elapsed, limit, provision_err, msg,
    slot, provision_cancelled, late, bought, readOnly>>

\* The pings of the datacenters.
Pings == INSTANCE PingJobs WITH
  N <- 2, Old <- {9}, Rtts <- {30, 90}, Gate <- 80, Failed <- 999, pc <- pings_pc, next <- pings_next,
  cancelled <- pings_cancelled
PingsVars == <<forced, prior, pings_pc, pings_next, job, threaded, thread, done, handoff, ok, seen, rows,
    picker, selected, pings_cancelled>>

vars == <<part, RegistVars, SenkushaVars, DiscoveryVars, RequestVars, ChannelVars, MessagesVars, PunchVars,
          CandidatesVars, StunVars, ProvisionVars, PingsVars>>

Init ==
  /\ part \in Parts
  /\ Regist!Init /\ (part = "regist" \/ regist_info = (CHOOSE i \in Regist!Infos : TRUE))
  /\ Senkusha!Init /\ (part = "senkusha" \/ cloud = FALSE)
  /\ Discovery!Init /\ (part = "discovery" \/ (discovery_console = [c \in {"a"} |-> "off"] /\ reporter = "v4"))
  /\ Request!Init /\ (part = "request" \/ (kind = "lan" /\ ps5 = TRUE /\ auto_regist = FALSE /\ request_console = [speaks |-> "1.0", reports |-> "1.0"] /\ request_mtu = "none" /\ handshake = "none"))
  /\ Channel!Init /\ (part = "channel" \/ channel_info = (CHOOSE i \in MCSessions : Channel!Possible(i)))
  /\ Messages!Init /\ (part = "messages" \/ (session = (CHOOSE s \in MCConnections : TRUE) /\ messages_mtu = 5 /\ size = 1))
  /\ Punch!Init
  /\ Candidates!Init /\ (part = "candidates" \/ candidates_random = FALSE)
  /\ Stun!Init /\ (part = "stun" \/ (step = 0 /\ stun_next = 9))
  /\ Provision!Init /\ (part = "provision" \/ cfg = [x \in {"pscloud", "owned", "foreign", "legacy", "skip", "forced"} |-> FALSE])
  /\ Pings!Init /\ (part = "pings" \/ (forced = 0 /\ prior = [d \in {1, 2, 9} |-> Pings!NoRow]))

\* One part runs. The others keep still.
Next ==
  \/ part = "regist" /\ Regist!Next /\ UNCHANGED <<part, SenkushaVars, DiscoveryVars, RequestVars,
        ChannelVars, MessagesVars, PunchVars, CandidatesVars, StunVars, ProvisionVars, PingsVars>>
  \/ part = "senkusha" /\ Senkusha!Next /\ UNCHANGED <<part, RegistVars, DiscoveryVars, RequestVars,
        ChannelVars, MessagesVars, PunchVars, CandidatesVars, StunVars, ProvisionVars, PingsVars>>
  \/ part = "discovery" /\ Discovery!Next /\ UNCHANGED <<part, RegistVars, SenkushaVars, RequestVars,
        ChannelVars, MessagesVars, PunchVars, CandidatesVars, StunVars, ProvisionVars, PingsVars>>
  \/ part = "request" /\ Request!Next /\ UNCHANGED <<part, RegistVars, SenkushaVars, DiscoveryVars,
        ChannelVars, MessagesVars, PunchVars, CandidatesVars, StunVars, ProvisionVars, PingsVars>>
  \/ part = "channel" /\ Channel!Next /\ UNCHANGED <<part, RegistVars, SenkushaVars, DiscoveryVars,
        RequestVars, MessagesVars, PunchVars, CandidatesVars, StunVars, ProvisionVars, PingsVars>>
  \/ part = "messages" /\ Messages!Next /\ UNCHANGED <<part, RegistVars, SenkushaVars, DiscoveryVars,
        RequestVars, ChannelVars, PunchVars, CandidatesVars, StunVars, ProvisionVars, PingsVars>>
  \/ part = "holepunch" /\ Punch!Next /\ UNCHANGED <<part, RegistVars, SenkushaVars, DiscoveryVars,
        RequestVars, ChannelVars, MessagesVars, CandidatesVars, StunVars, ProvisionVars, PingsVars>>
  \/ part = "candidates" /\ Candidates!Next /\ UNCHANGED <<part, RegistVars, SenkushaVars, DiscoveryVars,
        RequestVars, ChannelVars, MessagesVars, PunchVars, StunVars, ProvisionVars, PingsVars>>
  \/ part = "stun" /\ Stun!Next /\ UNCHANGED <<part, RegistVars, SenkushaVars, DiscoveryVars, RequestVars,
        ChannelVars, MessagesVars, PunchVars, CandidatesVars, ProvisionVars, PingsVars>>
  \/ part = "provision" /\ Provision!Next /\ UNCHANGED <<part, RegistVars, SenkushaVars, DiscoveryVars,
        RequestVars, ChannelVars, MessagesVars, PunchVars, CandidatesVars, StunVars, PingsVars>>
  \/ part = "pings" /\ Pings!Next /\ UNCHANGED <<part, RegistVars, SenkushaVars, DiscoveryVars, RequestVars,
        ChannelVars, MessagesVars, PunchVars, CandidatesVars, StunVars, ProvisionVars>>

Spec == Init /\ [][Next]_vars

\* The fairness of each part is that of its own module.
FairSpec ==
  /\ Spec
  /\ WF_RegistVars(part = "regist" /\ Regist!Progress)
  /\ WF_RegistVars(part = "regist" /\ Regist!SessionWakes)
  /\ WF_RegistVars(part = "regist" /\ Regist!SessionJoins)
  /\ WF_RegistVars(part = "regist" /\ Regist!DialogJoins)
  /\ WF_SenkushaVars(part = "senkusha" /\ Senkusha!Send)
  /\ WF_SenkushaVars(part = "senkusha" /\ Senkusha!Receive)
  /\ WF_SenkushaVars(part = "senkusha" /\ Senkusha!Run)
  /\ WF_DiscoveryVars(part = "discovery" /\ Discovery!ShowReport)
  /\ \A s \in {"v4", "v6"} : WF_DiscoveryVars(part = "discovery" /\ Discovery!Ping(s))
  /\ \A s \in {"v4", "v6"} : WF_DiscoveryVars(part = "discovery" /\ (\E state \in Discovery!States : Discovery!HostReceived(s, "a", state)))
  /\ WF_PunchVars(part = "holepunch" /\ Punch!Main)
  /\ WF_PunchVars(part = "holepunch" /\ Punch!Websocket)
  /\ WF_PunchVars(part = "holepunch" /\ Punch!Fini)
  /\ WF_ProvisionVars(part = "provision" /\ Provision!Flow)
  /\ WF_PingsVars(part = "pings" /\ Pings!Owner)
  /\ \A i \in {1, 2} : WF_PingsVars(part = "pings" /\ Pings!HandsOff(i))

\* A registration reports once, a cancel only when it was asked for, and a session
\* goes on with the keys of one that succeeded (regist.c, session.c). The client
\* shows what discovery last reported, and a console that has gone is not listed
\* (discoveryservice.c, discoverymanager.cpp).
FindingSafe ==
  /\ (part = "regist" => Regist!TypeOK /\ Regist!Safe)
  /\ (part = "discovery" => Discovery!TypeOK /\ Discovery!Safe)




\* What was begun ends: the join of a dialog's registration, Senkusha's run, the
\* showing of a console that is off, a cancelled punch, the way to a slot, and the step
\* of the pings. As one part runs only, this is what the modules call
\* DialogGetsThreadBack, RunEnds, GoneDisappears, CancelEnds, FlowEnds and StepEnds.
Done ==
  /\ (part = "regist" => Regist!NoDialogJoins)
  /\ (part = "senkusha" => Senkusha!RunOver)
  /\ (part = "discovery" => Discovery!NotGhost("a"))
  /\ (part = "holepunch" => Punch!CancelOver)
  /\ (part = "provision" => Provision!Over)
  /\ (part = "pings" => Pings!Over)
ConnectingEnds == []<>Done
===============================================================================
