---------------------------- MODULE SessionProofs ----------------------------
(***************************************************************************)
(* What Session promises, however many PINs the console rejects: a prompt  *)
(* that says "incorrect" tells the truth, both mutexes are free and the    *)
(* ctrl thread has ended when QUIT is sent, and the fallback never takes   *)
(* the place of the console's session id.                                  *)
(***************************************************************************)
EXTENDS Session, SequenceTheorems, TLAPS

\* The messages on their way to the ctrl thread: those in recv_buf, then those
\* in the socket.
Pending == Len(buf) + Len(sock)
At(i) == IF i <= Len(buf) THEN buf[i] ELSE sock[i - Len(buf)]
Ids == {"session_id", "bad_id"}

\* Message i will make the session ask the user: it is a rejection, or a request
\* that no session id comes before.
Live(i) ==
  /\ i \in 1 .. Pending
  /\ \/ At(i) = "incorrect"
     \/ At(i) = "pin_req" /\ sessionId = "none" /\ \A j \in 1 .. i - 1 : At(j) \notin Ids
Underway == \E i \in 1 .. Pending : Live(i)
Alike == \A i, j \in 1 .. Pending : Live(i) /\ Live(j) => i = j
Settled == sessionId # "none" \/ \E i \in 1 .. Pending : At(i) \in Ids
Answering == pc \in {"wait_pin", "forward"}

\* The question whether a PIN is right is at one place at a time: in a message,
\* in the session's flag, with the user, in ctrl's flag, or with the console.
OneQuestion ==
  /\ Alike
  /\ Underway => pinRequested = FALSE /\ ~Answering /\ ctrlPin = FALSE /\ console = "asked"
  /\ pinRequested = TRUE => ~Answering /\ ctrlPin = FALSE /\ console = "asked"
  /\ Answering => ctrlPin = FALSE /\ console = "asked"
  /\ ctrlPin = TRUE => console = "asked"
  /\ console = "done" => Settled

\* The prompts are counted by the rejections.
PromptsCounted ==
  /\ Underway \/ pinRequested = TRUE => prompts <= rejects
  /\ console = "ready" => prompts = 0
  /\ prompts <= rejects + 1

\* Who holds a mutex is somewhere where it does.
Locks ==
  /\ notifMutex = "ctrl" =>
       ctrlPc \in {"request", "parse", "store", "store_fallback", "fail_refused",
                   "fail_connect", "fail_parse", "fail_end"}
  /\ stateMutex = "session" =>
       pc \in {"settle", "wait_ctrl", "pin", "wait_pin", "forward", "wait_login", "senkusha"}
  /\ pc \in {"pin", "forward", "senkusha"} => stateMutex = "session"

\* The ctrl thread exists from StartCtrl to JoinCtrl.
Order ==
  /\ pc \in {"start", "request", "settle"} => ctrlPc = "none"
  /\ pc \in {"quitting", "quit"} => ctrlPc \in {"none", "ended"}

\* recv_buf is empty where the ctrl thread fills it, and not where it reads an id.
Buffers ==
  /\ ctrlPc \in {"store", "store_fallback"} => buf # <<>>
  /\ ctrlPc \in {"none", "begin", "connecting", "request", "select", "readable"} => buf = <<>>
  /\ ctrlPc = "readable" => sock # <<>>

Inv == TypeOK /\ Locks /\ Order /\ Buffers /\ OneQuestion /\ PromptsCounted

-----------------------------------------------------------------------------
(* What happens to the messages                                             *)

\* The buffers have lengths.
LEMMA PendingNat == TypeOK => Pending \in Nat /\ Len(buf) \in Nat /\ Len(sock) \in Nat
  BY DEF TypeOK, CtrlTypeOK, Pending

\* What the console sends comes last.
LEMMA Sent ==
  ASSUME TypeOK, NEW ms \in Seq(Messages), sock' = sock \o ms, buf' = buf
  PROVE  /\ sock' \in Seq(Messages) /\ Len(sock') = Len(sock) + Len(ms)
         /\ Pending' = Pending + Len(ms)
         /\ \A i \in 1 .. Pending : At(i)' = At(i)
         /\ \A i \in Pending + 1 .. Pending + Len(ms) : At(i)' = ms[i - Pending]
<1>1. buf \in Seq(Messages) /\ sock \in Seq(Messages)
  BY DEF TypeOK, CtrlTypeOK
<1>2. /\ sock' \in Seq(Messages) /\ Len(sock') = Len(sock) + Len(ms)
      /\ \A i \in 1 .. Len(sock) + Len(ms) :
           sock'[i] = IF i <= Len(sock) THEN sock[i] ELSE ms[i - Len(sock)]
  BY <1>1, ConcatProperties
<1>3. Len(buf) \in Nat /\ Len(sock) \in Nat /\ Len(ms) \in Nat /\ Len(buf') = Len(buf)
  BY <1>1
<1>4. Pending' = Pending + Len(ms) /\ Pending = Len(buf) + Len(sock)
  BY <1>2, <1>3 DEF Pending
<1>5. ASSUME NEW i \in 1 .. Pending PROVE At(i)' = At(i)
  BY <1>2, <1>3, <1>4 DEF At
<1>6. ASSUME NEW i \in Pending + 1 .. Pending + Len(ms) PROVE At(i)' = ms[i - Pending]
  <2>1. /\ ~(i <= Len(buf)) /\ i - Len(buf) \in 1 .. Len(sock) + Len(ms)
        /\ ~(i - Len(buf) <= Len(sock)) /\ (i - Len(buf)) - Len(sock) = i - Pending
    BY <1>3, <1>4
  <2>2. At(i)' = sock'[i - Len(buf)]
    BY <1>3, <2>1 DEF At
  <2> QED
    BY <1>2, <2>1, <2>2
<1> QED
  BY <1>2, <1>4, <1>5, <1>6

\* What is received moves from the socket to recv_buf, which was empty.
LEMMA Received ==
  ASSUME TypeOK, buf = <<>>, NEW k \in 0 .. Len(sock),
         buf' = SubSeq(sock, 1, k), sock' = SubSeq(sock, k + 1, Len(sock))
  PROVE  /\ buf' \in Seq(Messages) /\ Len(buf') = k /\ sock' \in Seq(Messages)
         /\ Pending' = Pending
         /\ \A i \in 1 .. Pending : At(i)' = At(i)
<1>1. /\ sock \in Seq(Messages) /\ Len(sock) \in Nat /\ Len(buf) = 0 /\ k \in Int
      /\ \A i \in 1 .. Len(sock) : sock[i] \in Messages
  BY DEF TypeOK, CtrlTypeOK
<1>2. /\ buf' \in Seq(Messages) /\ Len(buf') = k
      /\ \A i \in 1 .. k : buf'[i] = sock[i]
  BY <1>1, SubSeqProperties
<1>3. /\ sock' \in Seq(Messages) /\ Len(sock') = Len(sock) - k
      /\ \A i \in 1 .. Len(sock) - k : sock'[i] = sock[k + i]
  BY <1>1, SubSeqProperties
<1>4. Pending' = Pending /\ Pending = Len(sock)
  <2>1. Pending = Len(buf) + Len(sock) /\ Pending' = Len(buf') + Len(sock')
    BY DEF Pending
  <2>2. Len(buf) = 0 /\ Len(sock) \in Nat /\ Len(buf') = k /\ Len(sock') = Len(sock) - k
    BY <1>1, <1>2, <1>3
  <2>3. k \in Nat /\ k + (Len(sock) - k) = Len(sock) /\ 0 + Len(sock) = Len(sock)
    BY <1>1
  <2> QED
    BY <2>1, <2>2, <2>3
<1>5. ASSUME NEW i \in 1 .. Pending PROVE At(i)' = At(i)
  <2>1. At(i) = sock[i]
    BY <1>1, <1>4 DEF At
  <2>2. CASE i <= k
    BY <1>1, <1>2, <2>1, <2>2 DEF At
  <2>3. CASE i > k
    <3>1. i - k \in 1 .. Len(sock) - k /\ k + (i - k) = i
      BY <1>1, <1>4, <2>3
    <3> QED
      BY <1>1, <1>2, <1>3, <2>1, <2>3, <3>1 DEF At
  <2> QED
    BY <1>1, <1>4, <2>2, <2>3
<1> QED
  BY <1>2, <1>3, <1>4, <1>5

\* A message that is handled leaves the front.
LEMMA Consumed ==
  ASSUME TypeOK, buf # <<>>, buf' = Tail(buf), sock' = sock
  PROVE  /\ buf' \in Seq(Messages) /\ Pending' = Pending - 1 /\ Pending >= 1
         /\ \A i \in 1 .. Pending - 1 : At(i)' = At(i + 1)
         /\ At(1) = Head(buf)
<1>1. buf \in Seq(Messages) /\ sock \in Seq(Messages)
  BY DEF TypeOK, CtrlTypeOK
<1>2. /\ Tail(buf) \in Seq(Messages) /\ Len(Tail(buf)) = Len(buf) - 1
      /\ \A i \in 1 .. Len(Tail(buf)) : Tail(buf)[i] = buf[i + 1]
      /\ Head(buf) = buf[1]
  BY <1>1, HeadTailProperties
<1>3. Len(buf) \in Nat /\ Len(sock) \in Nat /\ Len(buf) >= 1
  BY <1>1
<1> QED
  BY <1>2, <1>3 DEF Pending, At

\* Whatever the console does, it sends messages.
LEMMA ConsoleSpeaks ==
  ASSUME Console
  PROVE  \E ms \in Seq(Messages) : \E then : ConsoleSends(ms, then)
<1>1. \A m \in Messages : <<m>> \in Seq(Messages) /\ <<"login", "session_id">> \in Seq(Messages)
  BY DEF Messages
<1> QED
  BY <1>1 DEF Console, ConsoleAsksPin, ConsoleRejectsPin, ConsoleAcceptsPin, ConsoleSendsId,
              ConsoleEnds, Messages

\* Where nothing is added, and d messages (at most one) leave the front, no
\* question comes into being.  An id leaves only when the session has one.
LEMMA NothingNew ==
  ASSUME TypeOK, NEW d \in {0, 1}, d <= Pending, Pending' = Pending - d,
         \A i \in 1 .. Pending - d : At(i)' = At(i + d),
         d = 1 => At(1) \notin Ids \/ sessionId' # "none",
         sessionId' = sessionId \/ sessionId' # "none"
  PROVE  /\ Alike => Alike'
         /\ Underway' => Underway
         /\ d = 1 /\ Live(1) /\ Alike => ~Underway'
         /\ Settled => Settled'
<1>1. Pending \in Nat
  BY PendingNat
<1>2. \A i \in 1 .. Pending - d : Live(i)' => Live(i + d)
  <2> SUFFICES ASSUME NEW i \in 1 .. Pending - d, Live(i)' PROVE Live(i + d)
    OBVIOUS
  <2>1. i + d \in 1 .. Pending /\ At(i + d) = At(i)'
    BY <1>1
  <2>2. CASE At(i)' = "incorrect"
    BY <2>1, <2>2 DEF Live
  <2>3. CASE At(i)' = "pin_req" /\ sessionId' = "none" /\ \A j \in 1 .. i - 1 : At(j)' \notin Ids
    <3>1. sessionId = "none"
      BY <2>3
    <3>2. ASSUME NEW j \in 1 .. i + d - 1 PROVE At(j) \notin Ids
      <4>1. CASE j <= d
        BY <4>1, <2>3
      <4>2. CASE j > d
        <5>1. j - d \in 1 .. i - 1 /\ j - d \in 1 .. Pending - d /\ (j - d) + d = j
          BY <1>1, <4>2
        <5> QED
          BY <5>1, <2>3
      <4> QED
        BY <4>1, <4>2
    <3> QED
      BY <2>1, <2>3, <3>1, <3>2 DEF Live
  <2> QED
    BY <2>2, <2>3 DEF Live
<1>3. \A i : Live(i)' => i \in 1 .. Pending - d
  BY DEF Live
<1>4. Alike => Alike'
  <2> SUFFICES ASSUME Alike, NEW i \in 1 .. Pending', NEW j \in 1 .. Pending', Live(i)', Live(j)'
               PROVE  i = j
    BY DEF Alike
  <2>1. Live(i + d) /\ Live(j + d) /\ i + d \in 1 .. Pending /\ j + d \in 1 .. Pending
    BY <1>1, <1>2
  <2> QED
    BY <1>1, <2>1 DEF Alike
<1>5. ASSUME NEW i \in 1 .. Pending', Live(i)'
      PROVE  Underway /\ ~(d = 1 /\ Live(1) /\ Alike)
  <2>1. Live(i + d) /\ i + d \in 1 .. Pending /\ i + 1 # 1
    BY <1>1, <1>2, <1>5
  <2> QED
    BY <1>1, <2>1 DEF Underway, Alike
<1>6. Settled => Settled'
  <2> SUFFICES ASSUME NEW i \in 1 .. Pending, At(i) \in Ids, sessionId' = "none"
               PROVE  \E j \in 1 .. Pending' : At(j)' \in Ids'
    BY DEF Settled
  <2>1. i > d
    OBVIOUS
  <2>2. i - d \in 1 .. Pending - d /\ (i - d) + d = i
    BY <1>1, <2>1
  <2> QED
    BY <2>2 DEF Ids
<1> QED
  BY <1>4, <1>5, <1>6 DEF Underway

-----------------------------------------------------------------------------
(* Places: mutexes, threads and buffers                                     *)

\* Steps of ctrl.c's thread keep the mutexes, the order of the threads and the buffers.
LEMMA CtrlPlaces ==
  ASSUME Inv, CtrlStep, UNCHANGED sessionVars
  PROVE  (Locks /\ Order /\ Buffers)'
<1>1. TypeOK /\ Locks /\ Order /\ Buffers
  BY DEF Inv
<1>2. UNCHANGED <<pc, stateMutex>>
  BY DEF sessionVars, CtrlStep, CtrlBegins, CtrlConnects, CtrlRequestEnds, CtrlFails, Failing,
     CtrlParses, ReceiveId, StoreId, ReceivePinReq, ReceiveLogin, ReceiveIncorrect, Handled,
     ParseEnds, SelectSocket, Receive, SelectCanceled, ConnectUnchanged, Alone
<1>3. CASE CtrlBegins \/ CtrlConnects \/ ParseEnds \/ SelectSocket \/ SelectCanceled
  BY <1>1, <1>2, <1>3 DEF CtrlBegins, CtrlConnects, ParseEnds, SelectSocket, SelectCanceled,
     ConnectUnchanged, Alone, Hold, Release, Locks, Order, Buffers, TypeOK, CtrlTypeOK
<1>4. CASE CtrlRequestEnds \/ Receive
  BY <1>1, <1>2, <1>4 DEF CtrlRequestEnds, Receive,
     Hold, Release, Locks, Order, Buffers, TypeOK, CtrlTypeOK
<1>5. CASE CtrlFails
  BY <1>1, <1>2, <1>5 DEF CtrlFails, Failing,
     Hold, Release, Locks, Order, Buffers, TypeOK, CtrlTypeOK
<1>6. CASE CtrlParses /\ ~ParseEnds
  BY <1>1, <1>2, <1>6 DEF CtrlParses, ReceiveId, StoreId, ReceivePinReq, ReceiveLogin, ReceiveIncorrect,
     Handling, Handled, Alone,
     Hold, Release, Locks, Order, Buffers, TypeOK, CtrlTypeOK
<1> QED
  BY <1>3, <1>4, <1>5, <1>6 DEF CtrlStep, CtrlParses

\* Steps of session.c's thread do, too.
LEMMA SessionPlaces ==
  ASSUME Inv, SessionStep \/ StreamBreaks
  PROVE  (Locks /\ Order /\ Buffers)'
<1>1. TypeOK /\ Locks /\ Order /\ Buffers
  BY DEF Inv
<1> USE <1>1 DEF Locks, Order, Buffers, TypeOK, CtrlTypeOK, Quiet, StepUnchanged, Keep, Leave,
                ctrlVars, requestVars, flagVars, sessionVars, Resumes
<1>2. CASE Start \/ RequestEnds
  BY <1>2 DEF Start, RequestEnds, CheckStop
<1>3. CASE StartCtrl
  BY <1>3 DEF StartCtrl
<1>4. CASE CtrlStartEnds \/ PinWaitEnds \/ LoginWaitEnds
  BY <1>4 DEF CtrlStartEnds, PinWaitEnds, LoginWaitEnds, CheckStop, CtrlFailedQuit
<1>5. CASE PromptPin \/ ForwardPin \/ PinLoopEnds
  BY <1>5 DEF PromptPin, ForwardPin, PinLoopEnds
<1>6. CASE SetFallbackId \/ FallbackSet \/ SenkushaEnds
  BY <1>6 DEF SetFallbackId, FallbackSet, SenkushaEnds, CheckStop
<1>7. CASE StreamStopped \/ StreamBreaks
  BY <1>7 DEF StreamStopped, StreamBreaks, StreamEnds
<1>8. CASE StopCtrl \/ JoinCtrl \/ Quit
  BY <1>8 DEF StopCtrl, JoinCtrl, Joined, Quit
<1>9. CASE SessionWaits
  BY <1>9 DEF SessionWaits, Waits
<1> QED
  BY <1>2, <1>3, <1>4, <1>5, <1>6, <1>7, <1>8, <1>9 DEF SessionStep

\* Neither the user nor the console changes where a thread is.
LEMMA OtherPlaces ==
  ASSUME Inv, User \/ (Console /\ UNCHANGED sessionVars)
  PROVE  (Locks /\ Order /\ Buffers)'
<1>1. TypeOK /\ Locks /\ Order /\ Buffers
  BY DEF Inv
<1>2. CASE User
  BY <1>1, <1>2 DEF User, UserStops, UserEntersPin, UserUnchanged, QueueMessage, WritePipe,
     SendUnchanged, ctrlVars, sessionVars, Locks, Order, Buffers
<1>3. ASSUME NEW ms \in Seq(Messages), NEW then, ConsoleSends(ms, then), UNCHANGED sessionVars
      PROVE  (Locks /\ Order /\ Buffers)'
  <2>1. UNCHANGED <<pc, ctrlPc, stateMutex, notifMutex, buf>> /\ sock' = sock \o ms
    BY <1>3 DEF ConsoleSends, sessionVars
  <2>2. sock # <<>> => sock' # <<>>
    BY <1>1, <2>1, Sent DEF TypeOK, CtrlTypeOK
  <2> QED
    BY <1>1, <2>1, <2>2 DEF Locks, Order, Buffers
<1> QED
  BY <1>2, <1>3, ConsoleSpeaks


-----------------------------------------------------------------------------
(* The question                                                             *)

\* A step with no new question, that at most takes it back.
LEMMA StillOne ==
  ASSUME Inv, Alike', Underway' => Underway, Settled => Settled',
         UNCHANGED <<console, rejects, prompts>>,
         ctrlPin' \in {FALSE, ctrlPin}, pinRequested' \in {FALSE, pinRequested},
         Answering' => Answering
  PROVE  (OneQuestion /\ PromptsCounted)'
<1>1. OneQuestion /\ PromptsCounted
  BY DEF Inv
<1>2. (ctrlPin' = TRUE => ctrlPin = TRUE) /\ (ctrlPin = FALSE => ctrlPin' = FALSE)
  OBVIOUS
<1>3. (pinRequested' = TRUE => pinRequested = TRUE) /\ (pinRequested = FALSE => pinRequested' = FALSE)
  OBVIOUS
<1>4. OneQuestion'
  BY <1>1, <1>2, <1>3 DEF OneQuestion
<1> QED
  BY <1>1, <1>3, <1>4 DEF PromptsCounted

\* A step that leaves the messages alone.
LEMMA CalmQuestion ==
  ASSUME Inv, UNCHANGED <<buf, sock, console, rejects, prompts>>,
         sessionId' = sessionId \/ sessionId' # "none",
         ctrlPin' \in {FALSE, ctrlPin}, pinRequested' \in {FALSE, pinRequested},
         Answering' => Answering
  PROVE  (OneQuestion /\ PromptsCounted)'
<1>1. TypeOK /\ OneQuestion
  BY DEF Inv
<1>2. Pending' = Pending /\ Pending \in Nat /\ (\A i \in 1 .. Pending : At(i)' = At(i))
  BY <1>1, PendingNat DEF Pending, At
<1>3. Alike' /\ (Underway' => Underway) /\ (Settled => Settled')
  <2>1. \A i \in 1 .. Pending - 0 : At(i)' = At(i + 0)
    BY <1>2
  <2> QED
    BY <1>1, <1>2, <2>1, NothingNew DEF OneQuestion
<1> QED
  BY <1>3, StillOne

\* A step that moves what was received to recv_buf.
LEMMA ReceivedQuestion ==
  ASSUME Inv, buf = <<>>, NEW k \in 0 .. Len(sock),
         buf' = SubSeq(sock, 1, k), sock' = SubSeq(sock, k + 1, Len(sock)),
         UNCHANGED <<console, rejects, prompts, sessionId, ctrlPin, pinRequested, pc>>
  PROVE  (OneQuestion /\ PromptsCounted)'
<1>1. TypeOK /\ OneQuestion
  BY DEF Inv
<1>2. Pending' = Pending /\ Pending \in Nat /\ (\A i \in 1 .. Pending : At(i)' = At(i))
  BY <1>1, PendingNat, Received
<1>3. Alike' /\ (Underway' => Underway) /\ (Settled => Settled')
  <2>1. \A i \in 1 .. Pending - 0 : At(i)' = At(i + 0)
    BY <1>2
  <2> QED
    BY <1>1, <1>2, <2>1, NothingNew DEF OneQuestion
<1> QED
  BY <1>3, StillOne DEF Answering

\* A step that handles a message without a word to the user.
LEMMA HandledQuestion ==
  ASSUME Inv, buf # <<>>, buf' = Tail(buf), Head(buf) \notin Ids \/ sessionId' # "none",
         sessionId' = sessionId \/ sessionId' # "none",
         UNCHANGED <<sock, console, rejects, prompts, ctrlPin, pinRequested, pc>>
  PROVE  (OneQuestion /\ PromptsCounted)'
<1>1. TypeOK /\ OneQuestion
  BY DEF Inv
<1>2. /\ Pending' = Pending - 1 /\ Pending >= 1 /\ (\A i \in 1 .. Pending - 1 : At(i)' = At(i + 1))
      /\ At(1) = Head(buf)
  BY <1>1, Consumed
<1>3. Alike' /\ (Underway' => Underway) /\ (Settled => Settled')
  BY <1>1, <1>2, NothingNew DEF OneQuestion
<1> QED
  BY <1>3, StillOne DEF Answering

\* A step that turns the question in front into the session's flag.
LEMMA AskedQuestion ==
  ASSUME Inv, buf # <<>>, buf' = Tail(buf), Head(buf) \notin Ids, Live(1),
         pinRequested' \in BOOLEAN,
         UNCHANGED <<sock, console, rejects, prompts, ctrlPin, sessionId, pc>>
  PROVE  (OneQuestion /\ PromptsCounted)'
<1>1. TypeOK /\ OneQuestion /\ PromptsCounted
  BY DEF Inv
<1>2. /\ Pending' = Pending - 1 /\ Pending >= 1 /\ (\A i \in 1 .. Pending - 1 : At(i)' = At(i + 1))
      /\ At(1) = Head(buf) /\ Pending \in Nat
  BY <1>1, Consumed, PendingNat
<1>3. Alike' /\ ~Underway' /\ (Settled => Settled')
  BY <1>1, <1>2, NothingNew DEF OneQuestion
<1>4. Underway
  BY <1>2 DEF Underway
<1>5. ~Answering /\ ctrlPin = FALSE /\ console = "asked" /\ prompts <= rejects /\ prompts <= rejects + 1
  BY <1>1, <1>4 DEF OneQuestion, PromptsCounted
<1>6. ~Answering' /\ ctrlPin' = FALSE /\ console' = "asked"
  BY <1>5 DEF Answering
<1>7. OneQuestion'
  BY <1>3, <1>6 DEF OneQuestion
<1>8. prompts' <= rejects' /\ prompts' <= rejects' + 1 /\ console' # "ready"
  BY <1>5
<1> QED
  BY <1>7, <1>8 DEF PromptsCounted


\* The ctrl thread hands the question on, and never makes a second one.
LEMMA CtrlQuestion ==
  ASSUME Inv, CtrlStep, UNCHANGED sessionVars
  PROVE  (OneQuestion /\ PromptsCounted)'
<1>1. TypeOK /\ CtrlTypeOK /\ OneQuestion /\ PromptsCounted /\ Buffers
  BY DEF Inv, TypeOK
<1>2. UNCHANGED <<pc, prompts>> /\ (Answering' => Answering)
  BY DEF sessionVars, Answering
<1> USE DEF ConnectUnchanged, Alone, requestVars, flagVars, consoleVars, userVars
<1>3. CASE CtrlBegins \/ CtrlConnects \/ ParseEnds \/ SelectSocket
  <2>1. UNCHANGED <<buf, sock, console, rejects, sessionId, ctrlPin, pinRequested>>
    BY <1>3 DEF CtrlBegins, CtrlConnects, ParseEnds, SelectSocket
  <2> QED
    BY <1>2, <2>1, CalmQuestion
<1>4. CASE CtrlFails
  <2>1. UNCHANGED <<buf, sock, console, rejects, sessionId, ctrlPin, pinRequested>>
    BY <1>4 DEF CtrlFails, Failing
  <2> QED
    BY <1>2, <2>1, CalmQuestion
<1>5. CASE CtrlRequestEnds \/ Receive
  <2>1. /\ UNCHANGED <<console, rejects, sessionId, ctrlPin, pinRequested>> /\ buf = <<>>
        /\ \/ UNCHANGED <<buf, sock>>
           \/ \E k \in 0 .. Len(sock) :
                buf' = SubSeq(sock, 1, k) /\ sock' = SubSeq(sock, k + 1, Len(sock))
    <3>1. 1 .. Len(sock) \subseteq 0 .. Len(sock)
      BY <1>1 DEF CtrlTypeOK
    <3> QED
      BY <1>1, <1>5, <3>1 DEF CtrlRequestEnds, Receive, Buffers
  <2> QED
    BY <1>2, <2>1, CalmQuestion, ReceivedQuestion
<1>6. CASE ReceiveId("session_id", "store") \/ ReceiveId("bad_id", "store_fallback")
  <2>1. CASE sessionId = "none"
    <3>1. UNCHANGED <<buf, sock, console, rejects, sessionId, ctrlPin, pinRequested>>
      BY <1>6, <2>1 DEF ReceiveId
    <3> QED
      BY <1>2, <3>1, CalmQuestion
  <2>2. CASE sessionId # "none"
    <3>1. /\ buf # <<>> /\ buf' = Tail(buf)
          /\ UNCHANGED <<sock, console, rejects, sessionId, ctrlPin, pinRequested>>
      BY <1>6, <2>2 DEF ReceiveId, Handling, Handled
    <3> QED
      BY <1>2, <2>2, <3>1, HandledQuestion
  <2> QED
    BY <2>1, <2>2
<1>7. CASE StoreId
  <2>1. /\ buf # <<>> /\ buf' = Tail(buf) /\ sessionId' # "none"
        /\ UNCHANGED <<sock, console, rejects, ctrlPin, pinRequested>>
    BY <1>1, <1>7 DEF StoreId, Buffers, WithFallback
  <2> QED
    BY <1>2, <2>1, HandledQuestion
<1>8. CASE ReceiveLogin
  <2>1. /\ buf # <<>> /\ buf' = Tail(buf) /\ Head(buf) \notin Ids
        /\ UNCHANGED <<sock, console, rejects, sessionId, ctrlPin, pinRequested>>
    BY <1>8 DEF ReceiveLogin, Handling, Handled, Ids
  <2> QED
    BY <1>2, <2>1, HandledQuestion
<1>9. CASE ReceivePinReq \/ ReceiveIncorrect
  <2>1. /\ buf # <<>> /\ buf' = Tail(buf) /\ Head(buf) \in {"pin_req", "incorrect"} /\ Head(buf) \notin Ids
        /\ UNCHANGED <<sock, console, rejects, sessionId, ctrlPin>>
        /\ Head(buf) = "pin_req" /\ sessionId # "none" => pinRequested' = pinRequested
        /\ pinRequested' \in BOOLEAN
    BY <1>1, <1>9 DEF ReceivePinReq, ReceiveIncorrect, Handling, Handled, Ids, CtrlTypeOK
  <2>2. CASE Head(buf) = "pin_req" /\ sessionId # "none"
    BY <1>2, <2>1, <2>2, HandledQuestion
  <2>3. CASE Head(buf) = "incorrect" \/ sessionId = "none"
    <3>1. At(1) = Head(buf) /\ 1 \in 1 .. Pending
      BY <1>1, <2>1, Consumed, PendingNat
    <3>2. Live(1)
      BY <2>1, <2>3, <3>1 DEF Live
    <3> QED
      BY <1>2, <2>1, <3>2, AskedQuestion
  <2> QED
    BY <2>1, <2>2, <2>3
<1>10. CASE SelectCanceled
  <2>1. /\ UNCHANGED <<buf, sock, rejects, sessionId, pinRequested>> /\ ctrlPin' = FALSE
        /\ \/ console' = console
           \/ ctrlPin = TRUE /\ console' = "judging"
    BY <1>1, <1>10 DEF SelectCanceled, CtrlTypeOK
  <2>2. CASE console' = console
    BY <1>2, <2>1, <2>2, CalmQuestion
  <2>3. CASE ctrlPin = TRUE /\ console' = "judging"
    <3>1. ~Underway /\ pinRequested = FALSE /\ ~Answering
      BY <1>1, <2>3 DEF OneQuestion, CtrlTypeOK
    <3>2. Alike' /\ ~Underway' /\ pinRequested' = FALSE /\ ~Answering'
      <4>1. Pending' = Pending /\ Pending \in Nat /\ \A i \in 1 .. Pending - 0 : At(i)' = At(i + 0)
        BY <1>1, <2>1, PendingNat DEF Pending, At
      <4>2. Alike' /\ (Underway' => Underway)
        BY <1>1, <2>1, <4>1, NothingNew DEF OneQuestion
      <4> QED
        BY <1>2, <2>1, <3>1, <4>2
    <3> QED
      BY <1>1, <1>2, <2>1, <2>3, <3>2 DEF OneQuestion, PromptsCounted
  <2> QED
    BY <2>1, <2>2, <2>3
<1> QED
  BY <1>3, <1>4, <1>5, <1>6, <1>7, <1>8, <1>9, <1>10 DEF CtrlStep, CtrlParses


\* The session thread takes the question from its flag to the user, and back to ctrl.
LEMMA SessionQuestion ==
  ASSUME Inv, SessionStep \/ StreamBreaks
  PROVE  (OneQuestion /\ PromptsCounted)'
<1>1. TypeOK /\ CtrlTypeOK /\ OneQuestion /\ PromptsCounted
  BY DEF Inv, TypeOK
<1> USE DEF ctrlVars, requestVars, flagVars, consoleVars, userVars, sessionVars, StepUnchanged, Quiet,
            Keep, Leave, Resumes
<1>2. CASE Start \/ RequestEnds \/ StartCtrl \/ StopCtrl \/ JoinCtrl \/ Quit
  <2>1. /\ UNCHANGED <<buf, sock, console, rejects, prompts, sessionId, ctrlPin, pinRequested>>
        /\ pc' \notin {"wait_pin", "forward"}
    BY <1>2 DEF Start, RequestEnds, StartCtrl, StopCtrl, CtrlStop, JoinCtrl, Quit, CheckStop
  <2> QED
    BY <2>1, CalmQuestion DEF Answering
<1>3. CASE CtrlStartEnds \/ PinWaitEnds \/ LoginWaitEnds
  <2>1. /\ UNCHANGED <<buf, sock, console, rejects, prompts, sessionId, ctrlPin, pinRequested>>
        /\ pc' = "forward" => pc = "wait_pin"
        /\ pc' # "wait_pin"
    BY <1>3 DEF CtrlStartEnds, PinWaitEnds, LoginWaitEnds, CheckStop, CtrlFailedQuit
  <2> QED
    BY <2>1, CalmQuestion DEF Answering
<1>4. CASE PinLoopEnds \/ FallbackSet \/ SenkushaEnds \/ StreamStopped \/ StreamBreaks
  <2>1. /\ UNCHANGED <<buf, sock, console, rejects, prompts, sessionId, ctrlPin, pinRequested>>
        /\ pc' \notin {"wait_pin", "forward"}
    BY <1>4 DEF PinLoopEnds, FallbackSet, SenkushaEnds, StreamStopped, StreamBreaks, StreamEnds, CheckStop
  <2> QED
    BY <2>1, CalmQuestion DEF Answering
<1>5. CASE SetFallbackId
  <2>1. /\ UNCHANGED <<buf, sock, console, rejects, prompts, ctrlPin, pinRequested>>
        /\ pc' \notin {"wait_pin", "forward"} /\ sessionId' # "none"
    BY <1>5 DEF SetFallbackId, WithFallback
  <2> QED
    BY <2>1, CalmQuestion DEF Answering
<1>6. CASE SessionWaits
  <2>1. UNCHANGED <<buf, sock, console, rejects, prompts, sessionId, ctrlPin, pinRequested, pc>>
    BY <1>6 DEF SessionWaits, Waits
  <2> QED
    BY <2>1, CalmQuestion DEF Answering
<1>7. CASE PromptPin
  <2>1. /\ UNCHANGED <<buf, sock, console, rejects, sessionId, ctrlPin>> /\ pc = "pin" /\ pinRequested = TRUE
        /\ pinRequested' = FALSE /\ prompts' = prompts + 1 /\ pc' = "wait_pin"
    BY <1>1, <1>7 DEF PromptPin, RequestTaken, CtrlTypeOK
  <2>2. ~Underway /\ ctrlPin = FALSE /\ console = "asked" /\ prompts <= rejects
    BY <1>1, <2>1 DEF OneQuestion, PromptsCounted
  <2>3. Alike' /\ ~Underway'
    <3>1. Pending' = Pending /\ Pending \in Nat /\ \A i \in 1 .. Pending - 0 : At(i)' = At(i + 0)
      BY <1>1, <2>1, PendingNat DEF Pending, At
    <3>2. Alike' /\ (Underway' => Underway)
      BY <1>1, <2>1, <3>1, NothingNew DEF OneQuestion
    <3> QED
      BY <2>2, <3>2
  <2>4. OneQuestion'
    BY <2>1, <2>2, <2>3 DEF OneQuestion
  <2>5. prompts' <= rejects' + 1
    BY <1>1, <2>1, <2>2 DEF TypeOK, CtrlTypeOK
  <2> QED
    BY <2>1, <2>2, <2>3, <2>4, <2>5 DEF PromptsCounted
<1>8. CASE ForwardPin
  <2>1. /\ UNCHANGED <<buf, sock, console, rejects, sessionId, pinRequested, prompts>> /\ pc = "forward"
        /\ pc' = "wait_login" /\ ctrlPin' = TRUE
    BY <1>8 DEF ForwardPin, SetLoginPin
  <2>2. ~Underway /\ pinRequested = FALSE /\ console = "asked"
    BY <1>1, <2>1 DEF OneQuestion, Answering, CtrlTypeOK
  <2>3. Alike' /\ ~Underway' /\ ~Answering'
    <3>1. Pending' = Pending /\ Pending \in Nat /\ \A i \in 1 .. Pending - 0 : At(i)' = At(i + 0)
      BY <1>1, <2>1, PendingNat DEF Pending, At
    <3>2. Alike' /\ (Underway' => Underway)
      BY <1>1, <2>1, <3>1, NothingNew DEF OneQuestion
    <3> QED
      BY <2>1, <2>2, <3>2 DEF Answering
  <2>4. OneQuestion'
    BY <2>1, <2>2, <2>3 DEF OneQuestion
  <2> QED
    BY <1>1, <2>1, <2>2, <2>3, <2>4 DEF PromptsCounted
<1> QED
  BY <1>2, <1>3, <1>4, <1>5, <1>6, <1>7, <1>8 DEF SessionStep

\* A message that the console sends is a new question only if it is live.
LEMMA SentQuestion ==
  ASSUME Inv, NEW ms \in Seq(Messages), NEW then, ConsoleSends(ms, then), UNCHANGED sessionVars
  PROVE  /\ Underway' => \/ Underway
                         \/ \E j \in 1 .. Len(ms) : ms[j] = "incorrect" \/ (ms[j] = "pin_req" /\ ~Settled)
         /\ Alike /\ ~Underway /\ Len(ms) = 1 => Alike'
         /\ Alike /\ (\A j \in 1 .. Len(ms) : ms[j] \notin {"incorrect", "pin_req"}) => Alike'
         /\ Settled \/ (\E j \in 1 .. Len(ms) : ms[j] \in Ids) => Settled'
<1>1. /\ TypeOK /\ CtrlTypeOK /\ sessionId' = sessionId /\ Pending \in Nat /\ Len(ms) \in Nat
      /\ Pending' = Pending + Len(ms) /\ (\A i \in 1 .. Pending : At(i)' = At(i))
      /\ \A i \in Pending + 1 .. Pending + Len(ms) : At(i)' = ms[i - Pending]
  BY Sent, PendingNat DEF Inv, TypeOK, ConsoleSends, flagVars
<1>2. \A i \in 1 .. Pending : Live(i)' => Live(i)
  BY <1>1 DEF Live, Ids
<1>3. \A i \in Pending + 1 .. Pending + Len(ms) :
        Live(i)' => /\ i - Pending \in 1 .. Len(ms)
                    /\ \/ ms[i - Pending] = "incorrect"
                       \/ ms[i - Pending] = "pin_req" /\ ~Settled
  <2> SUFFICES ASSUME NEW i \in Pending + 1 .. Pending + Len(ms), Live(i)'
               PROVE  /\ i - Pending \in 1 .. Len(ms)
                      /\ \/ ms[i - Pending] = "incorrect"
                         \/ ms[i - Pending] = "pin_req" /\ ~Settled
    OBVIOUS
  <2>1. i - Pending \in 1 .. Len(ms) /\ At(i)' = ms[i - Pending]
    BY <1>1
  <2>2. CASE ms[i - Pending] = "incorrect"
    BY <2>1, <2>2
  <2>3. CASE ms[i - Pending] # "incorrect"
    <3>1. ms[i - Pending] = "pin_req" /\ sessionId' = "none" /\ \A j \in 1 .. i - 1 : At(j)' \notin Ids
      BY <2>1, <2>3 DEF Live, Ids
    <3>2. \A j \in 1 .. Pending : At(j) \notin Ids
      BY <1>1, <3>1
    <3> QED
      BY <1>1, <2>1, <3>1, <3>2 DEF Settled
  <2> QED
    BY <2>2, <2>3
<1>4. \A i : Live(i)' => i \in 1 .. Pending \/ i \in Pending + 1 .. Pending + Len(ms)
  BY <1>1 DEF Live
<1>5. Underway' => \/ Underway
                  \/ \E j \in 1 .. Len(ms) : ms[j] = "incorrect" \/ (ms[j] = "pin_req" /\ ~Settled)
  BY <1>1, <1>2, <1>3, <1>4 DEF Underway
<1>6. ASSUME Alike, ~Underway, Len(ms) = 1 PROVE Alike'
  <2>1. \A i : Live(i)' => i = Pending + 1
    BY <1>1, <1>2, <1>4, <1>6 DEF Underway
  <2> QED
    BY <2>1 DEF Alike
<1>7. ASSUME Alike, \A j \in 1 .. Len(ms) : ms[j] \notin {"incorrect", "pin_req"} PROVE Alike'
  <2>1. \A i : Live(i)' => i \in 1 .. Pending /\ Live(i)
    BY <1>2, <1>3, <1>4, <1>7
  <2> QED
    BY <1>7, <2>1 DEF Alike
<1>8. Settled => Settled'
  BY <1>1 DEF Settled, Ids
<1>9. ASSUME NEW j \in 1 .. Len(ms), ms[j] \in Ids PROVE Settled'
  <2>1. Pending + j \in 1 .. Pending' /\ Pending + j \in Pending + 1 .. Pending + Len(ms)
        /\ (Pending + j) - Pending = j
    BY <1>1
  <2>2. \E i \in 1 .. Pending' : At(i)' \in Ids
    BY <1>1, <1>9, <2>1
  <2> QED
    BY <2>2 DEF Settled, Ids
<1> QED
  BY <1>5, <1>6, <1>7, <1>8, <1>9


\* The console asks when no question is open, or answers the one it judges.
LEMMA ConsoleQuestion ==
  ASSUME Inv, Console, UNCHANGED sessionVars
  PROVE  (OneQuestion /\ PromptsCounted)'
<1>1. /\ TypeOK /\ CtrlTypeOK /\ OneQuestion /\ PromptsCounted /\ Alike
      /\ UNCHANGED <<pc, prompts>> /\ (Answering' <=> Answering)
  BY DEF Inv, TypeOK, OneQuestion, sessionVars, Answering
<1>2. /\ console # "asked" => ~Underway /\ pinRequested = FALSE /\ ~Answering /\ ctrlPin = FALSE
      /\ prompts \in Nat /\ rejects \in Nat
  BY <1>1 DEF OneQuestion, TypeOK, CtrlTypeOK
<1>3. ASSUME NEW m \in {"pin_req", "incorrect", "session_id", "bad_id"}, NEW then \in {"asked", "done"},
             ConsoleSends(<<m>>, then), console # "asked", then = "done" <=> m \in Ids
      PROVE  /\ pinRequested' = FALSE /\ ~Answering' /\ ctrlPin' = FALSE /\ Alike' /\ console' = then
             /\ m \in Ids => ~Underway'
             /\ m = "pin_req" /\ Settled => ~Underway'
             /\ OneQuestion'
  <2> DEFINE ms == <<m>>
  <2>1. /\ ms \in Seq(Messages) /\ Len(ms) = 1 /\ ConsoleSends(ms, then)
        /\ \A j \in 1 .. Len(ms) : ms[j] = m
    BY <1>3 DEF Messages
  <2> HIDE DEF ms
  <2>2. /\ UNCHANGED <<pinRequested, ctrlPin>> /\ console' = then
    BY <1>3 DEF ConsoleSends, flagVars, requestVars
  <2>3. /\ ~Underway /\ Alike'
        /\ Underway' => m = "incorrect" \/ (m = "pin_req" /\ ~Settled)
        /\ m \in Ids => Settled'
    BY <1>1, <1>2, <1>3, <2>1, SentQuestion
  <2>4. m \in Ids => ~Underway'
    BY <2>3 DEF Ids
  <2>5. m \notin Ids => then = "asked"
    BY <1>3
  <2>6. pinRequested' = FALSE /\ ~Answering' /\ ctrlPin' = FALSE
    BY <1>1, <1>2, <1>3, <2>2
  <2>7. OneQuestion'
    BY <1>3, <2>2, <2>3, <2>4, <2>5, <2>6 DEF OneQuestion
  <2> QED
    BY <2>2, <2>3, <2>4, <2>6, <2>7
<1>4. CASE ConsoleAsksPin
  <2>1. /\ ConsoleSends(<<"pin_req">>, "asked") /\ rejects' = rejects
        /\ console = "ready" \/ console = "done"
    BY <1>4 DEF ConsoleAsksPin
  <2>2. "pin_req" \notin Ids /\ console # "asked"
    BY <2>1 DEF Ids
  <2>3. /\ pinRequested' = FALSE /\ console' = "asked" /\ (Settled => ~Underway') /\ OneQuestion'
    BY <1>3, <2>1, <2>2
  <2>4. Underway' => prompts' <= rejects'
    <3>1. console = "done" => Settled
      BY <1>1 DEF OneQuestion
    <3>2. Underway' => prompts = 0
      BY <1>1, <2>1, <2>3, <3>1 DEF PromptsCounted
    <3> QED
      BY <1>1, <1>2, <2>1, <3>2
  <2>5. prompts' <= rejects' + 1 /\ console' # "ready"
    BY <1>1, <2>1, <2>3 DEF PromptsCounted
  <2> QED
    BY <2>3, <2>4, <2>5 DEF PromptsCounted
<1>5. CASE ConsoleRejectsPin
  <2>1. ConsoleSends(<<"incorrect">>, "asked") /\ rejects' = rejects + 1 /\ console = "judging"
    BY <1>5 DEF ConsoleRejectsPin
  <2>2. "incorrect" \notin Ids /\ console # "asked"
    BY <2>1 DEF Ids
  <2>3. /\ pinRequested' = FALSE /\ console' = "asked" /\ OneQuestion'
    BY <1>3, <2>1, <2>2
  <2>4. prompts' <= rejects' /\ prompts' <= rejects' + 1
    BY <1>1, <1>2, <2>1 DEF PromptsCounted
  <2> QED
    BY <2>3, <2>4 DEF PromptsCounted
<1>6. CASE ConsoleSendsId
  <2>1. PICK id \in {"session_id", "bad_id"} : ConsoleSends(<<id>>, "done")
    BY <1>6 DEF ConsoleSendsId
  <2>2. id \in Messages /\ id \in Ids /\ console = "ready" /\ rejects' = rejects
    BY <1>6, <2>1 DEF Messages, Ids, ConsoleSendsId
  <2>3. pinRequested' = FALSE /\ console' = "done" /\ ~Underway' /\ OneQuestion'
    BY <1>3, <2>1, <2>2
  <2>4. prompts' <= rejects' + 1
    BY <1>1, <2>2 DEF PromptsCounted
  <2> QED
    BY <2>3, <2>4 DEF PromptsCounted
<1>7. CASE ConsoleAcceptsPin
  <2> DEFINE ms == <<"login", "session_id">>
  <2>1. ConsoleSends(ms, "done") /\ rejects' = rejects /\ console = "judging"
    BY <1>7 DEF ConsoleAcceptsPin
  <2>2. ms \in Seq(Messages) /\ Len(ms) = 2 /\ ms[1] = "login" /\ ms[2] = "session_id"
    BY DEF Messages
  <2>3. (\A j \in 1 .. Len(ms) : ms[j] \notin {"incorrect", "pin_req"}) /\ \E j \in 1 .. Len(ms) : ms[j] \in Ids
    BY <2>2 DEF Ids
  <2>4. UNCHANGED <<pinRequested, ctrlPin>> /\ console' = "done"
    BY <2>1 DEF ConsoleSends, flagVars, requestVars
  <2> HIDE DEF ms
  <2>5. ~Underway' /\ Alike' /\ Settled'
    BY <1>1, <1>2, <2>1, <2>2, <2>3, SentQuestion
  <2>6. pinRequested' = FALSE /\ ~Answering' /\ ctrlPin' = FALSE
    BY <1>1, <1>2, <2>1, <2>4
  <2>7. OneQuestion'
    BY <2>4, <2>5, <2>6 DEF OneQuestion
  <2>8. prompts' <= rejects' + 1
    BY <1>1, <2>1 DEF PromptsCounted
  <2> QED
    BY <2>4, <2>5, <2>6, <2>7, <2>8 DEF PromptsCounted
<1>8. CASE ConsoleEnds
  <2>1. PICK m \in {"close", "reset"} : ConsoleSends(<<m>>, console)
    BY <1>8 DEF ConsoleEnds
  <2>2. <<m>> \in Seq(Messages) /\ Len(<<m>>) = 1 /\ <<m>>[1] = m /\ rejects' = rejects
    BY <1>8 DEF ConsoleEnds, Messages
  <2>3. UNCHANGED <<pinRequested, ctrlPin, console>>
    BY <2>1 DEF ConsoleSends, flagVars, requestVars
  <2>4. \A j \in 1 .. Len(<<m>>) : <<m>>[j] \notin {"incorrect", "pin_req"}
    BY <2>2
  <2>5. (Underway' => Underway) /\ Alike' /\ (Settled => Settled')
    BY <1>1, <2>1, <2>2, <2>4, SentQuestion
  <2> QED
    BY <1>1, <2>2, <2>3, <2>5, StillOne
<1> QED
  BY <1>4, <1>5, <1>6, <1>7, <1>8 DEF Console

\* The user's calls leave the question where it is.
LEMMA UserQuestion ==
  ASSUME Inv, User
  PROVE  (OneQuestion /\ PromptsCounted)'
<1>1. UNCHANGED <<buf, sock, console, rejects, prompts, sessionId, ctrlPin, pinRequested, pc>>
  BY DEF User, UserStops, UserEntersPin, UserUnchanged, QueueMessage, WritePipe, SendUnchanged,
         ctrlVars, consoleVars, flagVars, requestVars, sessionVars
<1> QED
  BY <1>1, CalmQuestion DEF Answering


-----------------------------------------------------------------------------
(* Types                                                                    *)

\* The ctrl thread's steps keep the types.
LEMMA CtrlTypes ==
  ASSUME Inv, CtrlStep, UNCHANGED sessionVars
  PROVE  TypeOK'
<1>1. TypeOK /\ CtrlTypeOK /\ Buffers
  BY DEF Inv, TypeOK
<1>2. CtrlTypeOK' => TypeOK'
  BY <1>1 DEF TypeOK, sessionVars
<1> USE DEF ConnectUnchanged, Alone, requestVars, flagVars, consoleVars, userVars, Hold, Release, QuitReasons
<1>3. CASE CtrlBegins \/ CtrlConnects \/ ParseEnds \/ SelectSocket
  BY <1>1, <1>2, <1>3 DEF CtrlBegins, CtrlConnects, ParseEnds, SelectSocket, CtrlTypeOK
<1>4. CASE CtrlFails
  BY <1>1, <1>2, <1>4 DEF CtrlFails, Failing, CtrlTypeOK
<1>5. CASE CtrlRequestEnds \/ Receive
  <2>1. /\ UNCHANGED <<stateMutex, userVars, flagVars, requestVars, pinAsked, consoleVars>>
        /\ notifMutex' \in {"free", "ctrl"} /\ ctrlPc' \in {"parse", "fail_connect", "ended", "fail_end"}
        /\ buf = <<>>
        /\ \/ UNCHANGED <<buf, sock>>
           \/ \E k \in 0 .. Len(sock) :
                buf' = SubSeq(sock, 1, k) /\ sock' = SubSeq(sock, k + 1, Len(sock))
    <3>1. 1 .. Len(sock) \subseteq 0 .. Len(sock)
      BY <1>1 DEF CtrlTypeOK
    <3> QED
      BY <1>1, <1>5, <3>1 DEF CtrlRequestEnds, Receive, Buffers
  <2>2. buf' \in Seq(Messages) /\ sock' \in Seq(Messages)
    BY <1>1, <2>1, Received DEF CtrlTypeOK
  <2> QED
    BY <1>1, <1>2, <2>1, <2>2 DEF CtrlTypeOK
<1>6. CASE CtrlParses /\ ~ParseEnds
  <2>1. /\ UNCHANGED <<stateMutex, userVars, requestVars, consoleVars, sock, ctrlFailed, quitReason>>
        /\ notifMutex' \in {notifMutex, "ctrl"}
        /\ ctrlPc' \in {"parse", "store", "store_fallback", "fail_parse"}
        /\ pinAsked' \in BOOLEAN /\ pinRequested' \in BOOLEAN
        /\ sessionId' \in {"none", "console", "fallback"}
        /\ buf # <<>> /\ buf' \in {buf, Tail(buf)}
    BY <1>1, <1>6 DEF CtrlParses, ReceiveId, StoreId, ReceivePinReq, ReceiveLogin, ReceiveIncorrect,
       Handling, Handled, WithFallback, Buffers, CtrlTypeOK
  <2>2. buf' \in Seq(Messages)
    BY <1>1, <2>1, Consumed DEF CtrlTypeOK
  <2> QED
    BY <1>1, <1>2, <2>1, <2>2 DEF CtrlTypeOK
<1>7. CASE SelectCanceled
  <2>1. /\ msgQueue' = 0 /\ ctrlPin' = FALSE /\ ctrlPc' \in {"ended", ctrlPc} /\ pipe' \in {pipe, PipeAfter}
        /\ console' \in {"judging", console}
        /\ UNCHANGED <<stateMutex, userVars, flagVars, notifMutex, ctrlStop, pinAsked, buf, sock, rejects>>
    BY <1>7 DEF SelectCanceled
  <2>2. ctrlPin' \in BOOLEAN /\ pipe' \in BOOLEAN
    BY <1>1, <2>1 DEF PipeAfter, CtrlTypeOK
  <2>3. msgQueue' \in 0 .. sends' /\ sends' \in 0 .. MaxSends
    BY <1>1, <2>1, CtrlAssumption DEF CtrlTypeOK
  <2>4. ctrlPc' \in {"ended", ctrlPc} /\ console' \in {"judging", console}
    BY <2>1
  <2> HIDE DEF QuitReasons
  <2> QED
    BY <1>1, <1>2, <2>1, <2>2, <2>3, <2>4 DEF CtrlTypeOK
<1> QED
  BY <1>3, <1>4, <1>5, <1>6, <1>7 DEF CtrlStep, CtrlParses

\* The session thread's steps do; the prompts stay bounded as they are counted.
LEMMA SessionTypes ==
  ASSUME Inv, SessionStep \/ StreamBreaks
  PROVE  TypeOK'
<1>1. TypeOK /\ CtrlTypeOK
  BY DEF Inv, TypeOK
<1>2. prompts' <= rejects' + 1
  BY SessionQuestion DEF PromptsCounted
<1> USE DEF ctrlVars, requestVars, flagVars, consoleVars, userVars, sessionVars, StepUnchanged, Quiet,
            Keep, Leave, Resumes, CheckStop, QuitReasons
<1>3. CASE Start \/ RequestEnds
  BY <1>1, <1>3 DEF Start, RequestEnds, MayRetry, TypeOK, CtrlTypeOK
<1>4. CASE StartCtrl \/ StopCtrl \/ JoinCtrl \/ Quit
  BY <1>1, <1>4 DEF StartCtrl, StopCtrl, CtrlStop, JoinCtrl, Quit, TypeOK, CtrlTypeOK
<1>5. CASE CtrlStartEnds \/ PinWaitEnds \/ LoginWaitEnds
  BY <1>1, <1>5 DEF CtrlStartEnds, PinWaitEnds, LoginWaitEnds, CtrlFailedQuit, TypeOK, CtrlTypeOK
<1>6. CASE PinLoopEnds \/ FallbackSet \/ SenkushaEnds \/ StreamStopped \/ StreamBreaks
  BY <1>1, <1>6 DEF PinLoopEnds, FallbackSet, SenkushaEnds, StreamStopped, StreamBreaks, StreamEnds,
     TypeOK, CtrlTypeOK
<1>7. CASE SetFallbackId \/ SessionWaits
  BY <1>1, <1>7 DEF SetFallbackId, WithFallback, SessionWaits, Waits, TypeOK, CtrlTypeOK
<1>8. CASE ForwardPin
  <2>1. /\ ctrlPin' = TRUE /\ pipe' = TRUE /\ pinEntered' = FALSE /\ stateMutex' = "session" /\ pc' = "wait_login"
        /\ UNCHANGED <<ctrlVars, ctrlStop, msgQueue, userVars, consoleVars, flagVars,
                        shouldStop, pins, attempts, prompts, forwarded, event>>
    BY <1>8 DEF ForwardPin, SetLoginPin
  <2>2. CtrlTypeOK'
    BY <1>1, <2>1 DEF CtrlTypeOK
  <2> QED
    BY <1>1, <2>1, <2>2 DEF TypeOK
<1>9. CASE PromptPin
  <2>1. /\ prompts' = prompts + 1 /\ pinRequested' = FALSE /\ stateMutex' = "session" /\ pc' = "wait_pin"
        /\ UNCHANGED <<ctrlVars, requestVars, userVars, consoleVars, ctrlFailed, sessionId, quitReason,
                        shouldStop, pinEntered, pins, attempts, forwarded, event>>
    BY <1>9 DEF PromptPin, RequestTaken
  <2>2. prompts \in Nat /\ rejects \in 0 .. MaxRejects /\ pins \in 0 .. prompts /\ rejects' = rejects
    BY <1>1, <2>1 DEF TypeOK, CtrlTypeOK
  <2>3. prompts' \in 0 .. MaxRejects + 1 /\ pins' \in 0 .. prompts'
    BY <1>2, <2>1, <2>2, CtrlAssumption
  <2>4. CtrlTypeOK'
    <3>1. pinRequested' \in BOOLEAN /\ stateMutex' \in {"free", "session"}
      BY <2>1
    <3> HIDE DEF QuitReasons
    <3> QED
      BY <1>1, <2>1, <3>1 DEF CtrlTypeOK
  <2> QED
    BY <1>1, <2>1, <2>3, <2>4 DEF TypeOK
<1> QED
  BY <1>3, <1>4, <1>5, <1>6, <1>7, <1>8, <1>9 DEF SessionStep

\* The user's and the console's steps do.
LEMMA OtherTypes ==
  ASSUME Inv, User \/ (Console /\ UNCHANGED sessionVars)
  PROVE  TypeOK'
<1>1. TypeOK /\ CtrlTypeOK
  BY DEF Inv, TypeOK
<1> USE DEF ctrlVars, requestVars, flagVars, consoleVars, userVars, sessionVars
<1>2. CASE UserStops \/ UserEntersPin
  <2>1. /\ UNCHANGED <<stateMutex, ctrlVars, requestVars, userVars, flagVars, consoleVars,
                        pc, attempts, prompts, forwarded, event>>
        /\ shouldStop' \in {shouldStop, TRUE} /\ pinEntered' \in {pinEntered, TRUE}
        /\ pins' = pins \/ (pins < prompts /\ pins' = pins + 1)
    BY <1>2 DEF UserStops, UserEntersPin, UserUnchanged
  <2>2. CtrlTypeOK'
    BY <1>1, <2>1 DEF CtrlTypeOK
  <2>3. prompts \in Nat /\ pins \in 0 .. prompts /\ prompts' = prompts
    BY <1>1, <2>1 DEF TypeOK
  <2>4. pins' \in 0 .. prompts'
    BY <2>1, <2>3
  <2>5. shouldStop' \in BOOLEAN /\ pinEntered' \in BOOLEAN
    BY <1>1, <2>1 DEF TypeOK
  <2> QED
    BY <1>1, <2>1, <2>2, <2>4, <2>5 DEF TypeOK
<1>3. CASE (QueueMessage \/ WritePipe) /\ UNCHANGED sessionVars
  <2>1. /\ UNCHANGED <<stateMutex, ctrlStop, ctrlPin, ctrlVars, flagVars, consoleVars, sessionVars>>
        /\ sender' \in {"idle", "write"} /\ pipe' \in {pipe, TRUE}
        /\ \/ UNCHANGED <<sends, msgQueue>>
           \/ sends < MaxSends /\ sends' = sends + 1 /\ msgQueue' = msgQueue + 1
    BY <1>3 DEF QueueMessage, WritePipe, SendUnchanged
  <2>2. sends \in 0 .. MaxSends /\ msgQueue \in 0 .. sends /\ pipe \in BOOLEAN
    BY <1>1 DEF CtrlTypeOK
  <2>3. sends' \in 0 .. MaxSends /\ msgQueue' \in 0 .. sends'
    BY <2>1, <2>2, CtrlAssumption
  <2>4. pipe' \in BOOLEAN
    BY <2>1, <2>2
  <2>5. CtrlTypeOK'
    BY <1>1, <2>1, <2>3, <2>4 DEF CtrlTypeOK
  <2> QED
    BY <1>1, <2>1, <2>5 DEF TypeOK
<1>4. CASE Console /\ UNCHANGED sessionVars
  <2>1. rejects \in 0 .. MaxRejects /\ console \in {"ready", "asked", "judging", "done"}
    BY <1>1 DEF CtrlTypeOK
  <2>2. console' \in {"asked", "done", console}
    BY <1>4 DEF Console, ConsoleAsksPin, ConsoleRejectsPin, ConsoleAcceptsPin, ConsoleSendsId,
       ConsoleEnds, ConsoleSends
  <2>3. rejects' = rejects \/ (rejects < MaxRejects /\ rejects' = rejects + 1)
    BY <1>4 DEF Console, ConsoleAsksPin, ConsoleRejectsPin, ConsoleAcceptsPin, ConsoleSendsId, ConsoleEnds
  <2>4. rejects' \in 0 .. MaxRejects
    BY <2>1, <2>3, CtrlAssumption
  <2>5. PICK ms \in Seq(Messages) : \E then : ConsoleSends(ms, then)
    BY <1>4, ConsoleSpeaks
  <2>6. sock' = sock \o ms /\ UNCHANGED <<stateMutex, notifMutex, ctrlPc, pinAsked, buf, requestVars, userVars, flagVars>>
    BY <2>5 DEF ConsoleSends
  <2>7. sock' \in Seq(Messages)
    BY <1>1, <2>6, Sent DEF CtrlTypeOK
  <2>8. CtrlTypeOK'
    BY <1>1, <2>1, <2>2, <2>4, <2>6, <2>7 DEF CtrlTypeOK
  <2> QED
    BY <1>1, <1>4, <2>8 DEF TypeOK
<1> QED
  BY <1>2, <1>3, <1>4 DEF User

-----------------------------------------------------------------------------

\* The invariant holds when chiaki_session_init has returned,
LEMMA InitInv == Init => Inv
<1> SUFFICES ASSUME Init PROVE Inv
  OBVIOUS
<1>1. /\ Pending = 0 /\ buf = <<>> /\ sock = <<>> /\ buf \in Seq(Messages) /\ sock \in Seq(Messages)
      /\ console = "ready" /\ pc = "start" /\ prompts = 0 /\ rejects = 0
      /\ pinRequested = FALSE /\ ctrlPin = FALSE /\ stateMutex = "free" /\ notifMutex = "free" /\ ctrlPc = "none"
  BY DEF Init, CtrlInit, Pending
<1>2. CtrlTypeOK
  <2>1. rejects \in 0 .. MaxRejects /\ sends \in 0 .. MaxSends /\ msgQueue \in 0 .. sends
    BY CtrlAssumption DEF Init, CtrlInit
  <2> QED
    BY <1>1, <2>1 DEF Init, CtrlInit, CtrlTypeOK, QuitReasons
<1>5. TypeOK
  <2>1. prompts \in 0 .. MaxRejects + 1 /\ pins \in 0 .. prompts /\ attempts \in 0 .. 3
    BY CtrlAssumption DEF Init
  <2> QED
    BY <1>2, <2>1 DEF Init, TypeOK, QuitReasons
<1>3. ~Underway /\ Alike
  BY <1>1 DEF Underway, Alike
<1>4. OneQuestion /\ PromptsCounted
  BY <1>1, <1>3 DEF OneQuestion, PromptsCounted, Answering
<1> QED
  BY <1>1, <1>4, <1>5 DEF Inv, Locks, Order, Buffers

\* and every step keeps it,
LEMMA NextInv == Inv /\ [Next]_allVars => Inv'
<1> SUFFICES ASSUME Inv, [Next]_allVars PROVE Inv'
  OBVIOUS
<1>1. CASE SessionStep \/ StreamBreaks
  BY <1>1, SessionPlaces, SessionQuestion, SessionTypes DEF Inv
<1>2. CASE User
  BY <1>2, OtherPlaces, UserQuestion, OtherTypes DEF Inv
<1>3. CASE CtrlStep /\ UNCHANGED sessionVars
  BY <1>3, CtrlPlaces, CtrlQuestion, CtrlTypes DEF Inv
<1>4. CASE Console /\ UNCHANGED sessionVars
  BY <1>4, OtherPlaces, ConsoleQuestion, OtherTypes DEF Inv
<1>5. CASE UNCHANGED allVars
  <2>1. UNCHANGED <<stateMutex, ctrlVars, requestVars, userVars, flagVars, consoleVars, sessionVars>>
    BY <1>5 DEF allVars
  <2> USE <2>1 DEF ctrlVars, requestVars, userVars, flagVars, consoleVars, sessionVars
  <2>2. (OneQuestion /\ PromptsCounted)'
    BY CalmQuestion DEF Answering
  <2>3. TypeOK'
    BY DEF Inv, TypeOK, CtrlTypeOK
  <2> QED
    BY <2>2, <2>3 DEF Inv, Locks, Order, Buffers
<1> QED
  BY <1>1, <1>2, <1>3, <1>4, <1>5 DEF Next

\* so that it always holds.
LEMMA Invariance == Spec => []Inv
  BY InitInv, NextInv, PTL DEF Spec

\* In every execution the variables keep their types; so the session asks the
\* user at most once more than the console may reject.
THEOREM TypeCorrect == Spec => []TypeOK
<1>1. Inv => TypeOK
  BY DEF Inv
<1> QED
  BY <1>1, Invariance, PTL

\* However the threads take turns, and whatever the console sends early, late
\* or twice, the user is told that a PIN was wrong only if one was.
THEOREM PromptsTellTruth == Spec => []PromptTellsTruth
<1>1. Inv => PromptTellsTruth
  BY DEF Inv, PromptsCounted, PromptTellsTruth
<1> QED
  BY <1>1, Invariance, PTL

\* When the session has sent QUIT, the ctrl thread has ended and holds nothing.
THEOREM ThreadsEndCorrect == Spec => []ThreadsEndFirst
<1>1. Inv => ThreadsEndFirst
  BY DEF Inv, Locks, Order, TypeOK, CtrlTypeOK, ThreadsEndFirst
<1> QED
  BY <1>1, Invariance, PTL

\* The session id is set in one critical section after another has looked for
\* it, and both threads may set the fallback: still it gives way.
THEOREM FallbackCorrect == Spec => FallbackGivesWay
<1>1. [Next]_allVars => [sessionId = "console" => sessionId' # "fallback"]_allVars
  <2> SUFFICES ASSUME Next, sessionId = "console" PROVE sessionId' # "fallback"
    OBVIOUS
  <2> USE DEF ctrlVars, requestVars, userVars, flagVars, consoleVars, sessionVars, StepUnchanged, Quiet
  <2>1. CASE SessionStep \/ StreamBreaks
    BY <2>1 DEF SessionStep, Start, RequestEnds, StartCtrl, CtrlStartEnds, PromptPin, PinWaitEnds, ForwardPin,
       LoginWaitEnds, PinLoopEnds, SetFallbackId, WithFallback, FallbackSet, SenkushaEnds, StreamStopped, StreamBreaks,
       StreamEnds, StopCtrl, JoinCtrl, Quit, SessionWaits, Waits
  <2>2. CASE User
    BY <2>2 DEF User, UserStops, UserEntersPin, UserUnchanged, QueueMessage, WritePipe, SendUnchanged
  <2>3. CASE Console
    BY <2>3, ConsoleSpeaks DEF ConsoleSends
  <2>4. CASE CtrlStep
    BY <2>4 DEF CtrlStep, CtrlBegins, CtrlConnects, CtrlRequestEnds, CtrlFails, Failing, CtrlParses, ReceiveId, StoreId,
       WithFallback, ReceivePinReq, ReceiveLogin, ReceiveIncorrect, Handled, ParseEnds, SelectSocket, Receive,
       SelectCanceled, ConnectUnchanged, Alone
  <2> QED
    BY <2>1, <2>2, <2>3, <2>4 DEF Next
<1> QED
  BY <1>1, PTL DEF Spec, FallbackGivesWay

=============================================================================
