------------------------------ MODULE Discovery ------------------------------
(***************************************************************************)
(* lib/src/discovery.c and discoveryservice.c with the desktop client's    *)
(* discoverymanager.cpp: services that ping the network and keep a list of *)
(* the consoles that answer, and the manager that shows the list that was  *)
(* reported last.  The IPv4 and the IPv6 service report to the same slot.  *)
(***************************************************************************)
EXTENDS Naturals, Sequences, FiniteSets, SequencesExt

CONSTANTS Services,    \* the services, over IPv4 and over IPv6
          Consoles,    \* consoles on the network
          HostsMax,    \* HOSTS_MAX
          DropPings,   \* DROP_PINGS
          MaxQueued,   \* bound: reports that wait in the client's queue
          MaxChanges   \* bound: changes of the consoles

States == {"ready", "standby"}

VARIABLES console,     \* what each console is: "off" or a state
          changes,     \* changes so far
          hosts,       \* of each service: id, state and age, ping_index - last_ping_index
          running,     \* the services that run
          answers,     \* answers on their way: service, console and state
          queued,      \* reports in the client's event queue
          shown,       \* the manager's hosts
          reporter,    \* the service whose report is the last one
          ended    \* the manager was deactivated, which ends the model
vars == <<console, changes, hosts, running, answers, queued, shown, reporter, ended>>

network == <<console, changes>>
manager == <<shown, ended>>

-----------------------------------------------------------------------------
(* The list of a service                                                    *)

Ids(list) == {list[i].id : i \in DOMAIN list}
Public(list) == [i \in DOMAIN list |-> [id |-> list[i].id, state |-> list[i].state]]

Report(s, list) == queued' = Append(queued, [from |-> s, list |-> Public(list)]) /\ reporter' = s
Silent == UNCHANGED <<queued, reporter>>

Older(list) == [i \in DOMAIN list |-> [list[i] EXCEPT !.age = @ + 1]]
Expired(h) == h.age > DropPings

\* discovery_service_drop_old_hosts: the host that follows one dropped from the
\* front is not looked at before the next ping.
DropOld(list) ==
  IF list = <<>> THEN <<>>
  ELSE IF Expired(list[1])
       THEN IF Len(list) = 1 THEN <<>>
            ELSE <<list[2]>> \o SelectSeq(SubSeq(list, 3, Len(list)), LAMBDA h : ~Expired(h))
       ELSE SelectSeq(list, LAMBDA h : ~Expired(h))

\* The thread's ping: consoles that are on may answer it.  (An answer that comes
\* after those to the next ping is left out.)
Ping(s) ==
  /\ s \in running /\ Len(queued) < MaxQueued
  /\ LET list == DropOld(Older(hosts[s]))
     IN /\ hosts' = [hosts EXCEPT ![s] = list]
        /\ IF Len(list) # Len(hosts[s]) THEN Report(s, list) ELSE Silent
  /\ \E heard \in SUBSET {c \in Consoles : console[c] # "off"} :
       answers' = {a \in answers : a[1] # s} \union {<<s, c, console[c]>> : c \in heard}
  /\ UNCHANGED <<network, running, manager>>

\* mutant: a new state of a known host is not told
ChangedIfNew(h, state) == h.state = "new"

\* Whether what the host answered differs from what is listed.
Changed(h, state) == h.state # state

Fresh(c) == [id |-> c, state |-> "new", age |-> 0]

\* discovery_service_host_received, on the receiving thread.
HostReceived(s, c, state) ==
  /\ <<s, c, state>> \in answers /\ s \in running /\ Len(queued) < MaxQueued
  /\ answers' = answers \ {<<s, c, state>>}
  /\ IF c \notin Ids(hosts[s]) /\ Len(hosts[s]) = HostsMax
     THEN UNCHANGED hosts /\ Silent
     ELSE LET list == IF c \in Ids(hosts[s]) THEN hosts[s] ELSE Append(hosts[s], Fresh(c))
              i == CHOOSE j \in DOMAIN list : list[j].id = c
              updated == [list EXCEPT ![i].state = state, ![i].age = 0]
          IN /\ hosts' = [hosts EXCEPT ![s] = updated]
             /\ IF Changed(list[i], state) THEN Report(s, updated) ELSE Silent
  /\ UNCHANGED <<network, running, manager>>

-----------------------------------------------------------------------------
(* The manager                                                              *)

\* DiscoveryServiceHosts runs when the event loop comes to it, also after the
\* manager was deactivated.
ShowReport == /\ queued # <<>>
              /\ shown' = Head(queued).list /\ queued' = Tail(queued)
              /\ UNCHANGED <<network, hosts, running, answers, reporter, ended>>

SetActive == /\ running = {} /\ ~ended /\ running' = Services
             /\ hosts' = [s \in Services |-> <<>>]
             /\ UNCHANGED <<network, answers, queued, reporter, manager>>

\* fini joins both threads of each service.
SetInactive == /\ running # {} /\ ~ended /\ running' = {} /\ ended' = TRUE
               /\ shown' = <<>> /\ answers' = {}
               /\ UNCHANGED <<network, hosts, queued, reporter>>

ConsoleChanges(c) ==
  /\ changes < MaxChanges /\ changes' = changes + 1
  /\ \E state \in States \union {"off"} :
       console' = [console EXCEPT ![c] = state]
  /\ UNCHANGED <<hosts, running, answers, queued, reporter, manager>>

Init ==
  /\ console \in [Consoles -> {"off", "ready"}] /\ changes = 0
  /\ hosts = [s \in Services |-> <<>>]
  /\ running = {} /\ answers = {} /\ queued = <<>> /\ shown = <<>>
  /\ reporter \in Services /\ ended = FALSE

Next == \/ \E s \in Services : Ping(s)
        \/ \E s \in Services, c \in Consoles, state \in States : HostReceived(s, c, state)
        \/ ShowReport \/ SetActive \/ SetInactive
        \/ \E c \in Consoles : ConsoleChanges(c)

Spec == Init /\ [][Next]_vars
FairSpec == /\ Spec /\ WF_vars(ShowReport)
            /\ \A s \in Services : /\ WF_vars(Ping(s))
                                   /\ WF_vars(\E c \in Consoles, state \in States : HostReceived(s, c, state))

-----------------------------------------------------------------------------
TypeOK ==
  /\ running \in {{}, Services}
  /\ \A s \in Services : /\ Len(hosts[s]) <= HostsMax
                         /\ \A i \in DOMAIN hosts[s] : hosts[s][i].state \in States

\* No console is listed twice, and none stays for more than one ping after the
\* time at which it is to be dropped.
ListsAreCurrent ==
  \A s \in running :
    /\ \A i, j \in DOMAIN hosts[s] : hosts[s][i].id = hosts[s][j].id => i = j
    /\ \A i \in DOMAIN hosts[s] : hosts[s][i].age <= DropPings + 1

\* The client shows exactly what the service that reported last has listed: no
\* change of that list goes unreported.
ShowsLastReport ==
  running # {} /\ ~ended /\ queued = <<>> => shown = Public(hosts[reporter])

Safe == ListsAreCurrent /\ ShowsLastReport

Shows(c) == c \in Ids(shown)
\* A console that goes off for good is not shown for ever, while the manager
\* stays active.
NotGhost(c) == console[c] = "off" /\ changes = MaxChanges => ~Shows(c) \/ running = {} \/ ended
GoneDisappears == \A c \in Consoles : []<>NotGhost(c)
==============================================================================
