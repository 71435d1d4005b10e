------------------------------ MODULE HostList ------------------------------
(***************************************************************************)
(* The list of consoles in the window: QmlBackend::hosts() builds it from  *)
(* the discovered hosts, the manual hosts, the hosts of the PSN account and*)
(* the registered hosts, and QmlBackend::displayServerAt() says which one  *)
(* an index means.  hosts() also writes to the settings.  The settings keep*)
(* the registered, hidden and manual hosts (gui/src/settings.cpp), save    *)
(* each change at once and load them again at the next start.              *)
(*                                                                         *)
(* A console is its MAC, a number; it has one address.  Everything here    *)
(* runs on the GUI thread, and the list is built anew after every change.  *)
(***************************************************************************)
EXTENDS Naturals, Sequences, SequencesExt, FiniteSetsExt

CONSTANTS Consoles,   \* MACs, numbers above 0
          Names,      \* what a console may be called
          NameOf,     \* [Consoles -> SUBSET Names]
          PS4s,       \* the consoles that are a PS4
          PsnOrder,   \* Seq(Names \union {Main}), as the PSN hosts are ordered
          Main,       \* "Main PS4 Console"
          Legacy,     \* consoles in the file of a program this one replaces
          MaxManual,  \* bound: ids of manual hosts
          None

Zero == 0        \* the MAC of a host nobody filled in
NoName == None
Macs == Consoles \union {Zero}
Ids == 0 .. MaxManual - 1
EmptyHost == [mac |-> Zero, name |-> NoName, of |-> None, ip |-> None]
NoManual == [addr |-> None, registered |-> FALSE, mac |-> Zero]

VARIABLES named,       \* what each console is called now
          discovered,  \* DiscoveryManager::GetHosts()
          reg,         \* registered_hosts
          nick,        \* nickname_registered_hosts
          ps4s,        \* ps4s_registered
          hidden,      \* hidden_hosts: MAC -> nickname
          manual,      \* manual_hosts: id -> host
          nextId,      \* manual_hosts_id_next
          psn,         \* the names in psn_hosts
          list,        \* what hosts() returned last
          dialog       \* regist_dialog_server
vars == <<named, discovered, reg, nick, ps4s, hidden, manual, nextId, psn, list, dialog>>

Stored == [reg |-> reg, nick |-> nick, hidden |-> hidden]
Now == [found |-> discovered, man |-> manual, ps4s |-> ps4s, psn |-> psn]

-----------------------------------------------------------------------------
(* The settings                                                             *)

AddRegisteredHost(s, r) == [s EXCEPT !.reg[r.mac] = r, !.nick[r.name] = r]

RemoveRegisteredHost(s, m) == [s EXCEPT !.reg[m] = None, !.nick[s.reg[m].name] = None]

AddHiddenHost(s, m, name) == [s EXCEPT !.hidden[m] = name]
RemoveHiddenHost(s, m) == [s EXCEPT !.hidden[m] = None]
GetHiddenHost(s, m) == IF s.hidden[m] = None THEN EmptyHost ELSE [EmptyHost EXCEPT !.mac = m, !.name = s.hidden[m]]
GetRegisteredHost(s, m) == IF s.reg[m] = None THEN EmptyHost ELSE s.reg[m]

Registered(r) == {m \in Macs : r[m] # None}
\* The index by name when the hosts are loaded, in the order of their MACs.
NicknameIndex(r) == [n \in Names \union {NoName} |->
  LET called == {m \in Registered(r) : r[m].name = n} IN
  IF called = {} THEN None ELSE r[Max(called)]]
Count4(r) == Cardinality({m \in Registered(r) : r[m].of \in PS4s})

-----------------------------------------------------------------------------
(* hosts()                                                                  *)

\* A discovered host whose MAC is not registered, but whose name is, is taken for
\* a registered console with a new MAC.
KnownByName(s, c) == s.reg[c] = None /\ s.nick[named[c]] # None
Moved(s, c) == IF KnownByName(s, c) /\ s.nick[named[c]].mac # c
               THEN AddRegisteredHost(s, [s.nick[named[c]] EXCEPT !.mac = c]) ELSE s

\* A registered host does not stay hidden, and a hidden host's name is kept up to
\* date; `hidden` is what it was before.
Unhidden(s, c, registered) ==
  IF s.hidden[c] = None THEN s
  ELSE LET t == IF registered THEN RemoveHiddenHost(s, c) ELSE s
           h == GetHiddenHost(t, c)
       IN  IF h.name = named[c] THEN t
           ELSE AddHiddenHost(RemoveHiddenHost(t, c), h.mac, named[c])

\* mutant: the address is only filled in
LastIpOnce(s, c, registered) ==
  LET r == GetRegisteredHost(s, c) IN
  IF registered /\ r.ip = None THEN AddRegisteredHost(s, [r EXCEPT !.ip = c]) ELSE s
LastIp(s, c, registered) ==
  LET r == GetRegisteredHost(s, c) IN
  IF registered /\ r.ip # c THEN AddRegisteredHost(s, [r EXCEPT !.ip = c]) ELSE s

MatchedBy(c, man) == {i \in Ids : man[i].registered /\ man[i].mac = c /\ man[i].addr = c}
Row(kind, id, mac, name, registered, isManual) ==
  [kind |-> kind, id |-> id, mac |-> mac, name |-> name, registered |-> registered, manual |-> isManual]

DiscoveredHost(man, acc, c) ==
  LET registered == acc.s.reg[c] # None \/ KnownByName(acc.s, c)
      s1 == Moved(acc.s, c)
      s2 == LastIp(Unhidden(s1, c, registered), c, registered)
  IN  [s |-> s2,
       rows |-> IF s1.hidden[c] # None THEN acc.rows
                ELSE Append(acc.rows, Row("discovered", c, c, named[c], registered, MatchedBy(c, man) # {})),
       ps4 |-> acc.ps4 + (IF registered /\ c \in PS4s THEN 1 ELSE 0)]

Ascending(S) == SetToSortSeq(S, <)
ManualRows(s, man, found) ==
  LET shown == Ascending({i \in Ids : man[i] # NoManual /\ ~\E c \in found : i \in MatchedBy(c, man)})
      knows(i) == man[i].registered /\ s.reg[man[i].mac] # None
  IN  [k \in 1 .. Len(shown) |-> LET i == shown[k] IN
         IF knows(i) THEN Row("manual", i, man[i].mac, s.reg[man[i].mac].name, TRUE, TRUE)
                     ELSE Row("manual", i, None, None, FALSE, TRUE)]
PsnRows(hosts, found, all4) ==
  LET names == {named[c] : c \in found} \union (IF all4 THEN {Main} ELSE {})
      shown == SelectSeq(PsnOrder, LAMBDA n : n \in hosts /\ n \notin names)
  IN  [k \in 1 .. Len(shown) |-> Row("psn", shown[k], None, shown[k], TRUE, FALSE)]
RegisteredRows(s, rows) ==
  LET listed(m) == \E k \in DOMAIN rows : rows[k].mac = m \/ rows[k].name = s.reg[m].name
      left == Ascending({m \in Registered(s.reg) : ~listed(m) /\ s.hidden[m] = None})
  IN  [k \in 1 .. Len(left) |-> Row("registered", left[k], left[k], s.reg[left[k]].name, TRUE, FALSE)]

Hosts(s, v) ==
  LET step(acc, c) == DiscoveredHost(v.man, acc, c)
      d == FoldLeft(step, [s |-> s, rows |-> <<>>, ps4 |-> 0], v.found)
      found == ToSet(v.found)
      rows == d.rows \o ManualRows(d.s, v.man, found) \o PsnRows(v.psn, found, d.ps4 >= v.ps4s)
  IN  [s |-> d.s, rows |-> rows \o RegisteredRows(d.s, rows)]

\* Every change, to s and v, ends with a new list.
Shows(s, v) == \E h \in {Hosts(s, v)} :
  /\ reg' = h.s.reg /\ nick' = h.s.nick /\ hidden' = h.s.hidden /\ list' = h.rows
  /\ discovered' = v.found /\ manual' = v.man /\ ps4s' = v.ps4s /\ psn' = v.psn

-----------------------------------------------------------------------------
(* displayServerAt(index)                                                   *)

Server(kind, id, registered, host) == [kind |-> kind, id |-> id, registered |-> registered, host |-> host]
NoServer == Server("none", None, FALSE, EmptyHost)
\* mutant: the discovered ones are counted twice
FreePsnAll == SelectSeq(PsnOrder, LAMBDA n : n \in psn)
FreePsn == SelectSeq(PsnOrder, LAMBDA n : n \in psn /\ \A c \in ToSet(discovered) : named[c] # n)
ManualAt(i) == Ascending({k \in Ids : manual[k] # NoManual})[i - Len(discovered)]
DisplayServerAt(i) ==
  LET manuals == Cardinality({k \in Ids : manual[k] # NoManual})
      free == FreePsn
      j == i - Len(discovered) - manuals
  IN  IF i <= Len(discovered)
      THEN Server("discovered", discovered[i], reg[discovered[i]] # None, GetRegisteredHost(Stored, discovered[i]))
      ELSE IF j <= 0
      THEN LET m == ManualAt(i) IN
           Server("manual", m, manual[m].registered /\ reg[manual[m].mac] # None, GetRegisteredHost(Stored, manual[m].mac))
      ELSE IF j <= Len(free)
      THEN Server("psn", free[j], TRUE, IF free[j] \in Names /\ nick[free[j]] # None THEN nick[free[j]] ELSE EmptyHost)
      ELSE NoServer

-----------------------------------------------------------------------------
(* The network and the user                                                 *)

Discover == \E c \in Consoles : c \notin ToSet(discovered)
  /\ Shows(Stored, [Now EXCEPT !.found = Append(@, c)])
  /\ UNCHANGED <<named, nextId, dialog>>

Vanish == \E k \in DOMAIN discovered :
  /\ Shows(Stored, [Now EXCEPT !.found = RemoveAt(@, k)])
  /\ UNCHANGED <<named, nextId, dialog>>

\* Somebody gives a console that is off another name.
Renamed == \E c \in Consoles \ ToSet(discovered) : \E n \in NameOf[c] \ {named[c]} :
  /\ named' = [named EXCEPT ![c] = n]
  /\ UNCHANGED <<discovered, reg, nick, ps4s, hidden, manual, nextId, psn, list, dialog>>

\* connectToHost, for a console that is not registered.
ConnectToHost == \E i \in DOMAIN list :
  /\ DisplayServerAt(i).kind # "none" /\ ~DisplayServerAt(i).registered
  /\ dialog' = DisplayServerAt(i)
  /\ UNCHANGED <<named, discovered, reg, nick, ps4s, hidden, manual, nextId, psn, list>>

\* registerHost succeeds: the console answers with its MAC and its name.
Register ==
  /\ dialog.kind \in {"discovered", "manual"}
  /\ LET c == IF dialog.kind = "discovered" THEN dialog.id ELSE manual[dialog.id].addr
         host == [mac |-> c, name |-> named[c], of |-> c, ip |-> None]
         man == IF dialog.kind = "discovered" THEN manual
                ELSE [manual EXCEPT ![dialog.id] = [@ EXCEPT !.registered = TRUE, !.mac = c]]
     IN  Shows(AddRegisteredHost(Stored, host), [Now EXCEPT !.man = man])
  /\ dialog' = NoServer
  /\ UNCHANGED <<named, nextId>>

AddManualHost == \E c \in Consoles, m \in Registered(reg) \union {Zero} :
  /\ nextId \in Ids
  /\ Shows(Stored, [Now EXCEPT !.man[nextId] = [addr |-> c, registered |-> m # Zero, mac |-> m]])
  /\ nextId' = nextId + 1
  /\ UNCHANGED <<named, dialog>>

\* The dialog of the registration is in front of the list.
DeleteHost == \E i \in DOMAIN list : list[i].manual /\ dialog = NoServer
  /\ LET d == DisplayServerAt(i)
         ids == IF d.kind = "manual" THEN {d.id}
                ELSE IF d.kind = "discovered" THEN MatchedBy(d.id, manual) ELSE {}
     IN  ids # {} /\ Shows(Stored, [Now EXCEPT !.man[Min(ids)] = NoManual])
  /\ UNCHANGED <<named, nextId, dialog>>

HideHost == \E i \in DOMAIN list : list[i].kind = "discovered" /\ ~list[i].registered
  /\ Shows(AddHiddenHost(Stored, list[i].mac, list[i].name), Now)
  /\ UNCHANGED <<named, nextId, dialog>>

UnregisterHostByMac == \E i \in DOMAIN list : list[i].mac \in Registered(reg)
  /\ LET m == list[i].mac
         left == IF reg[m].of \in PS4s /\ ps4s > 0 THEN ps4s - 1 ELSE ps4s
     IN  Shows(RemoveRegisteredHost(Stored, m), [Now EXCEPT !.ps4s = left])
  /\ UNCHANGED <<named, nextId, dialog>>

SetConsolePin == \E i \in DOMAIN list : list[i].registered /\ DisplayServerAt(i).kind # "none"
  /\ Shows(AddRegisteredHost(Stored, DisplayServerAt(i).host), Now)
  /\ UNCHANGED <<named, nextId, dialog>>

\* updatePsnHostsThread: what is registered by now is listed, and stays.
UpdatePsnHosts ==
  LET known == {n \in ToSet(PsnOrder) : IF n = Main THEN ps4s > 0 ELSE nick[n] # None} IN
  /\ ~(known \subseteq psn)
  /\ Shows(Stored, [Now EXCEPT !.psn = @ \union known])
  /\ UNCHANGED <<named, nextId, dialog>>

\* The next start loads the settings.  Without a registered host it looks for one
\* in the files of older programs; the target of a host nobody filled in was never
\* initialised.
Loaded == IF Registered(reg) # {} THEN reg
          ELSE [m \in Macs |-> IF m \in Legacy THEN [mac |-> m, name |-> named[m], of |-> m, ip |-> None] ELSE None]
Restart == \E extra \in (IF reg[Zero] = None THEN {0} ELSE {0, 1}) :
  /\ Shows([Stored EXCEPT !.reg = Loaded, !.nick = NicknameIndex(Loaded)],
           [found |-> <<>>, man |-> manual, ps4s |-> Count4(Loaded) + extra, psn |-> {}])
  /\ nextId' = Max({i + 1 : i \in {k \in Ids : manual[k] # NoManual}} \union {0})
  /\ dialog' = NoServer
  /\ UNCHANGED <<named>>

-----------------------------------------------------------------------------
Init ==
  /\ named \in [Consoles -> Names] /\ \A c \in Consoles : named[c] \in NameOf[c]
  /\ discovered = <<>> /\ psn = {} /\ list = <<>> /\ dialog = NoServer
  /\ reg = [m \in Macs |-> None] /\ nick = [n \in Names \union {NoName} |-> None] /\ ps4s = 0
  /\ hidden = [m \in Macs |-> None]
  /\ manual = [i \in Ids |-> NoManual] /\ nextId = 0

Next == \/ Discover \/ Vanish \/ Renamed \/ ConnectToHost \/ Register \/ AddManualHost \/ DeleteHost
        \/ HideHost \/ UnregisterHostByMac \/ SetConsolePin \/ UpdatePsnHosts \/ Restart

Spec == Init /\ [][Next]_vars

-----------------------------------------------------------------------------
TypeOK ==
  /\ ToSet(discovered) \subseteq Consoles /\ psn \subseteq ToSet(PsnOrder) /\ nextId \in 0 .. MaxManual
  /\ \A m \in Registered(reg) : reg[m].mac = m
  /\ \A i \in Ids : manual[i] # NoManual => i < nextId

\* A registered console is in the list, under its MAC or its name, unless it is
\* hidden: the user can always reach it.
EveryRegisteredShown == \A m \in Registered(reg) :
  hidden[m] # None \/ \E i \in DOMAIN list : list[i].mac = m \/ list[i].name = reg[m].name

\* The last address of a registered console is its own, also after its registration
\* came from a console of the same name: waking it up reaches it.
LastIpIsOwn == \A m \in Consoles \intersect Registered(reg) : reg[m].ip \in {None, m}

\* While the list leaves nothing out, the index of a card means the card's console.
RowOf(kind, i) == \E k \in DOMAIN list : list[k].kind = kind /\ list[k].id = i
LeavesNothingOut ==
  /\ \A c \in ToSet(discovered) : RowOf("discovered", c)
  /\ \A i \in Ids : manual[i] # NoManual => RowOf("manual", i)
  /\ Main \notin psn
Means(i) == DisplayServerAt(i).kind = list[i].kind /\ DisplayServerAt(i).id = list[i].id
IndexMeansCard == LeavesNothingOut =>
  \A i \in DOMAIN list : list[i].kind # "registered" => Means(i)

Safe == EveryRegisteredShown /\ LastIpIsOwn /\ IndexMeansCard

\* "Are you sure you want to delete this console?": the index of a card always means
\* the card's console.
IndexAlwaysMeansCard == \A i \in DOMAIN list : list[i].kind # "registered" => Means(i)

\* Only a console is hidden: none of the hidden hosts is a host nobody filled in.
HiddenIsSomebody == hidden[Zero] = None

\* A console that was removed has no entry by its name either, by which discovery
\* would register it again.
NicknamesAreRegistered == \A n \in Names : nick[n] # None => nick[n].mac \in Registered(reg)
=============================================================================
