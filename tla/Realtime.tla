------------------------------- MODULE Realtime -------------------------------
(***************************************************************************)
(* The WebSocket of the communication page: one browser tab that stays on  *)
(* the page (frontend lib/realtime/communication.ts and                    *)
(* CommunicationsPage.tsx), the server's connection handler                *)
(* (communication.websocket.ts) with its two timers, and the registry it   *)
(* fills (communication.realtime.service).  Both message handlers of the   *)
(* server await, and the connection may close under them.  The page drops  *)
(* its socket for a new one whenever its filters change, and hears later   *)
(* that the old one has closed.                                            *)
(***************************************************************************)
EXTENDS Integers, Sequences

CONSTANTS
  Threads,
  MaxSwitches,  \* bound: how often another thread is selected, or none
  MaxReloads,   \* bound: how often the view, a filter or the search changes
  MaxOutages    \* bound: lost connections, failed log-ins and timers that fire

VARIABLES
  tab,            \* the browser: its socket, whether it is connected, and what it will do
  link,           \* the connection of each socket; "left" is closed by the tab
  inbox,          \* messages under way to the server
  hello,          \* sockets whose "communication:connected" is under way
  server,         \* the server's side of each socket
  userClients,    \* sockets registered for the user
  threadClients,  \* sockets registered for a thread, as <<thread, socket>>
  outlived,       \* what was still awaited when the server's side closed
  switches, reloads, outages

registry == <<userClients, threadClients, outlived>>
counts == <<switches, reloads, outages>>
liveVars == <<tab, link, inbox, hello, server, registry, counts>>

Sockets == 1 .. MaxReloads + MaxOutages + 1
NoSocket == 0
NoThread == "no thread"

ASSUME RealtimeAssumption ==
  NoThread \notin Threads /\ {MaxSwitches, MaxReloads, MaxOutages} \subseteq Nat

Message == [type : {"auth"}] \cup [type : {"join", "leave"}, thread : Threads]
Tab == [socket : Sockets \cup {NoSocket},   \* none, or one that has closed
        connected : BOOLEAN,
        muted : BOOLEAN,                    \* history: another socket's close has cleared connected
        over : SUBSET Sockets,              \* those whose close the tab has heard of
        timers : Nat,                       \* reconnect timers set
        renewals : Nat,                     \* token renewals under way
        gaveUp : BOOLEAN,                   \* history: the renewal failed, and no socket was left
        selected : Threads \cup {NoThread},
        held : Threads \cup {NoThread}]     \* what the cleanup of the effect will leave
Server == [served : BOOLEAN, auth : {"none", "verify", "load"}, authed : BOOLEAN,
           timer : BOOLEAN, expiry : BOOLEAN, joins : SUBSET Threads,
           refused : SUBSET Threads]        \* history: threads whose last join came to nothing
NewServer == [served |-> TRUE, auth |-> "none", authed |-> FALSE,
              timer |-> TRUE, expiry |-> FALSE, joins |-> {}, refused |-> {}]

\* The page has just opened its first socket.
LiveInit ==
  /\ tab = [socket |-> 1, connected |-> FALSE, muted |-> FALSE, over |-> {}, timers |-> 0,
            renewals |-> 0, gaveUp |-> FALSE, selected |-> NoThread, held |-> NoThread]
  /\ link = [s \in Sockets |-> IF s = 1 THEN "up" ELSE "unused"]
  /\ inbox = [s \in Sockets |-> IF s = 1 THEN <<[type |-> "auth"]>> ELSE << >>] /\ hello = {}
  /\ server = [s \in Sockets |->
       IF s = 1 THEN NewServer ELSE [NewServer EXCEPT !.served = FALSE, !.timer = FALSE]]
  /\ userClients = {} /\ threadClients = {}
  /\ outlived = [s \in Sockets |-> [auth |-> FALSE, joins |-> {}]]
  /\ switches = 0 /\ reloads = 0 /\ outages = 0

Join(thread) == [type |-> "join", thread |-> thread]
LeaveMsg(thread) == [type |-> "leave", thread |-> thread]
Joins(thread) == IF thread = NoThread THEN << >> ELSE <<Join(thread)>>
Leaves(thread) == IF thread = NoThread THEN << >> ELSE <<LeaveMsg(thread)>>

\* What reaches the server of what the tab sends: nothing when the connection is lost.
Post(s, msgs) == inbox' = IF link[s] = "up" THEN [inbox EXCEPT ![s] = @ \o msgs] ELSE inbox

-----------------------------------------------------------------------------
(* The browser *)

\* connect(), when the rest of the step has left the tab as t and the connections as l:
\* nothing while t has a socket that has not closed, else a new one, and the token on its
\* open event.  (The moment between the close frame of the server and the close event,
\* in which the browser calls the socket closing, is left out.)
Connects(t, l) ==
  IF t.socket # NoSocket
  THEN tab' = t /\ link' = l /\ UNCHANGED <<inbox, server>>
  ELSE \E s \in Sockets :
         /\ link[s] = "unused" /\ \A r \in Sockets : r < s => link[r] # "unused"
         /\ tab' = [t EXCEPT !.socket = s, !.gaveUp = FALSE]
         /\ link' = [l EXCEPT ![s] = "up"]
         /\ inbox' = [inbox EXCEPT ![s] = <<[type |-> "auth"]>>]
         /\ server' = [server EXCEPT ![s] = NewServer]

\* The timer set 1.5 s before.
Reconnect ==
  /\ tab.timers > 0
  /\ Connects([tab EXCEPT !.timers = @ - 1], link)
  /\ UNCHANGED <<hello, registry, counts>>

\* disconnect(): the timer set last is cleared (it is the last to fire, so while any is
\* pending it is), and the socket closed; nothing more is heard of it but its close.
Disconnected ==
  [tab EXCEPT !.socket = NoSocket, !.connected = FALSE, !.muted = FALSE,
              !.timers = IF @ > 0 THEN @ - 1 ELSE 0]

\* MUTANT of Reload: the socket is forgotten before it is closed.
ReloadKeepsOpen ==
  /\ reloads < MaxReloads /\ reloads' = reloads + 1
  /\ Connects(Disconnected, link)
  /\ hello' = {}
  /\ UNCHANGED <<registry, switches, outages>>

\* The view, a filter or the search has changed: the cleanup of the page's effect
\* disconnects, and the effect connects again.
Reload ==
  /\ reloads < MaxReloads /\ reloads' = reloads + 1
  /\ Connects(Disconnected, [s \in Sockets |-> IF s = tab.socket /\ link[s] = "up" THEN "left" ELSE link[s]])
  /\ hello' = {}
  /\ UNCHANGED <<registry, switches, outages>>

\* MUTANT of OnConnected: the tab does not join the thread it shows again.
OnConnectedOnly ==
  /\ tab.socket \in hello
  /\ hello' = hello \ {tab.socket}
  /\ tab' = [tab EXCEPT !.connected = TRUE]
  /\ UNCHANGED <<link, inbox, server, registry, counts>>

OnConnected ==
  /\ tab.socket \in hello
  /\ hello' = hello \ {tab.socket}
  /\ tab' = [tab EXCEPT !.connected = TRUE]
  /\ Post(tab.socket, Joins(tab.selected))
  /\ UNCHANGED <<link, server, registry, counts>>

\* The effect on the selected thread, or on none: the cleanup of the last one leaves what
\* that one had joined; while not connected nothing is sent, and no cleanup is left behind.
Select(thread) ==
  /\ thread # tab.selected /\ switches < MaxSwitches /\ switches' = switches + 1
  /\ tab' = [tab EXCEPT !.selected = thread,
                        !.held = IF tab.connected THEN thread ELSE NoThread]
  /\ IF tab.connected THEN Post(tab.socket, Leaves(tab.held) \o Joins(thread)) ELSE UNCHANGED inbox
  /\ UNCHANGED <<link, hello, server, registry, reloads, outages>>

\* The tab after the close of socket s, which need not be the one in use: the client has
\* one "connected" for all of them.
Closed(s) ==
  [tab EXCEPT !.socket = IF @ = s THEN NoSocket ELSE @,
              !.connected = FALSE,
              !.muted = s # tab.socket /\ (@ \/ tab.connected),
              !.over = @ \cup {s}]

\* MUTANT of OnClose: after 4401 the tab waits for somebody else to connect again.
OnCloseGivesUp(s) ==
  /\ s \notin tab.over /\ link[s] \in {"expired", "broken", "left"}
  /\ tab' = IF link[s] = "expired" THEN Closed(s) ELSE [Closed(s) EXCEPT !.timers = @ + 1]
  /\ hello' = hello \ {s}
  /\ UNCHANGED <<link, inbox, server, registry, counts>>

\* Code 4401 asks for a new token first, any other close for a new socket in 1.5 s: also
\* the close the tab asked for itself, because connect() has forgotten that it did.
OnClose(s) ==
  /\ s \notin tab.over /\ link[s] \in {"expired", "broken", "left"}
  /\ tab' = IF link[s] = "expired" THEN [Closed(s) EXCEPT !.renewals = @ + 1]
                                   ELSE [Closed(s) EXCEPT !.timers = @ + 1]
  /\ hello' = hello \ {s}
  /\ UNCHANGED <<link, inbox, server, registry, counts>>

\* onAuthExpired: an API call, whose 401 renews the token, and connect(); when it fails,
\* nothing follows.
Renewed ==
  /\ tab.renewals > 0
  /\ \/ Connects([tab EXCEPT !.renewals = @ - 1], link)
     \/ /\ tab' = [tab EXCEPT !.renewals = @ - 1, !.gaveUp = tab.socket = NoSocket]
        /\ UNCHANGED <<link, inbox, server>>
  /\ UNCHANGED <<hello, registry, counts>>

-----------------------------------------------------------------------------
(* The server *)

Outage == outages < MaxOutages /\ outages' = outages + 1 /\ UNCHANGED <<switches, reloads>>

\* client.close(4401): the code the tab will see, even of a socket it is closing itself.
CloseExpired(s) == link' = [link EXCEPT ![s] = IF @ \in {"up", "left"} THEN "expired" ELSE @]

\* This tab sends nothing but its token before it is connected; any other message
\* without a user would close the socket.
Receive(s) ==
  /\ server[s].served /\ inbox[s] # << >>
  /\ inbox' = [inbox EXCEPT ![s] = Tail(@)]
  /\ LET m == Head(inbox[s]) IN
     \/ /\ m.type = "auth"
        /\ server' = [server EXCEPT ![s].auth = "verify"]
        /\ UNCHANGED threadClients
     \/ /\ m.type = "join"
        /\ server' = [server EXCEPT ![s].joins = @ \cup {m.thread}, ![s].refused = @ \ {m.thread}]
        /\ UNCHANGED threadClients
     \/ /\ m.type = "leave"
        /\ threadClients' = threadClients \ {<<m.thread, s>>}
        /\ UNCHANGED server
  /\ UNCHANGED <<tab, link, hello, userClients, outlived, counts>>

Verified(s) ==
  /\ server[s].auth = "verify"
  /\ server' = [server EXCEPT ![s].auth = "load"]
  /\ UNCHANGED <<tab, link, inbox, hello, registry, counts>>

\* The user is loaded: the socket is registered, whether it is still open or not.
Loaded(s) ==
  /\ server[s].auth = "load"
  /\ server' = [server EXCEPT ![s].auth = "none", ![s].authed = TRUE, ![s].timer = FALSE,
                              ![s].expiry = TRUE]
  /\ userClients' = userClients \cup {s}
  /\ hello' = IF link[s] = "up" THEN hello \cup {s} ELSE hello
  /\ UNCHANGED <<tab, link, inbox, threadClients, outlived, counts>>

\* The token has expired, or the user cannot be loaded: the handler only answers an error.
AuthFails(s) ==
  /\ server[s].auth # "none" /\ Outage
  /\ server' = [server EXCEPT ![s].auth = "none"]
  /\ UNCHANGED <<tab, link, inbox, hello, registry>>

\* assertRealtimeAccess has returned; the socket joins, whether it is still open or not.
Joined(s) ==
  \E thread \in server[s].joins :
    /\ server' = [server EXCEPT ![s].joins = @ \ {thread}]
    /\ threadClients' = threadClients \cup {<<thread, s>>}
    /\ UNCHANGED <<tab, link, inbox, hello, userClients, outlived, counts>>

\* The user may not read, or not this thread, or the query fails: the tab is told nothing,
\* or an error it has no handler for.
JoinFails(s) ==
  \E thread \in server[s].joins :
    /\ server' = [server EXCEPT ![s].joins = @ \ {thread}, ![s].refused = @ \cup {thread}]
    /\ UNCHANGED <<tab, link, inbox, hello, registry, counts>>

\* Five seconds without a user.  The log-in that fails is an outage already.
AuthTimeout(s) ==
  /\ server[s].timer /\ ~server[s].authed
  /\ IF server[s].auth = "none" /\ inbox[s] = << >> THEN UNCHANGED counts ELSE Outage
  /\ server' = [server EXCEPT ![s].timer = FALSE]
  /\ CloseExpired(s)
  /\ UNCHANGED <<tab, inbox, hello, registry>>

TokenExpires(s) ==
  /\ server[s].expiry /\ Outage
  /\ server' = [server EXCEPT ![s].expiry = FALSE]
  /\ CloseExpired(s)
  /\ UNCHANGED <<tab, inbox, hello, registry>>

\* MUTANT of OnServerClose: the threads keep the socket.
OnServerCloseUser(s) ==
  /\ server[s].served
  /\ link[s] \in {"expired", "broken", "left"}
  /\ server' = [server EXCEPT ![s].served = FALSE, ![s].timer = FALSE, ![s].expiry = FALSE]
  /\ userClients' = userClients \ {s}
  /\ outlived' = [outlived EXCEPT ![s] =
       [auth |-> server[s].auth # "none", joins |-> server[s].joins]]
  /\ UNCHANGED <<tab, link, inbox, hello, threadClients, counts>>

\* The close event: the timers are cleared and removeClient forgets the socket.
OnServerClose(s) ==
  /\ server[s].served
  /\ link[s] \in {"expired", "broken", "left"}
  /\ server' = [server EXCEPT ![s].served = FALSE, ![s].timer = FALSE, ![s].expiry = FALSE]
  /\ userClients' = userClients \ {s}
  /\ threadClients' = {e \in threadClients : e[2] # s}
  /\ outlived' = [outlived EXCEPT ![s] =
       [auth |-> server[s].auth # "none", joins |-> server[s].joins]]
  /\ UNCHANGED <<tab, link, inbox, hello, counts>>

\* The connection is lost.
Drop(s) ==
  /\ link[s] = "up" /\ Outage
  /\ link' = [link EXCEPT ![s] = "broken"]
  /\ UNCHANGED <<tab, inbox, hello, server, registry>>

Works(s) ==
  \/ Receive(s) \/ Verified(s) \/ Loaded(s) \/ Joined(s) \/ JoinFails(s) \/ OnServerClose(s)
  \/ (AuthTimeout(s) /\ UNCHANGED outages)

LiveNext ==
  \/ Reconnect \/ Reload \/ OnConnected \/ Renewed
  \/ \E thread \in Threads \cup {NoThread} : Select(thread)
  \/ \E s \in Sockets :
       \/ OnClose(s) \/ Works(s) \/ AuthTimeout(s) \/ AuthFails(s) \/ TokenExpires(s) \/ Drop(s)

LiveSpec == LiveInit /\ [][LiveNext]_liveVars

\* The browser's events and timers fire, its API call returns, and the server gets
\* round to every message and every awaited result.
LiveFairSpec ==
  /\ LiveSpec
  /\ WF_liveVars(Reconnect) /\ WF_liveVars(OnConnected) /\ WF_liveVars(Renewed)
  /\ \A s \in Sockets : WF_liveVars(OnClose(s)) /\ WF_liveVars(Works(s))

-----------------------------------------------------------------------------
(* Properties *)

\* Well-formed state; and the tab hears "connected" of no socket but the one it uses.
LiveTypeOK ==
  /\ tab \in Tab
  /\ link \in [Sockets -> {"unused", "up", "expired", "broken", "left"}]
  /\ inbox \in [Sockets -> Seq(Message)] /\ hello \subseteq {tab.socket}
  /\ server \in [Sockets -> Server]
  /\ userClients \subseteq Sockets /\ threadClients \subseteq Threads \X Sockets
  /\ outlived \in [Sockets -> [auth : BOOLEAN, joins : SUBSET Threads]]
  /\ switches \in 0 .. MaxSwitches /\ reloads \in 0 .. MaxReloads /\ outages \in 0 .. MaxOutages

\* The thread shown is joined, or the server has refused the last join of it.
ShownIsJoined(s) ==
  tab.selected # NoThread =>
    <<tab.selected, s>> \in threadClients \/ tab.selected \in server[s].refused

\* A tab that believes it is connected, and whose messages have been dealt with, gets the
\* events of its user, and those of the thread it shows unless the server refused it the
\* last join: however the user switches threads and filters, however joins and leaves
\* overtake each other on the server and however often the connection was replaced before.
ConnectedIsRegistered ==
  LET s == tab.socket IN
  s # NoSocket /\ tab.connected /\ link[s] = "up" /\ inbox[s] = << >> /\ server[s].joins = {} =>
    s \in userClients /\ ShownIsJoined(s)

\* The registry forgets closed sockets: one is left behind only by a handler that
\* was still awaiting when its socket closed, and only what that handler added.
LeftoversAreLate ==
  \A s \in Sockets : link[s] # "unused" /\ ~server[s].served =>
    /\ s \in userClients => outlived[s].auth
    /\ \A thread \in Threads : <<thread, s>> \in threadClients => thread \in outlived[s].joins

\* A tab gets its events in the end, whatever connections were lost, timed out or replaced
\* before, unless the renewal of an expired token failed and no socket was left: those of
\* its user always, those of the thread it shows unless the server refused the join, or
\* the close of an old socket came after the new one had connected and silenced it.
EventuallyRegistered ==
  \/ <>[]tab.gaveUp
  \/ <>[](/\ tab.socket \in userClients
          /\ tab.muted \/ (tab.connected /\ ShownIsJoined(tab.socket)))
=============================================================================
