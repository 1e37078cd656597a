---------------------------- MODULE EventSource ----------------------------
(***************************************************************************)
(* Server sent events (modules/eventsource, routers/web/events): a manager *)
(* keeps one messenger per user, a messenger one channel of capacity one   *)
(* per connection of that user.                                            *)
(*                                                                         *)
(* The handler of a connection registers, reads its channel and leaves;    *)
(* a goroutine unregisters it then.  Run sends without blocking, a sign    *)
(* out sends and blocks until each channel has room.  A critical section   *)
(* that cannot block is one action; Unregister and UnregisterAll hold the  *)
(* mutex of the manager while they wait for the mutex of a messenger, and  *)
(* SendMessageBlocking holds that one while it waits for room.             *)
(***************************************************************************)
EXTENDS Naturals, SequencesExt

CONSTANTS
  Conn,      \* connections; a messenger is named by the connection it was made for
  User,      \* the users
  UserOf,    \* the user of a connection and of a sign out
  SignOut    \* requests that sign a user out

None == "none"
ASSUME NoneAssumption == None \notin Conn
ASSUME UserAssumption == UserOf \in [Conn \cup SignOut -> User]

Run == "run"
Process == Conn \cup SignOut \cup {Run}
ASSUME ProcessAssumption == Conn \cap SignOut = {} /\ Run \notin Conn \cup SignOut

VARIABLES
  messengers,  \* the manager's map: the messenger of a user
  token,       \* the channel connection of the manager, of capacity 1
  channels,    \* the connections registered with a messenger
  full,        \* connections with an event in their channel
  closed,      \* connections whose channel is closed
  pc,          \* the handler of a connection or of a sign out, Run as well
  at,          \* the messenger it fetched from the map
  left,        \* the channels a sign out has yet to send to
  todo,        \* what is left to Run of a loop: users to send to, messengers to close
  shutdown,    \* the context of graceful's shutdown is done
  orphaned     \* registered with a messenger that had left the map

vars == <<messengers, token, channels, full, closed, pc, at, left, todo, shutdown, orphaned>>
chans == <<channels, full, closed>>

Present == {messengers[u] : u \in User} \ {None}

\* The mutex of the manager is taken for more than one step.
Locked == pc[Run] = "closing" \/ \E c \in Conn : pc[c] = "unregistering"
\* The mutex of messenger m is taken.
Busy(m) == \E s \in SignOut : pc[s] = "sending" /\ at[s] = m

ConnState == {"new", "fetched", "listening", "leaving", "unregistering", "draining", "gone"}
SignOutState == {"new", "fetched", "sending", "done"}
RunState == {"waiting", "paused", "loading", "sending", "fetched", "ending", "closing", "ended"}

TypeOK ==
  /\ messengers \in [User -> Conn \cup {None}]
  /\ token \in BOOLEAN /\ shutdown \in BOOLEAN
  /\ channels \in [Conn -> Seq(Conn)] /\ left \in [SignOut -> Seq(Conn)]
  /\ full \subseteq Conn /\ closed \subseteq Conn /\ orphaned \subseteq Conn
  /\ pc \in [Process -> ConnState \cup SignOutState \cup RunState]
  /\ \A c \in Conn : pc[c] \in ConnState
  /\ \A s \in SignOut : pc[s] \in SignOutState
  /\ pc[Run] \in RunState
  /\ at \in [Process -> Conn \cup {None}]
  /\ \A p \in Process : pc[p] = "fetched" => at[p] \in Conn
  /\ todo \subseteq User \cup Conn
  /\ pc[Run] \in {"sending", "fetched"} => todo \subseteq User
  /\ pc[Run] = "closing" => todo \subseteq Conn

Init ==
  /\ messengers = [u \in User |-> None]
  /\ token = FALSE
  /\ channels = [m \in Conn |-> <<>>]
  /\ full = {} /\ closed = {}
  /\ pc = [p \in Process |-> IF p = Run THEN "waiting" ELSE "new"]
  /\ at = [p \in Process |-> None]
  /\ left = [s \in SignOut |-> <<>>]
  /\ todo = {}
  /\ shutdown = FALSE
  /\ orphaned = {}

Goto(p, l) == pc' = [pc EXCEPT ![p] = l]
Fetch(p, m) == at' = [at EXCEPT ![p] = m]
-----------------------------------------------------------------------------
(* A connection: Events.                                                   *)

\* Mutant: only a user who has a messenger already wakes Run.
RegisterSilently(c) ==
  LET u == UserOf[c]
      m == IF messengers[u] = None THEN c ELSE messengers[u]
  IN
  /\ pc[c] = "new" /\ ~Locked
  /\ messengers' = [messengers EXCEPT ![u] = m]
  /\ token' = (token \/ messengers[u] # None)
  /\ Fetch(c, m)
  /\ Goto(c, "fetched")
  /\ UNCHANGED <<chans, left, todo, shutdown, orphaned>>

\* Manager.Register up to the unlock.
Register(c) ==
  LET u == UserOf[c]
      m == IF messengers[u] = None THEN c ELSE messengers[u]
  IN
  /\ pc[c] = "new" /\ ~Locked
  /\ messengers' = [messengers EXCEPT ![u] = m]
  /\ token' = TRUE
  /\ Fetch(c, m)
  /\ Goto(c, "fetched")
  /\ UNCHANGED <<chans, left, todo, shutdown, orphaned>>

\* Messenger.Register: by then the messenger may have left the map, or UnregisterAll
\* may be done with it.
RegisterChannel(c) ==
  /\ pc[c] = "fetched" /\ ~Busy(at[c])
  /\ channels' = [channels EXCEPT ![at[c]] = Append(@, c)]
  /\ orphaned' = IF at[c] \in Present /\ (pc[Run] = "closing" => at[c] \in todo)
                  THEN orphaned ELSE orphaned \cup {c}
  /\ Goto(c, "listening")
  /\ UNCHANGED <<messengers, token, full, closed, at, left, todo, shutdown>>

\* Mutant: the handler leaves and does not unregister.
ReceiveLast(c) ==
  /\ pc[c] = "listening" /\ c \in full
  /\ full' = full \ {c}
  /\ UNCHANGED pc \/ Goto(c, "gone")
  /\ UNCHANGED <<messengers, token, channels, closed, at, left, todo, shutdown, orphaned>>

\* An event of the channel; it may be the answer to a sign out of this session or
\* fail to be written, the handler leaves then.
Receive(c) ==
  /\ pc[c] = "listening" /\ c \in full
  /\ full' = full \ {c}
  /\ UNCHANGED pc \/ Goto(c, "leaving")
  /\ UNCHANGED <<messengers, token, channels, closed, at, left, todo, shutdown, orphaned>>

ReceiveClosed(c) ==
  /\ pc[c] = "listening" /\ c \notin full /\ c \in closed
  /\ Goto(c, "gone")
  /\ UNCHANGED <<messengers, token, chans, at, left, todo, shutdown, orphaned>>

\* The client disconnects, a ping cannot be written, or the server shuts down.
Leave(c) ==
  /\ pc[c] = "listening"
  /\ Goto(c, "leaving")
  /\ UNCHANGED <<messengers, token, chans, at, left, todo, shutdown, orphaned>>

\* Manager.Unregister: the user has no messenger, or the mutex is kept.
UnregisterLock(c) ==
  /\ pc[c] = "leaving" /\ ~Locked
  /\ Goto(c, IF messengers[UserOf[c]] = None THEN "draining" ELSE "unregistering")
  /\ UNCHANGED <<messengers, token, chans, at, left, todo, shutdown, orphaned>>

Positions(m, c) == {i \in DOMAIN channels[m] : channels[m][i] = c}

\* Messenger.Unregister: a channel that is not there is not closed either.
RemoveChannel(m, c) ==
  \/ \E i \in Positions(m, c) : /\ channels' = [channels EXCEPT ![m] = RemoveAt(@, i)]
                                /\ closed' = closed \cup {c}
  \/ Positions(m, c) = {} /\ UNCHANGED <<channels, closed>>

\* Mutant: the channel is not closed.
UnregisterOpen(c) ==
  LET u == UserOf[c]
      m == messengers[u]
  IN
  /\ pc[c] = "unregistering" /\ ~Busy(m)
  /\ \/ \E i \in Positions(m, c) : channels' = [channels EXCEPT ![m] = RemoveAt(@, i)]
     \/ Positions(m, c) = {} /\ UNCHANGED channels
  /\ messengers' = IF channels'[m] = <<>> THEN [messengers EXCEPT ![u] = None] ELSE messengers
  /\ Goto(c, "draining")
  /\ UNCHANGED <<token, full, closed, at, left, todo, shutdown, orphaned>>

\* Mutant: the messenger is deleted with its first channel.
UnregisterMessenger(c) ==
  LET u == UserOf[c]
      m == messengers[u]
  IN
  /\ pc[c] = "unregistering" /\ ~Busy(m)
  /\ RemoveChannel(m, c)
  /\ messengers' = [messengers EXCEPT ![u] = None]
  /\ Goto(c, "draining")
  /\ UNCHANGED <<token, full, at, left, todo, shutdown, orphaned>>

\* Manager.Unregister goes on: a messenger without channels leaves the map.
UnregisterChannel(c) ==
  LET u == UserOf[c]
      m == messengers[u]
  IN
  /\ pc[c] = "unregistering" /\ ~Busy(m)
  /\ RemoveChannel(m, c)
  /\ messengers' = IF channels'[m] = <<>> THEN [messengers EXCEPT ![u] = None] ELSE messengers
  /\ Goto(c, "draining")
  /\ UNCHANGED <<token, full, at, left, todo, shutdown, orphaned>>

\* "ensure the messageChan is closed"
Drain(c) ==
  /\ pc[c] = "draining"
  /\ IF c \in full THEN full' = full \ {c} /\ UNCHANGED pc
     ELSE c \in closed /\ Goto(c, "gone") /\ UNCHANGED full
  /\ UNCHANGED <<messengers, token, channels, closed, at, left, todo, shutdown, orphaned>>
-----------------------------------------------------------------------------
(* A sign out: Manager.SendMessageBlocking.                                *)

\* Mutant: the lookup in the map is not checked.
SignOutFetchNil(s) ==
  /\ pc[s] = "new" /\ ~Locked
  /\ Fetch(s, messengers[UserOf[s]])
  /\ Goto(s, "fetched")
  /\ UNCHANGED <<messengers, token, chans, left, todo, shutdown, orphaned>>

SignOutFetch(s) ==
  LET m == messengers[UserOf[s]] IN
  /\ pc[s] = "new" /\ ~Locked
  /\ Fetch(s, m)
  /\ Goto(s, IF m = None THEN "done" ELSE "fetched")
  /\ UNCHANGED <<messengers, token, chans, left, todo, shutdown, orphaned>>

SignOutLock(s) ==
  /\ pc[s] = "fetched" /\ ~Busy(at[s])
  /\ left' = [left EXCEPT ![s] = channels[at[s]]]
  /\ Goto(s, "sending")
  /\ UNCHANGED <<messengers, token, chans, at, todo, shutdown, orphaned>>

\* Blocks while the channel is full.
SignOutSend(s) ==
  /\ pc[s] = "sending"
  /\ IF left[s] = <<>>
     THEN Goto(s, "done") /\ UNCHANGED <<full, left>>
     ELSE /\ Head(left[s]) \notin full
          /\ full' = full \cup {Head(left[s])}
          /\ left' = [left EXCEPT ![s] = Tail(@)]
          /\ UNCHANGED pc
  /\ UNCHANGED <<messengers, token, channels, closed, at, todo, shutdown, orphaned>>
-----------------------------------------------------------------------------
(* Manager.Run.                                                            *)

\* The ticker: without listeners the channel connection is emptied and Run pauses.
Tick ==
  /\ pc[Run] = "waiting" /\ ~Locked
  /\ IF Present = {} THEN token' = FALSE /\ Goto(Run, "paused")
     ELSE Goto(Run, "loading") /\ UNCHANGED token
  /\ UNCHANGED <<messengers, chans, at, left, todo, shutdown, orphaned>>

Resume ==
  /\ pc[Run] = "paused" /\ token
  /\ token' = FALSE
  /\ Goto(Run, "waiting")
  /\ UNCHANGED <<messengers, chans, at, left, todo, shutdown, orphaned>>

\* The users who have news, of the database, and those with a stopwatch.
LoadCounts ==
  /\ pc[Run] = "loading"
  /\ todo' \in SUBSET User
  /\ Goto(Run, "sending")
  /\ UNCHANGED <<messengers, token, chans, at, left, shutdown, orphaned>>

\* "Unable to get GetUIDsAndStopwatch": Run returns at once.
LoadFails ==
  /\ pc[Run] = "loading"
  /\ Goto(Run, "ended")
  /\ UNCHANGED <<messengers, token, chans, at, left, todo, shutdown, orphaned>>

\* Manager.SendMessage up to the unlock.
SendFetch ==
  /\ pc[Run] = "sending" /\ ~Locked
  /\ IF todo = {} THEN Goto(Run, "waiting") /\ UNCHANGED <<at, todo>>
     ELSE \E u \in todo :
            /\ todo' = todo \ {u}
            /\ Fetch(Run, messengers[u])
            /\ IF messengers[u] = None THEN UNCHANGED pc ELSE Goto(Run, "fetched")
  /\ UNCHANGED <<messengers, token, chans, left, shutdown, orphaned>>

\* Messenger.SendMessage: a full channel is passed over.
Send ==
  /\ pc[Run] = "fetched" /\ ~Busy(at[Run])
  /\ full' = full \cup {channels[at[Run]][i] : i \in DOMAIN channels[at[Run]]}
  /\ Goto(Run, "sending")
  /\ UNCHANGED <<messengers, token, channels, closed, at, left, todo, shutdown, orphaned>>

Shutdown ==
  /\ ~shutdown /\ shutdown' = TRUE
  /\ UNCHANGED <<messengers, token, chans, pc, at, left, todo, orphaned>>

RunEnds ==
  /\ pc[Run] \in {"waiting", "paused"} /\ shutdown
  /\ Goto(Run, "ending")
  /\ UNCHANGED <<messengers, token, chans, at, left, todo, shutdown, orphaned>>

\* Manager.UnregisterAll: the mutex is kept while the messengers are closed.
UnregisterAllLock ==
  /\ pc[Run] = "ending" /\ ~Locked
  /\ todo' = Present
  /\ Goto(Run, "closing")
  /\ UNCHANGED <<messengers, token, chans, at, left, shutdown, orphaned>>

\* Mutant: the closed channels stay registered.
UnregisterAllKeeps ==
  /\ pc[Run] = "closing"
  /\ \E m \in todo :
       /\ ~Busy(m)
       /\ closed' = closed \cup {channels[m][i] : i \in DOMAIN channels[m]}
       /\ todo' = todo \ {m}
  /\ UNCHANGED <<messengers, token, channels, full, pc, at, left, shutdown, orphaned>>

UnregisterAllClose ==
  /\ pc[Run] = "closing"
  /\ \E m \in todo :
       /\ ~Busy(m)
       /\ closed' = closed \cup {channels[m][i] : i \in DOMAIN channels[m]}
       /\ channels' = [channels EXCEPT ![m] = <<>>]
       /\ todo' = todo \ {m}
  /\ UNCHANGED <<messengers, token, full, pc, at, left, shutdown, orphaned>>

UnregisterAllEnd ==
  /\ pc[Run] = "closing" /\ todo = {}
  /\ messengers' = [u \in User |-> None]
  /\ Goto(Run, "ended")
  /\ UNCHANGED <<token, chans, at, left, todo, shutdown, orphaned>>
-----------------------------------------------------------------------------
ConnStep(c) ==
  \/ Register(c) \/ RegisterChannel(c) \/ Receive(c) \/ ReceiveClosed(c) \/ Leave(c)
  \/ UnregisterLock(c) \/ UnregisterChannel(c) \/ Drain(c)

SignOutStep(s) == SignOutFetch(s) \/ SignOutLock(s) \/ SignOutSend(s)

RunStep ==
  \/ Tick \/ Resume \/ LoadCounts \/ LoadFails \/ SendFetch \/ Send
  \/ RunEnds \/ UnregisterAllLock \/ UnregisterAllClose \/ UnregisterAllEnd

Next == (\E c \in Conn : ConnStep(c)) \/ (\E s \in SignOut : SignOutStep(s)) \/ RunStep \/ Shutdown

Spec == Init /\ [][Next]_vars

\* Goroutines run, and writes to clients return; nobody has to connect, to leave,
\* to sign out or to shut down.
Fairness ==
  /\ \A c \in Conn : /\ WF_vars(RegisterChannel(c))
                     /\ WF_vars(Receive(c) \/ ReceiveClosed(c))
                     /\ SF_vars(UnregisterLock(c))
                     /\ WF_vars(UnregisterChannel(c))
                     /\ WF_vars(Drain(c))
  /\ \A s \in SignOut : SF_vars(SignOutLock(s)) /\ WF_vars(SignOutSend(s))
  /\ WF_vars(RunStep)

FairSpec == Spec /\ Fairness
-----------------------------------------------------------------------------
\* Nobody sends to a closed channel, which would panic, nor closes one twice: a
\* registered channel is open and registered once, and a sign out that is sending
\* sends to registered channels only.
RegisteredIsOpen ==
  /\ \A m \in Conn : \A i, k \in DOMAIN channels[m] :
       channels[m][i] \notin closed /\ (channels[m][i] = channels[m][k] => i = k)
  /\ \A s \in SignOut : pc[s] = "sending" =>
       \A i \in DOMAIN left[s] : left[s][i] \notin closed

\* A paused Run is woken: when a user has a messenger, the token is there.  Emptying
\* the channel after the mutex was released would lose it (manager_run.go:47-58).
NoLostWakeup ==
  pc[Run] = "paused" /\ Present # {} => token

\* A handler that waits for events, or has yet to unregister, is found under its user, by
\* SendMessage and by Unregister, unless its messenger left the map before it registered
\* with it (manager.go:45-46) or its channel is closed.
ListeningIsReachable ==
  \A c \in Conn :
    pc[c] \in {"listening", "leaving", "unregistering"} /\ c \notin closed /\ c \notin orphaned =>
      /\ at[c] = messengers[UserOf[c]]
      /\ \E i \in DOMAIN channels[at[c]] : channels[at[c]][i] = c

\* A sign out waits for room in the channel of a connection that no longer reads: it
\* keeps the mutex of the messenger, which the unregistration of that connection needs.
Stuck ==
  \E s \in SignOut : /\ pc[s] = "sending" /\ left[s] # <<>>
                     /\ Head(left[s]) \in full
                     /\ pc[Head(left[s])] \in {"leaving", "unregistering"}

\* A connection that ends is unregistered and its goroutine ends, unless a sign out is
\* stuck or nobody will ever close its channel because it was orphaned.
LeaversGo ==
  \A c \in Conn : pc[c] = "leaving" ~> pc[c] = "gone" \/ Stuck \/ c \in orphaned

\* A sign out ends unless it is stuck.
SignOutEndsUnlessStuck ==
  \A s \in SignOut : pc[s] = "fetched" ~> pc[s] = "done" \/ Stuck

\* SendMessageBlocking "ensures it gets sent" (messenger.go:70): so the sign out ends.
SignOutEnds ==
  \A s \in SignOut : pc[s] = "fetched" ~> pc[s] = "done"
=============================================================================
