------------------------- MODULE EventSourceProofs -------------------------
(***************************************************************************)
(* Theorems of EventSource for any connections, users and sign outs.       *)
(***************************************************************************)
EXTENDS EventSource, Integers, SequenceTheorems, TLAPS

Elements(s) == {s[i] : i \in 1..Len(s)}
Injective(s) == \A i, j \in 1..Len(s) : s[i] = s[j] => i = j

\* Messenger.Register adds one channel.
LEMMA AppendElements ==
    ASSUME NEW S, NEW s \in Seq(S), NEW x \in S
    PROVE  /\ Append(s, x) \in Seq(S)
           /\ Append(s, x) # <<>>
           /\ Elements(Append(s, x)) = Elements(s) \cup {x}
           /\ (Injective(s) /\ x \notin Elements(s)) => Injective(Append(s, x))
BY DEF Elements, Injective

\* The loop of SendMessageBlocking goes on with fewer channels.
LEMMA TailElements ==
    ASSUME NEW S, NEW s \in Seq(S), s # <<>>
    PROVE  /\ Head(s) \in Elements(s) /\ Tail(s) \in Seq(S)
           /\ Elements(Tail(s)) \subseteq Elements(s)
BY DEF Elements

\* Messenger.Unregister removes the channel it found and no other one.
LEMMA RemoveElements ==
    ASSUME NEW S, NEW s \in Seq(S), Injective(s), NEW i \in 1..Len(s)
    PROVE  /\ RemoveAt(s, i) \in Seq(S)
           /\ Injective(RemoveAt(s, i))
           /\ Elements(RemoveAt(s, i)) = Elements(s) \ {s[i]}
<1> DEFINE t == RemoveAt(s, i)
<1> DEFINE l == SubSeq(s, 1, i - 1)  r == SubSeq(s, i + 1, Len(s))
<1>0. Len(s) \in Nat /\ i \in Nat /\ 1 <= i /\ i <= Len(s)
  BY LenProperties
<1>1. /\ l \in Seq(S) /\ Len(l) = i - 1 /\ \A k \in 1..(i - 1) : l[k] = s[k]
      /\ r \in Seq(S) /\ Len(r) = Len(s) - i /\ \A k \in 1..(Len(s) - i) : r[k] = s[i + k]
  BY <1>0
<1> HIDE DEF l, r
<1>2. /\ t \in Seq(S) /\ Len(t) = Len(s) - 1
      /\ \A k \in 1..Len(t) : t[k] = IF k < i THEN s[k] ELSE s[k + 1]
  <2>1. t = l \o r
    BY DEF RemoveAt, l, r
  <2> HIDE DEF t
  <2>2. t \in Seq(S) /\ Len(t) = Len(l) + Len(r)
    BY <1>1, <2>1, ConcatProperties
  <2>3. \A k \in 1..Len(t) : t[k] = IF k <= Len(l) THEN l[k] ELSE r[k - Len(l)]
    BY <1>1, <2>1, ConcatProperties
  <2>4. ASSUME NEW k \in 1..Len(t), k >= i PROVE t[k] = s[k + 1]
    <3>1. k - Len(l) \in 1..(Len(s) - i) /\ i + (k - Len(l)) = k + 1 /\ ~(k <= Len(l))
      BY <1>0, <1>1, <2>2, <2>4
    <3>2. r[k - Len(l)] = s[i + (k - Len(l))]
      BY <1>1, <3>1
    <3> QED BY <2>3, <3>1, <3>2
  <2>5. ASSUME NEW k \in 1..Len(t), k < i PROVE t[k] = s[k]
    BY <1>0, <1>1, <2>3, <2>5
  <2> QED BY <1>0, <1>1, <2>2, <2>4, <2>5
<1>3. \A k \in 1..Len(s) : k # i => \E j \in 1..Len(t) : t[j] = s[k]
  <2> SUFFICES ASSUME NEW k \in 1..Len(s), k # i PROVE \E j \in 1..Len(t) : t[j] = s[k]
    OBVIOUS
  <2>1. CASE k < i
    BY <1>0, <1>2, <2>1
  <2>2. CASE k > i
    <3>1. k - 1 \in 1..Len(t) /\ ~(k - 1 < i) /\ k - 1 + 1 = k
      BY <1>0, <1>2, <2>2
    <3> QED BY <1>2, <3>1
  <2> QED BY <2>1, <2>2
<1> HIDE DEF t
<1>4. Injective(t) /\ s[i] \notin Elements(t) /\ Elements(t) \subseteq Elements(s)
  BY <1>0, <1>2 DEF Injective, Elements
<1>5. Elements(s) \ {s[i]} \subseteq Elements(t)
  BY <1>3 DEF Elements
<1> QED BY <1>2, <1>4, <1>5 DEF t
-----------------------------------------------------------------------------
(* The inductive invariant.                                                *)

InUse(c) == pc[c] \in {"listening", "leaving", "unregistering"}

\* The goroutine of a handler that has unregistered ends: its channel is closed, unless it
\* was registered with a messenger that had left the map.
DrainingIsClosed == \A c \in Conn : pc[c] = "draining" => c \in closed \cup orphaned

\* The mutex of the manager has one holder, and a connection that holds it across a step
\* found a messenger of its user, which nobody else can delete.
LockHeld ==
  /\ \A c \in Conn : pc[c] = "unregistering" =>
       pc[Run] # "closing" /\ messengers[UserOf[c]] \in Conn
  /\ \A c, d \in Conn : pc[c] = "unregistering" /\ pc[d] = "unregistering" => c = d

\* The messengers in the map and in the hands of connections are of the right user.
Named ==
  /\ \A u \in User : messengers[u] # None => UserOf[messengers[u]] = u
  /\ \A c \in Conn : pc[c] # "new" => at[c] \in Conn /\ UserOf[at[c]] = UserOf[c]

\* A channel is registered once, with the messenger its connection fetched, and open.
Registered ==
  /\ \A m \in Conn : Injective(channels[m])
  /\ \A m, c \in Conn : c \in Elements(channels[m]) =>
       at[c] = m /\ pc[c] \notin {"new", "fetched"} /\ c \notin closed
  /\ \A c \in Conn : c \in closed => pc[c] \notin {"new", "fetched"}

\* What a sign out has yet to send to stays registered, since it keeps the mutex.
Sending ==
  \A s \in SignOut : pc[s] = "sending" =>
    at[s] \in Conn /\ Elements(left[s]) \subseteq Elements(channels[at[s]])

\* ListeningIsReachable, and UnregisterAll will come to that messenger.
Reachable ==
  \A c \in Conn : InUse(c) /\ c \notin closed /\ c \notin orphaned =>
    /\ at[c] = messengers[UserOf[c]]
    /\ c \in Elements(channels[at[c]])
    /\ pc[Run] = "closing" => at[c] \in todo

\* NoLostWakeup, with the token as a value.
Woken == pc[Run] = "paused" => token = TRUE \/ Present = {}

IInv == TypeOK /\ LockHeld /\ Named /\ Registered /\ Sending /\ Reachable /\ DrainingIsClosed
        /\ Woken

LEMMA TypeInit == Init => TypeOK
  <1>1. SUFFICES ASSUME Init PROVE TypeOK
    OBVIOUS
  <1> USE ProcessAssumption, NoneAssumption DEF Process
  <1>2. /\ \A c \in Conn : pc[c] = "new"
        /\ \A s \in SignOut : pc[s] = "new"
        /\ pc[Run] = "waiting" /\ pc \in [Process -> {"new", "waiting"}]
    BY <1>1 DEF Init
  <1>3. /\ messengers \in [User -> Conn \cup {None}] /\ at \in [Process -> Conn \cup {None}]
        /\ channels \in [Conn -> Seq(Conn)] /\ left \in [SignOut -> Seq(Conn)]
        /\ full = {} /\ closed = {} /\ orphaned = {} /\ todo = {}
    BY <1>1 DEF Init
  <1>4. token \in BOOLEAN /\ shutdown \in BOOLEAN
    BY <1>1 DEF Init
  <1> QED
    BY <1>2, <1>3, <1>4 DEF TypeOK, ConnState, SignOutState, RunState

LEMMA RemoveType ==
  ASSUME TypeOK, Registered, NEW m \in Conn, NEW c \in Conn, RemoveChannel(m, c)
  PROVE  /\ channels' \in [Conn -> Seq(Conn)] /\ closed' \in {closed, closed \cup {c}}
         /\ Elements(channels'[m]) = Elements(channels[m]) \ {c} /\ Injective(channels'[m])
         /\ \A n \in Conn \ {m} : channels'[n] = channels[n]
         /\ c \in closed' \ closed => c \in Elements(channels[m])
         /\ c \in Elements(channels[m]) => c \in closed'
  <1>1. channels \in [Conn -> Seq(Conn)] /\ channels[m] \in Seq(Conn) /\ Injective(channels[m])
    BY DEF TypeOK, Registered
  <1>2. Positions(m, c) = {i \in 1..Len(channels[m]) : channels[m][i] = c}
    BY <1>1 DEF Positions
  <1>3. ASSUME NEW i \in Positions(m, c), channels' = [channels EXCEPT ![m] = RemoveAt(@, i)],
               closed' = closed \cup {c}
        PROVE  /\ channels' \in [Conn -> Seq(Conn)]
               /\ Elements(channels'[m]) = Elements(channels[m]) \ {c} /\ Injective(channels'[m])
               /\ c \in Elements(channels[m])
    <2>1. i \in 1..Len(channels[m]) /\ channels[m][i] = c
      BY <1>2
    <2>2. channels'[m] = RemoveAt(channels[m], i)
      BY <1>1, <1>3
    <2>3. /\ RemoveAt(channels[m], i) \in Seq(Conn)
          /\ Injective(RemoveAt(channels[m], i))
          /\ Elements(RemoveAt(channels[m], i)) = Elements(channels[m]) \ {c}
      BY <1>1, <2>1, RemoveElements
    <2> QED
      BY <1>1, <1>3, <2>1, <2>2, <2>3 DEF Elements
  <1>4. CASE Positions(m, c) = {} /\ UNCHANGED <<channels, closed>>
    <2>1. c \notin Elements(channels[m])
      BY <1>2, <1>4 DEF Elements
    <2> QED
      BY <1>1, <1>4, <2>1
  <1> QED
    BY <1>1, <1>3, <1>4 DEF RemoveChannel

LEMMA TypeStep == IInv /\ [Next]_vars => TypeOK'
  <1>1. SUFFICES ASSUME IInv, [Next]_vars PROVE TypeOK'
    OBVIOUS
  <1>2. /\ pc \in [Process -> ConnState \cup SignOutState \cup RunState]
        /\ Conn \subseteq Process /\ SignOut \subseteq Process /\ Run \in Process
        /\ at \in [Process -> Conn \cup {None}] /\ messengers \in [User -> Conn \cup {None}]
        /\ channels \in [Conn -> Seq(Conn)] /\ left \in [SignOut -> Seq(Conn)]
    BY <1>1 DEF IInv, TypeOK, Process
  <1> USE ProcessAssumption DEF Goto, Fetch, chans
  <1>3. ASSUME NEW c \in Conn, Register(c) PROVE TypeOK'
    <2>1. messengers' \in [User -> Conn \cup {None}] /\ at' \in [Process -> Conn \cup {None}] /\ at'[c] \in Conn
      BY <1>2, <1>3, UserAssumption DEF Register
    <2> QED
      BY <1>1, <1>2, <1>3, <2>1 DEF IInv, TypeOK, Process, ConnState, SignOutState, RunState, Register
  <1>4. ASSUME NEW c \in Conn, RegisterChannel(c) PROVE TypeOK'
    <2>1. at[c] \in Conn
      BY <1>1, <1>2, <1>4 DEF IInv, TypeOK, RegisterChannel
    <2>2. channels' \in [Conn -> Seq(Conn)]
      BY <1>2, <1>4, <2>1, AppendElements DEF RegisterChannel
    <2> QED
      BY <1>1, <1>2, <1>4, <2>2 DEF IInv, TypeOK, Process, ConnState, SignOutState, RunState, RegisterChannel
  <1>5. ASSUME NEW c \in Conn, Receive(c) PROVE TypeOK'
    <2>1. full' \subseteq full /\ pc[c] \in ConnState
          /\ UNCHANGED <<messengers, token, channels, closed, at, left, todo, shutdown, orphaned>>
      BY <1>1, <1>5 DEF Receive, IInv, TypeOK
    <2>2. CASE pc' = pc
      BY <1>1, <2>1, <2>2 DEF IInv, TypeOK
    <2>3. CASE pc' = [pc EXCEPT ![c] = "leaving"]
      BY <1>1, <1>2, <2>1, <2>3 DEF IInv, TypeOK, Process, ConnState, SignOutState, RunState
    <2> QED
      BY <1>5, <2>2, <2>3 DEF Receive
  <1>6. ASSUME NEW c \in Conn, ReceiveClosed(c) PROVE TypeOK'
    BY <1>1, <1>2, <1>6 DEF IInv, TypeOK, Process, ConnState, SignOutState, RunState, ReceiveClosed
  <1>7. ASSUME NEW c \in Conn, Leave(c) PROVE TypeOK'
    BY <1>1, <1>2, <1>7 DEF IInv, TypeOK, Process, ConnState, SignOutState, RunState, Leave
  <1>8. ASSUME NEW c \in Conn, UnregisterLock(c) PROVE TypeOK'
    BY <1>1, <1>2, <1>8 DEF IInv, TypeOK, Process, ConnState, SignOutState, RunState, UnregisterLock
  <1>9. ASSUME NEW c \in Conn, UnregisterChannel(c) PROVE TypeOK'
    <2>1. messengers[UserOf[c]] \in Conn
      BY <1>1, <1>2, <1>9 DEF IInv, LockHeld, UnregisterChannel
    <2>2. TypeOK /\ Registered /\ RemoveChannel(messengers[UserOf[c]], c)
      BY <1>1, <1>9 DEF UnregisterChannel, IInv
    <2>3. channels' \in [Conn -> Seq(Conn)] /\ closed' \in {closed, closed \cup {c}}
      BY <2>1, <2>2, RemoveType
    <2>4. /\ messengers' \in [User -> Conn \cup {None}] /\ closed' \subseteq Conn
          /\ pc' = [pc EXCEPT ![c] = "draining"]
          /\ UNCHANGED <<token, full, at, left, todo, shutdown, orphaned>>
      BY <1>1, <1>2, <1>9, <2>3 DEF UnregisterChannel, IInv, TypeOK
    <2> QED
      BY <1>1, <1>2, <2>3, <2>4 DEF IInv, TypeOK, Process, ConnState, SignOutState, RunState
  <1>10. ASSUME NEW c \in Conn, Drain(c) PROVE TypeOK'
    <2>1. full' \subseteq full /\ pc[c] \in ConnState
          /\ UNCHANGED <<messengers, token, channels, closed, at, left, todo, shutdown, orphaned>>
      BY <1>1, <1>10 DEF Drain, IInv, TypeOK
    <2>2. CASE pc' = pc
      BY <1>1, <2>1, <2>2 DEF IInv, TypeOK
    <2>3. CASE pc' = [pc EXCEPT ![c] = "gone"]
      BY <1>1, <1>2, <2>1, <2>3 DEF IInv, TypeOK, Process, ConnState, SignOutState, RunState
    <2> QED
      BY <1>10, <2>2, <2>3 DEF Drain
  <1>11. ASSUME NEW s \in SignOut, SignOutFetch(s) PROVE TypeOK'
    <2>1. messengers[UserOf[s]] \in Conn \cup {None}
      BY <1>2, UserAssumption
    <2> QED
      BY <1>1, <1>2, <1>11, <2>1 DEF IInv, TypeOK, Process, ConnState, SignOutState, RunState, SignOutFetch
  <1>12. ASSUME NEW s \in SignOut, SignOutLock(s) PROVE TypeOK'
    BY <1>1, <1>2, <1>12 DEF IInv, TypeOK, Process, ConnState, SignOutState, RunState, SignOutLock
  <1>13. ASSUME NEW s \in SignOut, SignOutSend(s) PROVE TypeOK'
    <2>1. left[s] \in Seq(Conn) /\ pc[s] = "sending"
      BY <1>2, <1>13 DEF SignOutSend
    <2>2. CASE left[s] = <<>>
      <3>1. pc' = [pc EXCEPT ![s] = "done"]
            /\ UNCHANGED <<messengers, token, channels, full, closed, at, left, todo, shutdown, orphaned>>
        BY <1>13, <2>2 DEF SignOutSend
      <3> QED
        BY <1>1, <1>2, <3>1 DEF IInv, TypeOK, Process, ConnState, SignOutState, RunState
    <2>3. CASE left[s] # <<>>
      <3>1. Head(left[s]) \in Conn /\ Tail(left[s]) \in Seq(Conn)
        BY <2>1, <2>3
      <3>2. left' = [left EXCEPT ![s] = Tail(left[s])] /\ full' = full \cup {Head(left[s])}
            /\ UNCHANGED <<messengers, token, channels, closed, pc, at, todo, shutdown, orphaned>>
        BY <1>13, <2>3 DEF SignOutSend
      <3> QED
        BY <1>1, <1>2, <3>1, <3>2 DEF IInv, TypeOK, Process, ConnState, SignOutState, RunState
    <2> QED
      BY <2>2, <2>3
  <1>14. ASSUME Tick PROVE TypeOK'
    <2>1. token' \in BOOLEAN /\ \E l \in {"paused", "loading"} : pc' = [pc EXCEPT ![Run] = l]
      BY <1>1, <1>14 DEF IInv, TypeOK, Tick
    <2> QED
      BY <1>1, <1>2, <1>14, <2>1 DEF IInv, TypeOK, Process, ConnState, SignOutState, RunState, Tick
  <1>15. ASSUME Resume PROVE TypeOK'
    BY <1>1, <1>2, <1>15 DEF IInv, TypeOK, Process, ConnState, SignOutState, RunState, Resume
  <1>16. ASSUME LoadCounts PROVE TypeOK'
    BY <1>1, <1>2, <1>16 DEF IInv, TypeOK, Process, ConnState, SignOutState, RunState, LoadCounts
  <1>17. ASSUME LoadFails PROVE TypeOK'
    BY <1>1, <1>2, <1>17 DEF IInv, TypeOK, Process, ConnState, SignOutState, RunState, LoadFails
  <1>18. ASSUME SendFetch PROVE TypeOK'
    <2>1. CASE todo = {}
      <3>1. pc' = [pc EXCEPT ![Run] = "waiting"]
            /\ UNCHANGED <<messengers, token, channels, full, closed, at, left, todo, shutdown, orphaned>>
        BY <1>18, <2>1 DEF SendFetch
      <3> QED
        BY <1>1, <1>2, <3>1 DEF IInv, TypeOK, Process, ConnState, SignOutState, RunState
    <2>2. CASE todo # {}
      <3>1. PICK u \in todo : /\ todo' = todo \ {u} /\ at' = [at EXCEPT ![Run] = messengers[u]]
                              /\ IF messengers[u] = None THEN UNCHANGED pc
                                 ELSE pc' = [pc EXCEPT ![Run] = "fetched"]
        BY <1>18, <2>2 DEF SendFetch
      <3>2. u \in User /\ messengers[u] \in Conn \cup {None}
        BY <1>1, <1>2, <1>18 DEF IInv, TypeOK, SendFetch
      <3>3. UNCHANGED <<messengers, token, channels, full, closed, left, shutdown, orphaned>>
        BY <1>18 DEF SendFetch
      <3>4. CASE messengers[u] = None
        <4>1. pc[Run] = "sending" /\ pc' = pc
          BY <1>18, <3>1, <3>4 DEF SendFetch
        <4> QED
          BY <1>1, <1>2, <3>1, <3>2, <3>3, <4>1 DEF IInv, TypeOK, Process, ConnState, SignOutState, RunState
      <3>5. CASE messengers[u] # None
        <4>1. pc[Run] = "sending" /\ pc' = [pc EXCEPT ![Run] = "fetched"]
          BY <1>18, <3>1, <3>5 DEF SendFetch
        <4> QED
          BY <1>1, <1>2, <3>1, <3>2, <3>3, <3>5, <4>1 DEF IInv, TypeOK, Process, ConnState, SignOutState, RunState
      <3> QED
        BY <3>4, <3>5
    <2> QED
      BY <2>1, <2>2
  <1>19. ASSUME Send PROVE TypeOK'
    BY <1>1, <1>2, <1>19 DEF IInv, TypeOK, Process, ConnState, SignOutState, RunState, Send
  <1>20. ASSUME RunEnds PROVE TypeOK'
    BY <1>1, <1>2, <1>20 DEF IInv, TypeOK, Process, ConnState, SignOutState, RunState, RunEnds
  <1>21. ASSUME UnregisterAllLock PROVE TypeOK'
    BY <1>1, <1>2, <1>21 DEF IInv, TypeOK, Process, ConnState, SignOutState, RunState, UnregisterAllLock, Present
  <1>22. ASSUME UnregisterAllClose PROVE TypeOK'
    BY <1>1, <1>2, <1>22 DEF IInv, TypeOK, Process, ConnState, SignOutState, RunState, UnregisterAllClose
  <1>23. ASSUME UnregisterAllEnd PROVE TypeOK'
    BY <1>1, <1>2, <1>23 DEF IInv, TypeOK, Process, ConnState, SignOutState, RunState, UnregisterAllEnd
  <1>24. ASSUME Shutdown PROVE TypeOK'
    BY <1>1, <1>2, <1>24 DEF IInv, TypeOK, Process, ConnState, SignOutState, RunState, Shutdown
  <1>25. CASE UNCHANGED vars
    BY <1>1, <1>25 DEF IInv, TypeOK, Process, ConnState, SignOutState, RunState, vars, Present
  <1> QED
    BY <1>1, <1>3, <1>4, <1>5, <1>6, <1>7, <1>8, <1>9, <1>10, <1>11, <1>12, <1>13, <1>14,
       <1>15, <1>16, <1>17, <1>18, <1>19, <1>20, <1>21, <1>22, <1>23, <1>24, <1>25 DEF Next,
       ConnStep, SignOutStep, RunStep

LEMMA LockStep == IInv /\ [Next]_vars => LockHeld'
  <1>1. SUFFICES ASSUME IInv, [Next]_vars PROVE LockHeld'
    OBVIOUS
  <1>2. /\ pc \in [Process -> ConnState \cup SignOutState \cup RunState]
        /\ Conn \subseteq Process /\ SignOut \subseteq Process /\ Run \in Process
        /\ at \in [Process -> Conn \cup {None}] /\ messengers \in [User -> Conn \cup {None}]
        /\ channels \in [Conn -> Seq(Conn)] /\ left \in [SignOut -> Seq(Conn)]
        /\ closed \subseteq Conn /\ \A c \in Conn : UserOf[c] \in User
    BY <1>1, UserAssumption DEF IInv, TypeOK, Process
  <1> USE NoneAssumption, ProcessAssumption DEF Goto, Fetch, chans
  <1>3. ASSUME NEW c \in Conn, Register(c) PROVE LockHeld'
    BY <1>1, <1>2, <1>3 DEF IInv, LockHeld, Locked, Register
  <1>4. ASSUME NEW c \in Conn, RegisterChannel(c) PROVE LockHeld'
    BY <1>1, <1>2, <1>4 DEF IInv, LockHeld, Locked, RegisterChannel
  <1>5. ASSUME NEW c \in Conn, Receive(c) PROVE LockHeld'
    <2>1. UNCHANGED <<messengers>> /\ (pc' = pc \/ pc' = [pc EXCEPT ![c] = "leaving"])
      BY <1>5 DEF Receive
    <2> QED
      BY <1>1, <1>2, <2>1 DEF IInv, LockHeld
  <1>6. ASSUME NEW c \in Conn, ReceiveClosed(c) PROVE LockHeld'
    BY <1>1, <1>2, <1>6 DEF IInv, LockHeld, Locked, ReceiveClosed
  <1>7. ASSUME NEW c \in Conn, Leave(c) PROVE LockHeld'
    BY <1>1, <1>2, <1>7 DEF IInv, LockHeld, Locked, Leave
  <1>8. ASSUME NEW c \in Conn, UnregisterLock(c) PROVE LockHeld'
    BY <1>1, <1>2, <1>8 DEF IInv, LockHeld, Locked, UnregisterLock
  <1>9. ASSUME NEW c \in Conn, UnregisterChannel(c) PROVE LockHeld'
    BY <1>1, <1>2, <1>9 DEF IInv, LockHeld, Locked, UnregisterChannel
  <1>10. ASSUME NEW c \in Conn, Drain(c) PROVE LockHeld'
    <2>1. UNCHANGED <<messengers>> /\ (pc' = pc \/ pc' = [pc EXCEPT ![c] = "gone"])
      BY <1>10 DEF Drain
    <2> QED
      BY <1>1, <1>2, <2>1 DEF IInv, LockHeld
  <1>11. ASSUME NEW s \in SignOut, SignOutFetch(s) PROVE LockHeld'
    BY <1>1, <1>2, <1>11 DEF IInv, LockHeld, Locked, SignOutFetch
  <1>12. ASSUME NEW s \in SignOut, SignOutLock(s) PROVE LockHeld'
    BY <1>1, <1>2, <1>12 DEF IInv, LockHeld, Locked, SignOutLock
  <1>13. ASSUME NEW s \in SignOut, SignOutSend(s) PROVE LockHeld'
    BY <1>1, <1>2, <1>13 DEF IInv, LockHeld, Locked, SignOutSend
  <1>14. ASSUME Tick PROVE LockHeld'
    BY <1>1, <1>2, <1>14 DEF IInv, LockHeld, Locked, Tick
  <1>15. ASSUME Resume PROVE LockHeld'
    BY <1>1, <1>2, <1>15 DEF IInv, LockHeld, Locked, Resume
  <1>16. ASSUME LoadCounts PROVE LockHeld'
    BY <1>1, <1>2, <1>16 DEF IInv, LockHeld, Locked, LoadCounts
  <1>17. ASSUME LoadFails PROVE LockHeld'
    BY <1>1, <1>2, <1>17 DEF IInv, LockHeld, Locked, LoadFails
  <1>18. ASSUME SendFetch PROVE LockHeld'
    BY <1>1, <1>2, <1>18 DEF IInv, LockHeld, Locked, SendFetch
  <1>19. ASSUME Send PROVE LockHeld'
    BY <1>1, <1>2, <1>19 DEF IInv, LockHeld, Locked, Send
  <1>20. ASSUME RunEnds PROVE LockHeld'
    BY <1>1, <1>2, <1>20 DEF IInv, LockHeld, Locked, RunEnds
  <1>21. ASSUME UnregisterAllLock PROVE LockHeld'
    BY <1>1, <1>2, <1>21 DEF IInv, LockHeld, Locked, UnregisterAllLock
  <1>22. ASSUME UnregisterAllClose PROVE LockHeld'
    BY <1>1, <1>2, <1>22 DEF IInv, LockHeld, Locked, UnregisterAllClose
  <1>23. ASSUME UnregisterAllEnd PROVE LockHeld'
    BY <1>1, <1>2, <1>23 DEF IInv, LockHeld, Locked, UnregisterAllEnd
  <1>24. ASSUME Shutdown PROVE LockHeld'
    BY <1>1, <1>2, <1>24 DEF IInv, LockHeld, Locked, Shutdown
  <1>25. CASE UNCHANGED vars
    BY <1>1, <1>25 DEF IInv, LockHeld, Locked, vars, Present
  <1> QED
    BY <1>1, <1>3, <1>4, <1>5, <1>6, <1>7, <1>8, <1>9, <1>10, <1>11, <1>12, <1>13, <1>14,
       <1>15, <1>16, <1>17, <1>18, <1>19, <1>20, <1>21, <1>22, <1>23, <1>24, <1>25 DEF Next,
       ConnStep, SignOutStep, RunStep

LEMMA NamedStep == IInv /\ [Next]_vars => Named'
  <1>1. SUFFICES ASSUME IInv, [Next]_vars PROVE Named'
    OBVIOUS
  <1>2. /\ pc \in [Process -> ConnState \cup SignOutState \cup RunState]
        /\ Conn \subseteq Process /\ SignOut \subseteq Process /\ Run \in Process
        /\ at \in [Process -> Conn \cup {None}] /\ messengers \in [User -> Conn \cup {None}]
        /\ channels \in [Conn -> Seq(Conn)] /\ left \in [SignOut -> Seq(Conn)]
        /\ closed \subseteq Conn /\ \A c \in Conn : UserOf[c] \in User
    BY <1>1, UserAssumption DEF IInv, TypeOK, Process
  <1> USE NoneAssumption, ProcessAssumption DEF Goto, Fetch, chans
  <1>3. ASSUME NEW c \in Conn, Register(c) PROVE Named'
    BY <1>1, <1>2, <1>3 DEF IInv, Named, Register
  <1>4. ASSUME NEW c \in Conn, RegisterChannel(c) PROVE Named'
    BY <1>1, <1>2, <1>4 DEF IInv, Named, RegisterChannel
  <1>5. ASSUME NEW c \in Conn, Receive(c) PROVE Named'
    BY <1>1, <1>2, <1>5 DEF IInv, Named, Receive
  <1>6. ASSUME NEW c \in Conn, ReceiveClosed(c) PROVE Named'
    BY <1>1, <1>2, <1>6 DEF IInv, Named, ReceiveClosed
  <1>7. ASSUME NEW c \in Conn, Leave(c) PROVE Named'
    BY <1>1, <1>2, <1>7 DEF IInv, Named, Leave
  <1>8. ASSUME NEW c \in Conn, UnregisterLock(c) PROVE Named'
    BY <1>1, <1>2, <1>8 DEF IInv, Named, UnregisterLock
  <1>9. ASSUME NEW c \in Conn, UnregisterChannel(c) PROVE Named'
    BY <1>1, <1>2, <1>9 DEF IInv, Named, UnregisterChannel
  <1>10. ASSUME NEW c \in Conn, Drain(c) PROVE Named'
    BY <1>1, <1>2, <1>10 DEF IInv, Named, Drain
  <1>11. ASSUME NEW s \in SignOut, SignOutFetch(s) PROVE Named'
    BY <1>1, <1>2, <1>11 DEF IInv, Named, SignOutFetch
  <1>12. ASSUME NEW s \in SignOut, SignOutLock(s) PROVE Named'
    BY <1>1, <1>2, <1>12 DEF IInv, Named, SignOutLock
  <1>13. ASSUME NEW s \in SignOut, SignOutSend(s) PROVE Named'
    BY <1>1, <1>2, <1>13 DEF IInv, Named, SignOutSend
  <1>14. ASSUME Tick PROVE Named'
    BY <1>1, <1>2, <1>14 DEF IInv, Named, Tick
  <1>15. ASSUME Resume PROVE Named'
    BY <1>1, <1>2, <1>15 DEF IInv, Named, Resume
  <1>16. ASSUME LoadCounts PROVE Named'
    BY <1>1, <1>2, <1>16 DEF IInv, Named, LoadCounts
  <1>17. ASSUME LoadFails PROVE Named'
    BY <1>1, <1>2, <1>17 DEF IInv, Named, LoadFails
  <1>18. ASSUME SendFetch PROVE Named'
    BY <1>1, <1>2, <1>18 DEF IInv, Named, SendFetch
  <1>19. ASSUME Send PROVE Named'
    BY <1>1, <1>2, <1>19 DEF IInv, Named, Send
  <1>20. ASSUME RunEnds PROVE Named'
    BY <1>1, <1>2, <1>20 DEF IInv, Named, RunEnds
  <1>21. ASSUME UnregisterAllLock PROVE Named'
    BY <1>1, <1>2, <1>21 DEF IInv, Named, UnregisterAllLock
  <1>22. ASSUME UnregisterAllClose PROVE Named'
    BY <1>1, <1>2, <1>22 DEF IInv, Named, UnregisterAllClose
  <1>23. ASSUME UnregisterAllEnd PROVE Named'
    BY <1>1, <1>2, <1>23 DEF IInv, Named, UnregisterAllEnd
  <1>24. ASSUME Shutdown PROVE Named'
    BY <1>1, <1>2, <1>24 DEF IInv, Named, Shutdown
  <1>25. CASE UNCHANGED vars
    BY <1>1, <1>25 DEF IInv, Named, vars, Present
  <1> QED
    BY <1>1, <1>3, <1>4, <1>5, <1>6, <1>7, <1>8, <1>9, <1>10, <1>11, <1>12, <1>13, <1>14,
       <1>15, <1>16, <1>17, <1>18, <1>19, <1>20, <1>21, <1>22, <1>23, <1>24, <1>25 DEF Next,
       ConnStep, SignOutStep, RunStep

LEMMA WokenStep == IInv /\ [Next]_vars => Woken'
  <1>1. SUFFICES ASSUME IInv, [Next]_vars PROVE Woken'
    OBVIOUS
  <1>2. /\ pc \in [Process -> ConnState \cup SignOutState \cup RunState]
        /\ Conn \subseteq Process /\ SignOut \subseteq Process /\ Run \in Process
        /\ at \in [Process -> Conn \cup {None}] /\ messengers \in [User -> Conn \cup {None}]
        /\ channels \in [Conn -> Seq(Conn)] /\ left \in [SignOut -> Seq(Conn)]
        /\ closed \subseteq Conn /\ \A c \in Conn : UserOf[c] \in User
    BY <1>1, UserAssumption DEF IInv, TypeOK, Process
  <1> USE NoneAssumption, ProcessAssumption DEF Goto, Fetch, chans
  <1>3. ASSUME NEW c \in Conn, Register(c) PROVE Woken'
    BY <1>1, <1>2, <1>3 DEF IInv, Woken, Register
  <1>4. ASSUME NEW c \in Conn, RegisterChannel(c) PROVE Woken'
    <2>1. UNCHANGED <<messengers, token>> /\ pc'[Run] = pc[Run]
      BY <1>2, <1>4 DEF RegisterChannel
    <2> QED
      BY <1>1, <2>1 DEF IInv, Woken, Present
  <1>5. ASSUME NEW c \in Conn, Receive(c) PROVE Woken'
    <2>1. UNCHANGED <<messengers, token>> /\ pc'[Run] = pc[Run]
      BY <1>2, <1>5 DEF Receive
    <2> QED
      BY <1>1, <2>1 DEF IInv, Woken, Present
  <1>6. ASSUME NEW c \in Conn, ReceiveClosed(c) PROVE Woken'
    <2>1. UNCHANGED <<messengers, token>> /\ pc'[Run] = pc[Run]
      BY <1>2, <1>6 DEF ReceiveClosed
    <2> QED
      BY <1>1, <2>1 DEF IInv, Woken, Present
  <1>7. ASSUME NEW c \in Conn, Leave(c) PROVE Woken'
    <2>1. UNCHANGED <<messengers, token>> /\ pc'[Run] = pc[Run]
      BY <1>2, <1>7 DEF Leave
    <2> QED
      BY <1>1, <2>1 DEF IInv, Woken, Present
  <1>8. ASSUME NEW c \in Conn, UnregisterLock(c) PROVE Woken'
    <2>1. UNCHANGED <<messengers, token>> /\ pc'[Run] = pc[Run]
      BY <1>2, <1>8 DEF UnregisterLock
    <2> QED
      BY <1>1, <2>1 DEF IInv, Woken, Present
  <1>9. ASSUME NEW c \in Conn, UnregisterChannel(c) PROVE Woken'
    <2>1. /\ messengers' \in {messengers, [messengers EXCEPT ![UserOf[c]] = None]}
          /\ token' = token /\ pc'[Run] = pc[Run]
      BY <1>2, <1>9 DEF UnregisterChannel
    <2>2. Present' \subseteq Present
      BY <1>2, <2>1 DEF Present
    <2> QED
      BY <1>1, <2>1, <2>2 DEF IInv, Woken
  <1>10. ASSUME NEW c \in Conn, Drain(c) PROVE Woken'
    <2>1. UNCHANGED <<messengers, token>> /\ pc'[Run] = pc[Run]
      BY <1>2, <1>10 DEF Drain
    <2> QED
      BY <1>1, <2>1 DEF IInv, Woken, Present
  <1>11. ASSUME NEW s \in SignOut, SignOutFetch(s) PROVE Woken'
    <2>1. UNCHANGED <<messengers, token>> /\ pc'[Run] = pc[Run]
      BY <1>2, <1>11 DEF SignOutFetch
    <2> QED
      BY <1>1, <2>1 DEF IInv, Woken, Present
  <1>12. ASSUME NEW s \in SignOut, SignOutLock(s) PROVE Woken'
    <2>1. UNCHANGED <<messengers, token>> /\ pc'[Run] = pc[Run]
      BY <1>2, <1>12 DEF SignOutLock
    <2> QED
      BY <1>1, <2>1 DEF IInv, Woken, Present
  <1>13. ASSUME NEW s \in SignOut, SignOutSend(s) PROVE Woken'
    <2>1. UNCHANGED <<messengers, token>> /\ pc'[Run] = pc[Run]
      BY <1>2, <1>13 DEF SignOutSend
    <2> QED
      BY <1>1, <2>1 DEF IInv, Woken, Present
  <1>14. ASSUME Tick PROVE Woken'
    <2>1. CASE Present = {}
      <3>1. messengers' = messengers
        BY <1>14 DEF Tick
      <3> QED
        BY <2>1, <3>1 DEF Woken, Present
    <2>2. CASE Present # {}
      BY <1>1, <1>2, <1>14, <2>2 DEF Tick, Woken
    <2> QED
      BY <2>1, <2>2
  <1>15. ASSUME Resume PROVE Woken'
    BY <1>1, <1>2, <1>15 DEF IInv, Woken, Resume
  <1>16. ASSUME LoadCounts PROVE Woken'
    BY <1>1, <1>2, <1>16 DEF IInv, Woken, LoadCounts
  <1>17. ASSUME LoadFails PROVE Woken'
    BY <1>1, <1>2, <1>17 DEF IInv, Woken, LoadFails
  <1>18. ASSUME SendFetch PROVE Woken'
    BY <1>1, <1>2, <1>18 DEF IInv, Woken, SendFetch
  <1>19. ASSUME Send PROVE Woken'
    BY <1>1, <1>2, <1>19 DEF IInv, Woken, Send
  <1>20. ASSUME RunEnds PROVE Woken'
    BY <1>1, <1>2, <1>20 DEF IInv, Woken, RunEnds
  <1>21. ASSUME UnregisterAllLock PROVE Woken'
    BY <1>1, <1>2, <1>21 DEF IInv, Woken, UnregisterAllLock
  <1>22. ASSUME UnregisterAllClose PROVE Woken'
    BY <1>1, <1>2, <1>22 DEF IInv, Woken, UnregisterAllClose
  <1>23. ASSUME UnregisterAllEnd PROVE Woken'
    BY <1>1, <1>2, <1>23 DEF IInv, Woken, UnregisterAllEnd
  <1>24. ASSUME Shutdown PROVE Woken'
    <2>1. UNCHANGED <<messengers, token>> /\ pc'[Run] = pc[Run]
      BY <1>2, <1>24 DEF Shutdown
    <2> QED
      BY <1>1, <2>1 DEF IInv, Woken, Present
  <1>25. CASE UNCHANGED vars
    BY <1>1, <1>25 DEF IInv, Woken, vars, Present
  <1> QED
    BY <1>1, <1>3, <1>4, <1>5, <1>6, <1>7, <1>8, <1>9, <1>10, <1>11, <1>12, <1>13, <1>14,
       <1>15, <1>16, <1>17, <1>18, <1>19, <1>20, <1>21, <1>22, <1>23, <1>24, <1>25 DEF Next,
       ConnStep, SignOutStep, RunStep

LEMMA RegisteredStep == IInv /\ [Next]_vars => Registered'
  <1>1. SUFFICES ASSUME IInv, [Next]_vars PROVE Registered'
    OBVIOUS
  <1>2. /\ pc \in [Process -> ConnState \cup SignOutState \cup RunState]
        /\ Conn \subseteq Process /\ SignOut \subseteq Process /\ Run \in Process
        /\ at \in [Process -> Conn \cup {None}] /\ messengers \in [User -> Conn \cup {None}]
        /\ channels \in [Conn -> Seq(Conn)] /\ left \in [SignOut -> Seq(Conn)]
        /\ closed \subseteq Conn /\ \A c \in Conn : UserOf[c] \in User
    BY <1>1, UserAssumption DEF IInv, TypeOK, Process
  <1> USE NoneAssumption, ProcessAssumption DEF Goto, Fetch, chans
  <1>3. ASSUME NEW c \in Conn, Register(c) PROVE Registered'
    <2>1. /\ UNCHANGED <<channels, closed>> /\ pc[c] = "new"
          /\ \A d \in Conn \ {c} : at'[d] = at[d] /\ pc'[d] = pc[d]
      BY <1>2, <1>3 DEF Register
    <2>2. c \notin closed /\ \A m \in Conn : c \notin Elements(channels[m])
      BY <1>1, <2>1 DEF IInv, Registered
    <2> QED
      BY <1>1, <2>1, <2>2 DEF IInv, Registered, TypeOK
  <1>4. ASSUME NEW c \in Conn, RegisterChannel(c) PROVE Registered'
    <2>1. /\ pc[c] = "fetched" /\ at[c] \in Conn
          /\ channels' = [channels EXCEPT ![at[c]] = Append(@, c)]
          /\ pc' = [pc EXCEPT ![c] = "listening"] /\ UNCHANGED <<at, closed>>
      BY <1>1, <1>2, <1>4 DEF RegisterChannel, IInv, TypeOK
    <2>2. c \notin closed /\ \A m \in Conn : c \notin Elements(channels[m])
      BY <1>1, <2>1 DEF IInv, Registered
    <2>3. channels'[at[c]] = Append(channels[at[c]], c) /\ \A m \in Conn \ {at[c]} : channels'[m] = channels[m]
      BY <1>2, <2>1
    <2>4. channels[at[c]] \in Seq(Conn) /\ Injective(channels[at[c]])
      BY <1>1, <1>2, <2>1 DEF IInv, Registered
    <2>5. Elements(channels'[at[c]]) = Elements(channels[at[c]]) \cup {c} /\ Injective(channels'[at[c]])
      <3> DEFINE l == channels[at[c]]
      <3>1. l \in Seq(Conn) /\ Injective(l) /\ c \notin Elements(l) /\ channels'[at[c]] = Append(l, c)
        BY <2>1, <2>2, <2>3, <2>4
      <3> HIDE DEF l
      <3>2. Elements(Append(l, c)) = Elements(l) \cup {c} /\ Injective(Append(l, c))
        BY <3>1, AppendElements
      <3> QED
        BY <3>1, <3>2 DEF l
    <2> QED
      BY <1>1, <1>2, <2>1, <2>2, <2>3, <2>5 DEF IInv, Registered
  <1>5. ASSUME NEW c \in Conn, Receive(c) PROVE Registered'
    <2>1. /\ UNCHANGED <<channels, closed>> /\ \A d \in Conn : at'[d] = at[d]
          /\ \A d \in Conn : pc'[d] = pc[d] \/ pc'[d] \notin {"new", "fetched"}
      BY <1>2, <1>5 DEF Receive
    <2> QED
      BY <1>1, <2>1 DEF IInv, Registered
  <1>6. ASSUME NEW c \in Conn, ReceiveClosed(c) PROVE Registered'
    <2>1. /\ UNCHANGED <<channels, closed>> /\ \A d \in Conn : at'[d] = at[d]
          /\ \A d \in Conn : pc'[d] = pc[d] \/ pc'[d] \notin {"new", "fetched"}
      BY <1>2, <1>6 DEF ReceiveClosed
    <2> QED
      BY <1>1, <2>1 DEF IInv, Registered
  <1>7. ASSUME NEW c \in Conn, Leave(c) PROVE Registered'
    <2>1. /\ UNCHANGED <<channels, closed>> /\ \A d \in Conn : at'[d] = at[d]
          /\ \A d \in Conn : pc'[d] = pc[d] \/ pc'[d] \notin {"new", "fetched"}
      BY <1>2, <1>7 DEF Leave
    <2> QED
      BY <1>1, <2>1 DEF IInv, Registered
  <1>8. ASSUME NEW c \in Conn, UnregisterLock(c) PROVE Registered'
    <2>1. /\ UNCHANGED <<channels, closed>> /\ \A d \in Conn : at'[d] = at[d]
          /\ \A d \in Conn : pc'[d] = pc[d] \/ pc'[d] \notin {"new", "fetched"}
      BY <1>2, <1>8 DEF UnregisterLock
    <2> QED
      BY <1>1, <2>1 DEF IInv, Registered
  <1>9. ASSUME NEW c \in Conn, UnregisterChannel(c) PROVE Registered'
    <2> DEFINE m == messengers[UserOf[c]]
    <2>1. m \in Conn /\ TypeOK /\ Registered /\ RemoveChannel(m, c)
      BY <1>1, <1>2, <1>9 DEF IInv, LockHeld, UnregisterChannel
    <2>2. pc' = [pc EXCEPT ![c] = "draining"] /\ at' = at /\ pc[c] = "unregistering"
      BY <1>9 DEF UnregisterChannel
    <2> HIDE DEF m
    <2>3. /\ closed' \in {closed, closed \cup {c}}
          /\ Elements(channels'[m]) = Elements(channels[m]) \ {c} /\ Injective(channels'[m])
          /\ \A n \in Conn \ {m} : channels'[n] = channels[n]
          /\ c \in closed' \ closed => c \in Elements(channels[m])
      BY <2>1, RemoveType
    <2>4. ASSUME NEW n \in Conn, NEW d \in Conn, d \in Elements(channels'[n])
          PROVE  d \in Elements(channels[n]) /\ d \notin closed'
      <3>1. d \in Elements(channels[n]) /\ at[d] = n /\ d \notin closed
        BY <2>1, <2>3, <2>4 DEF Registered
      <3>2. CASE d = c
        BY <2>1, <2>3, <2>4, <3>1, <3>2 DEF Registered
      <3> QED
        BY <2>3, <3>1, <3>2
    <2>5. \A d \in Conn : pc'[d] \in {"new", "fetched"} => pc[d] = pc'[d] /\ d # c
      BY <1>2, <2>2
    <2>6. \A d \in Conn : d \in closed' => pc'[d] \notin {"new", "fetched"}
      BY <2>1, <2>3, <2>5 DEF Registered
    <2>7. \A n \in Conn : Injective(channels'[n])
      BY <2>1, <2>3 DEF Registered
    <2>8. \A n, d \in Conn : d \in Elements(channels'[n]) => at'[d] = n /\ pc'[d] \notin {"new", "fetched"}
      BY <2>1, <2>2, <2>4, <2>5 DEF Registered
    <2> QED
      BY <2>4, <2>6, <2>7, <2>8 DEF Registered
  <1>10. ASSUME NEW c \in Conn, Drain(c) PROVE Registered'
    <2>1. /\ UNCHANGED <<channels, closed>> /\ \A d \in Conn : at'[d] = at[d]
          /\ \A d \in Conn : pc'[d] = pc[d] \/ pc'[d] \notin {"new", "fetched"}
      BY <1>2, <1>10 DEF Drain
    <2> QED
      BY <1>1, <2>1 DEF IInv, Registered
  <1>11. ASSUME NEW s \in SignOut, SignOutFetch(s) PROVE Registered'
    <2>1. /\ UNCHANGED <<channels, closed>> /\ \A d \in Conn : at'[d] = at[d]
          /\ \A d \in Conn : pc'[d] = pc[d] \/ pc'[d] \notin {"new", "fetched"}
      BY <1>2, <1>11 DEF SignOutFetch
    <2> QED
      BY <1>1, <2>1 DEF IInv, Registered
  <1>12. ASSUME NEW s \in SignOut, SignOutLock(s) PROVE Registered'
    <2>1. /\ UNCHANGED <<channels, closed>> /\ \A d \in Conn : at'[d] = at[d]
          /\ \A d \in Conn : pc'[d] = pc[d] \/ pc'[d] \notin {"new", "fetched"}
      BY <1>2, <1>12 DEF SignOutLock
    <2> QED
      BY <1>1, <2>1 DEF IInv, Registered
  <1>13. ASSUME NEW s \in SignOut, SignOutSend(s) PROVE Registered'
    <2>1. /\ UNCHANGED <<channels, closed>> /\ \A d \in Conn : at'[d] = at[d]
          /\ \A d \in Conn : pc'[d] = pc[d] \/ pc'[d] \notin {"new", "fetched"}
      BY <1>2, <1>13 DEF SignOutSend
    <2> QED
      BY <1>1, <2>1 DEF IInv, Registered
  <1>14. ASSUME Tick PROVE Registered'
    <2>1. /\ UNCHANGED <<channels, closed>> /\ \A d \in Conn : at'[d] = at[d]
          /\ \A d \in Conn : pc'[d] = pc[d] \/ pc'[d] \notin {"new", "fetched"}
      BY <1>2, <1>14 DEF Tick
    <2> QED
      BY <1>1, <2>1 DEF IInv, Registered
  <1>15. ASSUME Resume PROVE Registered'
    <2>1. /\ UNCHANGED <<channels, closed>> /\ \A d \in Conn : at'[d] = at[d]
          /\ \A d \in Conn : pc'[d] = pc[d] \/ pc'[d] \notin {"new", "fetched"}
      BY <1>2, <1>15 DEF Resume
    <2> QED
      BY <1>1, <2>1 DEF IInv, Registered
  <1>16. ASSUME LoadCounts PROVE Registered'
    <2>1. /\ UNCHANGED <<channels, closed>> /\ \A d \in Conn : at'[d] = at[d]
          /\ \A d \in Conn : pc'[d] = pc[d] \/ pc'[d] \notin {"new", "fetched"}
      BY <1>2, <1>16 DEF LoadCounts
    <2> QED
      BY <1>1, <2>1 DEF IInv, Registered
  <1>17. ASSUME LoadFails PROVE Registered'
    <2>1. /\ UNCHANGED <<channels, closed>> /\ \A d \in Conn : at'[d] = at[d]
          /\ \A d \in Conn : pc'[d] = pc[d] \/ pc'[d] \notin {"new", "fetched"}
      BY <1>2, <1>17 DEF LoadFails
    <2> QED
      BY <1>1, <2>1 DEF IInv, Registered
  <1>18. ASSUME SendFetch PROVE Registered'
    <2>1. /\ UNCHANGED <<channels, closed>> /\ \A d \in Conn : at'[d] = at[d]
          /\ \A d \in Conn : pc'[d] = pc[d] \/ pc'[d] \notin {"new", "fetched"}
      BY <1>2, <1>18 DEF SendFetch
    <2> QED
      BY <1>1, <2>1 DEF IInv, Registered
  <1>19. ASSUME Send PROVE Registered'
    <2>1. /\ UNCHANGED <<channels, closed>> /\ \A d \in Conn : at'[d] = at[d]
          /\ \A d \in Conn : pc'[d] = pc[d] \/ pc'[d] \notin {"new", "fetched"}
      BY <1>2, <1>19 DEF Send
    <2> QED
      BY <1>1, <2>1 DEF IInv, Registered
  <1>20. ASSUME RunEnds PROVE Registered'
    <2>1. /\ UNCHANGED <<channels, closed>> /\ \A d \in Conn : at'[d] = at[d]
          /\ \A d \in Conn : pc'[d] = pc[d] \/ pc'[d] \notin {"new", "fetched"}
      BY <1>2, <1>20 DEF RunEnds
    <2> QED
      BY <1>1, <2>1 DEF IInv, Registered
  <1>21. ASSUME UnregisterAllLock PROVE Registered'
    <2>1. /\ UNCHANGED <<channels, closed>> /\ \A d \in Conn : at'[d] = at[d]
          /\ \A d \in Conn : pc'[d] = pc[d] \/ pc'[d] \notin {"new", "fetched"}
      BY <1>2, <1>21 DEF UnregisterAllLock
    <2> QED
      BY <1>1, <2>1 DEF IInv, Registered
  <1>22. ASSUME UnregisterAllClose PROVE Registered'
    <2>1. PICK m \in todo : /\ closed' = closed \cup {channels[m][i] : i \in DOMAIN channels[m]}
                            /\ channels' = [channels EXCEPT ![m] = <<>>]
      BY <1>22 DEF UnregisterAllClose
    <2>2. m \in Conn /\ UNCHANGED <<pc, at>>
      BY <1>1, <1>22 DEF UnregisterAllClose, IInv, TypeOK
    <2>3. closed' = closed \cup Elements(channels[m])
      <3>1. DOMAIN channels[m] = 1..Len(channels[m])
        BY <1>2, <2>2
      <3> QED
        BY <2>1, <3>1 DEF Elements
    <2>4. channels'[m] = <<>> /\ \A n \in Conn \ {m} : channels'[n] = channels[n]
      BY <1>2, <2>1, <2>2
    <2>5. Elements(channels'[m]) = {} /\ Injective(channels'[m])
      BY <2>4 DEF Elements, Injective
    <2>6. \A d \in Elements(channels[m]) : d \in Conn
      BY <1>2, <2>2 DEF Elements
    <2> QED
      BY <1>1, <2>2, <2>3, <2>4, <2>5, <2>6 DEF IInv, Registered
  <1>23. ASSUME UnregisterAllEnd PROVE Registered'
    <2>1. /\ UNCHANGED <<channels, closed>> /\ \A d \in Conn : at'[d] = at[d]
          /\ \A d \in Conn : pc'[d] = pc[d] \/ pc'[d] \notin {"new", "fetched"}
      BY <1>2, <1>23 DEF UnregisterAllEnd
    <2> QED
      BY <1>1, <2>1 DEF IInv, Registered
  <1>24. ASSUME Shutdown PROVE Registered'
    <2>1. /\ UNCHANGED <<channels, closed>> /\ \A d \in Conn : at'[d] = at[d]
          /\ \A d \in Conn : pc'[d] = pc[d] \/ pc'[d] \notin {"new", "fetched"}
      BY <1>2, <1>24 DEF Shutdown
    <2> QED
      BY <1>1, <2>1 DEF IInv, Registered
  <1>25. CASE UNCHANGED vars
    BY <1>1, <1>25 DEF IInv, Registered, vars, Present
  <1> QED
    BY <1>1, <1>3, <1>4, <1>5, <1>6, <1>7, <1>8, <1>9, <1>10, <1>11, <1>12, <1>13, <1>14,
       <1>15, <1>16, <1>17, <1>18, <1>19, <1>20, <1>21, <1>22, <1>23, <1>24, <1>25 DEF Next,
       ConnStep, SignOutStep, RunStep

LEMMA SendingStep == IInv /\ [Next]_vars => Sending'
  <1>1. SUFFICES ASSUME IInv, [Next]_vars PROVE Sending'
    OBVIOUS
  <1>2. /\ pc \in [Process -> ConnState \cup SignOutState \cup RunState]
        /\ Conn \subseteq Process /\ SignOut \subseteq Process /\ Run \in Process
        /\ at \in [Process -> Conn \cup {None}] /\ messengers \in [User -> Conn \cup {None}]
        /\ channels \in [Conn -> Seq(Conn)] /\ left \in [SignOut -> Seq(Conn)]
        /\ closed \subseteq Conn /\ \A c \in Conn : UserOf[c] \in User
    BY <1>1, UserAssumption DEF IInv, TypeOK, Process
  <1> USE NoneAssumption, ProcessAssumption DEF Goto, Fetch, chans
  <1>3. ASSUME NEW c \in Conn, Register(c) PROVE Sending'
    <2>1. UNCHANGED <<channels, left>> /\ \A t \in SignOut : at'[t] = at[t] /\ pc'[t] = pc[t]
      BY <1>2, <1>3 DEF Register
    <2> QED
      BY <1>1, <2>1 DEF IInv, Sending
  <1>4. ASSUME NEW c \in Conn, RegisterChannel(c) PROVE Sending'
    <2>1. /\ at[c] \in Conn /\ ~Busy(at[c])
          /\ channels' = [channels EXCEPT ![at[c]] = Append(@, c)] /\ UNCHANGED <<at, left>>
          /\ \A t \in SignOut : pc'[t] = pc[t]
      BY <1>1, <1>2, <1>4 DEF RegisterChannel, IInv, TypeOK
    <2>2. \A n \in Conn \ {at[c]} : channels'[n] = channels[n]
      BY <1>2, <2>1
    <2> QED
      BY <1>1, <2>1, <2>2 DEF IInv, Sending, Busy
  <1>5. ASSUME NEW c \in Conn, Receive(c) PROVE Sending'
    <2>1. UNCHANGED <<channels, left>> /\ \A t \in SignOut : at'[t] = at[t] /\ pc'[t] = pc[t]
      BY <1>2, <1>5 DEF Receive
    <2> QED
      BY <1>1, <2>1 DEF IInv, Sending
  <1>6. ASSUME NEW c \in Conn, ReceiveClosed(c) PROVE Sending'
    <2>1. UNCHANGED <<channels, left>> /\ \A t \in SignOut : at'[t] = at[t] /\ pc'[t] = pc[t]
      BY <1>2, <1>6 DEF ReceiveClosed
    <2> QED
      BY <1>1, <2>1 DEF IInv, Sending
  <1>7. ASSUME NEW c \in Conn, Leave(c) PROVE Sending'
    <2>1. UNCHANGED <<channels, left>> /\ \A t \in SignOut : at'[t] = at[t] /\ pc'[t] = pc[t]
      BY <1>2, <1>7 DEF Leave
    <2> QED
      BY <1>1, <2>1 DEF IInv, Sending
  <1>8. ASSUME NEW c \in Conn, UnregisterLock(c) PROVE Sending'
    <2>1. UNCHANGED <<channels, left>> /\ \A t \in SignOut : at'[t] = at[t] /\ pc'[t] = pc[t]
      BY <1>2, <1>8 DEF UnregisterLock
    <2> QED
      BY <1>1, <2>1 DEF IInv, Sending
  <1>9. ASSUME NEW c \in Conn, UnregisterChannel(c) PROVE Sending'
    <2> DEFINE m == messengers[UserOf[c]]
    <2>1. m \in Conn /\ TypeOK /\ Registered /\ RemoveChannel(m, c)
      BY <1>1, <1>2, <1>9 DEF IInv, LockHeld, UnregisterChannel
    <2>2. ~Busy(m) /\ UNCHANGED <<at, left>> /\ \A t \in SignOut : pc'[t] = pc[t]
      BY <1>2, <1>9 DEF UnregisterChannel
    <2> HIDE DEF m
    <2>3. \A n \in Conn \ {m} : channels'[n] = channels[n]
      BY <2>1, RemoveType
    <2> QED
      BY <1>1, <2>2, <2>3 DEF IInv, Sending, Busy
  <1>10. ASSUME NEW c \in Conn, Drain(c) PROVE Sending'
    <2>1. UNCHANGED <<channels, left>> /\ \A t \in SignOut : at'[t] = at[t] /\ pc'[t] = pc[t]
      BY <1>2, <1>10 DEF Drain
    <2> QED
      BY <1>1, <2>1 DEF IInv, Sending
  <1>11. ASSUME NEW s \in SignOut, SignOutFetch(s) PROVE Sending'
    <2>1. UNCHANGED <<channels, left>> /\ pc'[s] # "sending"
          /\ \A t \in SignOut \ {s} : at'[t] = at[t] /\ pc'[t] = pc[t]
      BY <1>2, <1>11 DEF SignOutFetch
    <2> QED
      BY <1>1, <2>1 DEF IInv, Sending
  <1>12. ASSUME NEW s \in SignOut, SignOutLock(s) PROVE Sending'
    <2>1. /\ at[s] \in Conn /\ UNCHANGED <<channels, at>> /\ left'[s] = channels[at[s]]
          /\ \A t \in SignOut \ {s} : left'[t] = left[t] /\ pc'[t] = pc[t]
      BY <1>1, <1>2, <1>12 DEF SignOutLock, IInv, TypeOK
    <2> QED
      BY <1>1, <2>1 DEF IInv, Sending
  <1>13. ASSUME NEW s \in SignOut, SignOutSend(s) PROVE Sending'
    <2>1. UNCHANGED <<channels, at>> /\ pc[s] = "sending" /\ left[s] \in Seq(Conn)
      BY <1>2, <1>13 DEF SignOutSend
    <2>2. CASE left[s] = <<>>
      <3>1. left' = left /\ pc'[s] # "sending" /\ \A t \in SignOut \ {s} : pc'[t] = pc[t]
        BY <1>2, <1>13, <2>2 DEF SignOutSend
      <3> QED
        BY <1>1, <2>1, <3>1 DEF IInv, Sending
    <2>3. CASE left[s] # <<>>
      <3>1. /\ pc' = pc /\ left'[s] = Tail(left[s])
            /\ \A t \in SignOut \ {s} : left'[t] = left[t]
        BY <1>2, <1>13, <2>3 DEF SignOutSend
      <3>2. Elements(left'[s]) \subseteq Elements(left[s])
        BY <2>1, <2>3, <3>1, TailElements
      <3> QED
        BY <1>1, <2>1, <3>1, <3>2 DEF IInv, Sending
    <2> QED
      BY <2>2, <2>3
  <1>14. ASSUME Tick PROVE Sending'
    <2>1. UNCHANGED <<channels, left>> /\ \A t \in SignOut : at'[t] = at[t] /\ pc'[t] = pc[t]
      BY <1>2, <1>14 DEF Tick
    <2> QED
      BY <1>1, <2>1 DEF IInv, Sending
  <1>15. ASSUME Resume PROVE Sending'
    <2>1. UNCHANGED <<channels, left>> /\ \A t \in SignOut : at'[t] = at[t] /\ pc'[t] = pc[t]
      BY <1>2, <1>15 DEF Resume
    <2> QED
      BY <1>1, <2>1 DEF IInv, Sending
  <1>16. ASSUME LoadCounts PROVE Sending'
    <2>1. UNCHANGED <<channels, left>> /\ \A t \in SignOut : at'[t] = at[t] /\ pc'[t] = pc[t]
      BY <1>2, <1>16 DEF LoadCounts
    <2> QED
      BY <1>1, <2>1 DEF IInv, Sending
  <1>17. ASSUME LoadFails PROVE Sending'
    <2>1. UNCHANGED <<channels, left>> /\ \A t \in SignOut : at'[t] = at[t] /\ pc'[t] = pc[t]
      BY <1>2, <1>17 DEF LoadFails
    <2> QED
      BY <1>1, <2>1 DEF IInv, Sending
  <1>18. ASSUME SendFetch PROVE Sending'
    <2>1. UNCHANGED <<channels, left>> /\ \A t \in SignOut : at'[t] = at[t] /\ pc'[t] = pc[t]
      BY <1>2, <1>18 DEF SendFetch
    <2> QED
      BY <1>1, <2>1 DEF IInv, Sending
  <1>19. ASSUME Send PROVE Sending'
    <2>1. UNCHANGED <<channels, left>> /\ \A t \in SignOut : at'[t] = at[t] /\ pc'[t] = pc[t]
      BY <1>2, <1>19 DEF Send
    <2> QED
      BY <1>1, <2>1 DEF IInv, Sending
  <1>20. ASSUME RunEnds PROVE Sending'
    <2>1. UNCHANGED <<channels, left>> /\ \A t \in SignOut : at'[t] = at[t] /\ pc'[t] = pc[t]
      BY <1>2, <1>20 DEF RunEnds
    <2> QED
      BY <1>1, <2>1 DEF IInv, Sending
  <1>21. ASSUME UnregisterAllLock PROVE Sending'
    <2>1. UNCHANGED <<channels, left>> /\ \A t \in SignOut : at'[t] = at[t] /\ pc'[t] = pc[t]
      BY <1>2, <1>21 DEF UnregisterAllLock
    <2> QED
      BY <1>1, <2>1 DEF IInv, Sending
  <1>22. ASSUME UnregisterAllClose PROVE Sending'
    <2>1. PICK m \in todo : ~Busy(m) /\ channels' = [channels EXCEPT ![m] = <<>>]
      BY <1>22 DEF UnregisterAllClose
    <2>2. m \in Conn /\ UNCHANGED <<pc, at, left>>
      BY <1>1, <1>22 DEF UnregisterAllClose, IInv, TypeOK
    <2>3. \A n \in Conn \ {m} : channels'[n] = channels[n]
      BY <1>2, <2>1, <2>2
    <2> QED
      BY <1>1, <2>1, <2>2, <2>3 DEF IInv, Sending, Busy
  <1>23. ASSUME UnregisterAllEnd PROVE Sending'
    <2>1. UNCHANGED <<channels, left>> /\ \A t \in SignOut : at'[t] = at[t] /\ pc'[t] = pc[t]
      BY <1>2, <1>23 DEF UnregisterAllEnd
    <2> QED
      BY <1>1, <2>1 DEF IInv, Sending
  <1>24. ASSUME Shutdown PROVE Sending'
    <2>1. UNCHANGED <<channels, left>> /\ \A t \in SignOut : at'[t] = at[t] /\ pc'[t] = pc[t]
      BY <1>2, <1>24 DEF Shutdown
    <2> QED
      BY <1>1, <2>1 DEF IInv, Sending
  <1>25. CASE UNCHANGED vars
    BY <1>1, <1>25 DEF IInv, Sending, vars, Present
  <1> QED
    BY <1>1, <1>3, <1>4, <1>5, <1>6, <1>7, <1>8, <1>9, <1>10, <1>11, <1>12, <1>13, <1>14,
       <1>15, <1>16, <1>17, <1>18, <1>19, <1>20, <1>21, <1>22, <1>23, <1>24, <1>25 DEF Next,
       ConnStep, SignOutStep, RunStep

LEMMA ReachableStep == IInv /\ [Next]_vars => Reachable'
  <1>1. SUFFICES ASSUME IInv, [Next]_vars PROVE Reachable'
    OBVIOUS
  <1>2. /\ pc \in [Process -> ConnState \cup SignOutState \cup RunState]
        /\ Conn \subseteq Process /\ SignOut \subseteq Process /\ Run \in Process
        /\ at \in [Process -> Conn \cup {None}] /\ messengers \in [User -> Conn \cup {None}]
        /\ channels \in [Conn -> Seq(Conn)] /\ left \in [SignOut -> Seq(Conn)]
        /\ closed \subseteq Conn /\ \A c \in Conn : UserOf[c] \in User
    BY <1>1, UserAssumption DEF IInv, TypeOK, Process
  <1> USE NoneAssumption, ProcessAssumption DEF Goto, Fetch, chans
  <1>3. ASSUME NEW c \in Conn, Register(c) PROVE Reachable'
    <2>1. /\ UNCHANGED <<channels, orphaned, closed, todo>> /\ pc'[c] = "fetched"
          /\ pc'[Run] = pc[Run] /\ \A d \in Conn \ {c} : at'[d] = at[d] /\ pc'[d] = pc[d]
      BY <1>2, <1>3 DEF Register
    <2>2. \A u \in User : messengers[u] # None => messengers'[u] = messengers[u]
      BY <1>2, <1>3 DEF Register
    <2>3. ASSUME NEW d \in Conn, InUse(d)', d \notin closed', d \notin orphaned'
          PROVE  /\ d # c /\ at[d] = messengers[UserOf[d]] /\ at[d] # None
                 /\ d \in Elements(channels[at[d]]) /\ (pc[Run] = "closing" => at[d] \in todo)
      <3>1. d # c
        BY <2>1, <2>3 DEF InUse
      <3> QED
        BY <1>1, <1>2, <2>1, <2>3, <3>1 DEF IInv, Reachable, Named, InUse
    <2> QED
      BY <1>2, <2>1, <2>2, <2>3 DEF Reachable
  <1>4. ASSUME NEW c \in Conn, RegisterChannel(c) PROVE Reachable'
    <2>1. /\ pc[c] = "fetched" /\ at[c] \in Conn
          /\ UNCHANGED <<messengers, at, closed, todo>> /\ pc'[Run] = pc[Run]
          /\ \A d \in Conn \ {c} : pc'[d] = pc[d]
      BY <1>1, <1>2, <1>4 DEF RegisterChannel, IInv, TypeOK
    <2>2. /\ channels'[at[c]] = Append(channels[at[c]], c)
          /\ \A n \in Conn \ {at[c]} : channels'[n] = channels[n]
      BY <1>2, <2>1, <1>4 DEF RegisterChannel
    <2>3. \A n \in Conn : Elements(channels'[n]) = Elements(channels[n]) \cup (IF n = at[c] THEN {c} ELSE {})
      <3>1. ASSUME NEW l \in Seq(Conn) PROVE Elements(Append(l, c)) = Elements(l) \cup {c}
        BY <3>1, AppendElements
      <3> QED
        BY <1>2, <2>1, <2>2, <3>1
    <2>4. orphaned \subseteq orphaned'
      BY <1>4 DEF RegisterChannel
    <2>5. ASSUME c \notin orphaned'
          PROVE  at[c] = messengers[UserOf[c]] /\ (pc[Run] = "closing" => at[c] \in todo)
      <3>1. at[c] \in Present /\ (pc[Run] = "closing" => at[c] \in todo)
        BY <1>4, <2>5 DEF RegisterChannel
      <3>2. UserOf[at[c]] = UserOf[c]
        BY <1>1, <2>1 DEF IInv, Named
      <3>3. PICK u \in User : messengers[u] = at[c] /\ messengers[u] # None
        BY <3>1 DEF Present
      <3> QED
        BY <1>1, <3>1, <3>2, <3>3 DEF IInv, Named
    <2>6. ASSUME NEW d \in Conn, InUse(d)', d \notin closed', d \notin orphaned'
          PROVE  /\ at[d] = messengers[UserOf[d]] /\ (pc[Run] = "closing" => at[d] \in todo)
                 /\ at[d] \in Conn /\ d \in Elements(channels'[at[d]])
      <3>1. CASE d = c
        BY <2>1, <2>3, <2>5, <2>6, <3>1
      <3>2. CASE d # c
        <4>1. /\ at[d] = messengers[UserOf[d]] /\ (pc[Run] = "closing" => at[d] \in todo)
              /\ at[d] \in Conn /\ d \in Elements(channels[at[d]])
          BY <1>1, <2>1, <2>4, <2>6, <3>2 DEF IInv, Reachable, Named, InUse
        <4> QED
          BY <2>3, <4>1
      <3> QED
        BY <3>1, <3>2
    <2> QED
      BY <2>1, <2>6 DEF Reachable
  <1>5. ASSUME NEW c \in Conn, Receive(c) PROVE Reachable'
    <2>1. /\ UNCHANGED <<messengers, channels, orphaned>> /\ closed \subseteq closed'
          /\ pc[Run] = pc'[Run] /\ todo' = todo
          /\ \A d \in Conn : at'[d] = at[d] /\ (InUse(d)' => InUse(d))
      BY <1>2, <1>5 DEF Receive, InUse
    <2> QED
      BY <1>1, <2>1 DEF IInv, Reachable
  <1>6. ASSUME NEW c \in Conn, ReceiveClosed(c) PROVE Reachable'
    <2>1. /\ UNCHANGED <<messengers, channels, orphaned>> /\ closed \subseteq closed'
          /\ pc[Run] = pc'[Run] /\ todo' = todo
          /\ \A d \in Conn : at'[d] = at[d] /\ (InUse(d)' => InUse(d))
      BY <1>2, <1>6 DEF ReceiveClosed, InUse
    <2> QED
      BY <1>1, <2>1 DEF IInv, Reachable
  <1>7. ASSUME NEW c \in Conn, Leave(c) PROVE Reachable'
    <2>1. /\ UNCHANGED <<messengers, channels, orphaned>> /\ closed \subseteq closed'
          /\ pc[Run] = pc'[Run] /\ todo' = todo
          /\ \A d \in Conn : at'[d] = at[d] /\ (InUse(d)' => InUse(d))
      BY <1>2, <1>7 DEF Leave, InUse
    <2> QED
      BY <1>1, <2>1 DEF IInv, Reachable
  <1>8. ASSUME NEW c \in Conn, UnregisterLock(c) PROVE Reachable'
    <2>1. /\ UNCHANGED <<messengers, channels, orphaned>> /\ closed \subseteq closed'
          /\ pc[Run] = pc'[Run] /\ todo' = todo
          /\ \A d \in Conn : at'[d] = at[d] /\ (InUse(d)' => InUse(d))
      BY <1>2, <1>8 DEF UnregisterLock, InUse
    <2> QED
      BY <1>1, <2>1 DEF IInv, Reachable
  <1>9. ASSUME NEW c \in Conn, UnregisterChannel(c) PROVE Reachable'
    <2> DEFINE m == messengers[UserOf[c]]
    <2>1. m \in Conn /\ TypeOK /\ Registered /\ RemoveChannel(m, c) /\ pc[Run] # "closing"
      BY <1>1, <1>2, <1>9 DEF IInv, LockHeld, UnregisterChannel
    <2>2. /\ UNCHANGED <<at, orphaned, todo>> /\ pc'[Run] = pc[Run]
          /\ \A d \in Conn : InUse(d)' => InUse(d) /\ d # c
      BY <1>2, <1>9 DEF UnregisterChannel, InUse
    <2>3. /\ channels'[m] = <<>> => messengers' = [messengers EXCEPT ![UserOf[c]] = None]
          /\ channels'[m] # <<>> => messengers' = messengers
      BY <1>9 DEF UnregisterChannel
    <2> HIDE DEF m
    <2>4. /\ closed' \in {closed, closed \cup {c}}
          /\ Elements(channels'[m]) = Elements(channels[m]) \ {c}
          /\ \A n \in Conn \ {m} : channels'[n] = channels[n]
      BY <2>1, RemoveType
    <2>5. ASSUME NEW d \in Conn, InUse(d)', d \notin closed', d \notin orphaned'
          PROVE  /\ at'[d] = messengers'[UserOf[d]] /\ d \in Elements(channels'[at'[d]])
      <3>1. /\ d # c /\ at[d] = messengers[UserOf[d]] /\ d \in Elements(channels[at[d]])
            /\ at[d] \in Conn
        BY <1>1, <2>2, <2>4, <2>5 DEF IInv, Reachable, Named, InUse
      <3>2. d \in Elements(channels'[at[d]])
        BY <2>4, <3>1
      <3>3. channels'[at[d]] # <<>>
        BY <3>2 DEF Elements
      <3>4. UserOf[d] # UserOf[c] \/ at[d] = m
        BY <3>1 DEF m
      <3>5. messengers'[UserOf[d]] = messengers[UserOf[d]]
        BY <1>2, <2>3, <3>3, <3>4
      <3> QED
        BY <2>2, <3>1, <3>2, <3>5
    <2> QED
      BY <2>1, <2>2, <2>5 DEF Reachable
  <1>10. ASSUME NEW c \in Conn, Drain(c) PROVE Reachable'
    <2>1. /\ UNCHANGED <<messengers, channels, orphaned>> /\ closed \subseteq closed'
          /\ pc[Run] = pc'[Run] /\ todo' = todo
          /\ \A d \in Conn : at'[d] = at[d] /\ (InUse(d)' => InUse(d))
      BY <1>2, <1>10 DEF Drain, InUse
    <2> QED
      BY <1>1, <2>1 DEF IInv, Reachable
  <1>11. ASSUME NEW s \in SignOut, SignOutFetch(s) PROVE Reachable'
    <2>1. /\ UNCHANGED <<messengers, channels, orphaned>> /\ closed \subseteq closed'
          /\ pc[Run] = pc'[Run] /\ todo' = todo
          /\ \A d \in Conn : at'[d] = at[d] /\ (InUse(d)' => InUse(d))
      BY <1>2, <1>11 DEF SignOutFetch, InUse
    <2> QED
      BY <1>1, <2>1 DEF IInv, Reachable
  <1>12. ASSUME NEW s \in SignOut, SignOutLock(s) PROVE Reachable'
    <2>1. /\ UNCHANGED <<messengers, channels, orphaned>> /\ closed \subseteq closed'
          /\ pc[Run] = pc'[Run] /\ todo' = todo
          /\ \A d \in Conn : at'[d] = at[d] /\ (InUse(d)' => InUse(d))
      BY <1>2, <1>12 DEF SignOutLock, InUse
    <2> QED
      BY <1>1, <2>1 DEF IInv, Reachable
  <1>13. ASSUME NEW s \in SignOut, SignOutSend(s) PROVE Reachable'
    <2>1. /\ UNCHANGED <<messengers, channels, orphaned>> /\ closed \subseteq closed'
          /\ pc[Run] = pc'[Run] /\ todo' = todo
          /\ \A d \in Conn : at'[d] = at[d] /\ (InUse(d)' => InUse(d))
      BY <1>2, <1>13 DEF SignOutSend, InUse
    <2> QED
      BY <1>1, <2>1 DEF IInv, Reachable
  <1>14. ASSUME Tick PROVE Reachable'
    <2>1. /\ UNCHANGED <<messengers, channels, orphaned, closed>> /\ pc'[Run] # "closing"
          /\ \A d \in Conn : at'[d] = at[d] /\ pc'[d] = pc[d]
      BY <1>2, <1>14 DEF Tick
    <2> QED
      BY <1>1, <2>1 DEF IInv, Reachable, InUse
  <1>15. ASSUME Resume PROVE Reachable'
    <2>1. /\ UNCHANGED <<messengers, channels, orphaned, closed>> /\ pc'[Run] # "closing"
          /\ \A d \in Conn : at'[d] = at[d] /\ pc'[d] = pc[d]
      BY <1>2, <1>15 DEF Resume
    <2> QED
      BY <1>1, <2>1 DEF IInv, Reachable, InUse
  <1>16. ASSUME LoadCounts PROVE Reachable'
    <2>1. /\ UNCHANGED <<messengers, channels, orphaned, closed>> /\ pc'[Run] # "closing"
          /\ \A d \in Conn : at'[d] = at[d] /\ pc'[d] = pc[d]
      BY <1>2, <1>16 DEF LoadCounts
    <2> QED
      BY <1>1, <2>1 DEF IInv, Reachable, InUse
  <1>17. ASSUME LoadFails PROVE Reachable'
    <2>1. /\ UNCHANGED <<messengers, channels, orphaned, closed>> /\ pc'[Run] # "closing"
          /\ \A d \in Conn : at'[d] = at[d] /\ pc'[d] = pc[d]
      BY <1>2, <1>17 DEF LoadFails
    <2> QED
      BY <1>1, <2>1 DEF IInv, Reachable, InUse
  <1>18. ASSUME SendFetch PROVE Reachable'
    <2>1. /\ UNCHANGED <<messengers, channels, orphaned, closed>> /\ pc'[Run] # "closing"
          /\ \A d \in Conn : at'[d] = at[d] /\ pc'[d] = pc[d]
      BY <1>2, <1>18 DEF SendFetch
    <2> QED
      BY <1>1, <2>1 DEF IInv, Reachable, InUse
  <1>19. ASSUME Send PROVE Reachable'
    <2>1. /\ UNCHANGED <<messengers, channels, orphaned, closed>> /\ pc'[Run] # "closing"
          /\ \A d \in Conn : at'[d] = at[d] /\ pc'[d] = pc[d]
      BY <1>2, <1>19 DEF Send
    <2> QED
      BY <1>1, <2>1 DEF IInv, Reachable, InUse
  <1>20. ASSUME RunEnds PROVE Reachable'
    <2>1. /\ UNCHANGED <<messengers, channels, orphaned, closed>> /\ pc'[Run] # "closing"
          /\ \A d \in Conn : at'[d] = at[d] /\ pc'[d] = pc[d]
      BY <1>2, <1>20 DEF RunEnds
    <2> QED
      BY <1>1, <2>1 DEF IInv, Reachable, InUse
  <1>21. ASSUME UnregisterAllLock PROVE Reachable'
    <2>1. /\ UNCHANGED <<messengers, channels, at, orphaned, closed>> /\ todo' = Present
          /\ \A d \in Conn : pc'[d] = pc[d]
      BY <1>2, <1>21 DEF UnregisterAllLock
    <2>2. ASSUME NEW d \in Conn, InUse(d), at[d] = messengers[UserOf[d]] PROVE at[d] \in Present
      BY <1>1, <1>2, <2>2 DEF IInv, Named, Present, InUse
    <2> QED
      BY <1>1, <2>1, <2>2 DEF IInv, Reachable, InUse
  <1>22. ASSUME UnregisterAllClose PROVE Reachable'
    <2>1. PICK m \in todo : /\ closed' = closed \cup {channels[m][i] : i \in DOMAIN channels[m]}
                            /\ channels' = [channels EXCEPT ![m] = <<>>]
                            /\ todo' = todo \ {m}
      BY <1>22 DEF UnregisterAllClose
    <2>2. m \in Conn /\ UNCHANGED <<messengers, pc, at, orphaned>>
      BY <1>1, <1>22 DEF UnregisterAllClose, IInv, TypeOK
    <2>3. closed' = closed \cup Elements(channels[m])
      <3>1. DOMAIN channels[m] = 1..Len(channels[m])
        BY <1>2, <2>2
      <3> QED
        BY <2>1, <3>1 DEF Elements
    <2>4. \A n \in Conn \ {m} : channels'[n] = channels[n]
      BY <1>2, <2>1, <2>2
    <2>5. ASSUME NEW d \in Conn, InUse(d)', d \notin closed', d \notin orphaned'
          PROVE  /\ at'[d] = messengers'[UserOf[d]] /\ d \in Elements(channels'[at'[d]])
                 /\ (pc'[Run] = "closing" => at'[d] \in todo')
      <3>1. /\ at[d] = messengers[UserOf[d]] /\ d \in Elements(channels[at[d]])
            /\ (pc[Run] = "closing" => at[d] \in todo) /\ at[d] \in Conn
        BY <1>1, <2>2, <2>3, <2>5 DEF IInv, Reachable, Named, InUse
      <3>2. at[d] # m
        BY <2>3, <2>5, <3>1
      <3> QED
        BY <2>1, <2>2, <2>4, <3>1, <3>2
    <2> QED
      BY <2>5 DEF Reachable
  <1>23. ASSUME UnregisterAllEnd PROVE Reachable'
    <2>1. /\ UNCHANGED <<at, orphaned, closed>> /\ \A d \in Conn : pc'[d] = pc[d]
          /\ pc[Run] = "closing" /\ todo = {}
      BY <1>2, <1>23 DEF UnregisterAllEnd
    <2> QED
      BY <1>1, <2>1 DEF IInv, Reachable, InUse
  <1>24. ASSUME Shutdown PROVE Reachable'
    <2>1. /\ UNCHANGED <<messengers, channels, orphaned>> /\ closed \subseteq closed'
          /\ pc[Run] = pc'[Run] /\ todo' = todo
          /\ \A d \in Conn : at'[d] = at[d] /\ (InUse(d)' => InUse(d))
      BY <1>2, <1>24 DEF Shutdown, InUse
    <2> QED
      BY <1>1, <2>1 DEF IInv, Reachable
  <1>25. CASE UNCHANGED vars
    BY <1>1, <1>25 DEF IInv, Reachable, InUse, vars, Present
  <1> QED
    BY <1>1, <1>3, <1>4, <1>5, <1>6, <1>7, <1>8, <1>9, <1>10, <1>11, <1>12, <1>13, <1>14,
       <1>15, <1>16, <1>17, <1>18, <1>19, <1>20, <1>21, <1>22, <1>23, <1>24, <1>25 DEF Next,
       ConnStep, SignOutStep, RunStep

LEMMA DrainingStep == IInv /\ [Next]_vars => DrainingIsClosed'
  <1>1. SUFFICES ASSUME IInv, [Next]_vars PROVE DrainingIsClosed'
    OBVIOUS
  <1>2. /\ pc \in [Process -> ConnState \cup SignOutState \cup RunState]
        /\ Conn \subseteq Process /\ SignOut \subseteq Process /\ Run \in Process
        /\ at \in [Process -> Conn \cup {None}] /\ messengers \in [User -> Conn \cup {None}]
        /\ channels \in [Conn -> Seq(Conn)] /\ left \in [SignOut -> Seq(Conn)]
        /\ closed \subseteq Conn /\ \A c \in Conn : UserOf[c] \in User
    BY <1>1, UserAssumption DEF IInv, TypeOK, Process
  <1> USE NoneAssumption, ProcessAssumption DEF Goto, Fetch, chans
  <1>3. ASSUME NEW c \in Conn, Register(c) PROVE DrainingIsClosed'
    <2>1. /\ closed \subseteq closed' /\ orphaned \subseteq orphaned'
          /\ \A d \in Conn : pc'[d] = "draining" => pc[d] = "draining"
      BY <1>2, <1>3 DEF Register
    <2> QED
      BY <1>1, <2>1 DEF IInv, DrainingIsClosed
  <1>4. ASSUME NEW c \in Conn, RegisterChannel(c) PROVE DrainingIsClosed'
    <2>1. /\ closed \subseteq closed' /\ orphaned \subseteq orphaned'
          /\ \A d \in Conn : pc'[d] = "draining" => pc[d] = "draining"
      BY <1>2, <1>4 DEF RegisterChannel
    <2> QED
      BY <1>1, <2>1 DEF IInv, DrainingIsClosed
  <1>5. ASSUME NEW c \in Conn, Receive(c) PROVE DrainingIsClosed'
    <2>1. /\ closed \subseteq closed' /\ orphaned \subseteq orphaned'
          /\ \A d \in Conn : pc'[d] = "draining" => pc[d] = "draining"
      BY <1>2, <1>5 DEF Receive
    <2> QED
      BY <1>1, <2>1 DEF IInv, DrainingIsClosed
  <1>6. ASSUME NEW c \in Conn, ReceiveClosed(c) PROVE DrainingIsClosed'
    <2>1. /\ closed \subseteq closed' /\ orphaned \subseteq orphaned'
          /\ \A d \in Conn : pc'[d] = "draining" => pc[d] = "draining"
      BY <1>2, <1>6 DEF ReceiveClosed
    <2> QED
      BY <1>1, <2>1 DEF IInv, DrainingIsClosed
  <1>7. ASSUME NEW c \in Conn, Leave(c) PROVE DrainingIsClosed'
    <2>1. /\ closed \subseteq closed' /\ orphaned \subseteq orphaned'
          /\ \A d \in Conn : pc'[d] = "draining" => pc[d] = "draining"
      BY <1>2, <1>7 DEF Leave
    <2> QED
      BY <1>1, <2>1 DEF IInv, DrainingIsClosed
  <1>8. ASSUME NEW c \in Conn, UnregisterLock(c) PROVE DrainingIsClosed'
    <2>1. /\ UNCHANGED <<closed, orphaned>> /\ pc[c] = "leaving"
          /\ pc'[c] = "draining" => messengers[UserOf[c]] = None
          /\ \A d \in Conn \ {c} : pc'[d] = pc[d]
      BY <1>2, <1>8 DEF UnregisterLock
    <2>2. InUse(c) /\ at[c] # None
      BY <1>1, <2>1 DEF InUse, IInv, Named
    <2>3. messengers[UserOf[c]] = None => c \in closed \cup orphaned
      BY <1>1, <2>2 DEF IInv, Reachable
    <2> QED
      BY <1>1, <2>1, <2>3 DEF IInv, DrainingIsClosed
  <1>9. ASSUME NEW c \in Conn, UnregisterChannel(c) PROVE DrainingIsClosed'
    <2> DEFINE m == messengers[UserOf[c]]
    <2>1. m \in Conn /\ TypeOK /\ Registered /\ RemoveChannel(m, c)
      BY <1>1, <1>2, <1>9 DEF IInv, LockHeld, UnregisterChannel
    <2>2. InUse(c) /\ orphaned' = orphaned /\ \A d \in Conn \ {c} : pc'[d] = pc[d]
      BY <1>2, <1>9 DEF UnregisterChannel, InUse
    <2>3. c \in closed \cup orphaned \/ c \in Elements(channels[m])
      BY <1>1, <2>2 DEF IInv, Reachable
    <2> HIDE DEF m
    <2>4. closed \subseteq closed' /\ (c \in Elements(channels[m]) => c \in closed')
      BY <2>1, RemoveType
    <2> QED
      BY <1>1, <2>2, <2>3, <2>4 DEF IInv, DrainingIsClosed
  <1>10. ASSUME NEW c \in Conn, Drain(c) PROVE DrainingIsClosed'
    <2>1. /\ closed \subseteq closed' /\ orphaned \subseteq orphaned'
          /\ \A d \in Conn : pc'[d] = "draining" => pc[d] = "draining"
      BY <1>2, <1>10 DEF Drain
    <2> QED
      BY <1>1, <2>1 DEF IInv, DrainingIsClosed
  <1>11. ASSUME NEW s \in SignOut, SignOutFetch(s) PROVE DrainingIsClosed'
    <2>1. /\ closed \subseteq closed' /\ orphaned \subseteq orphaned'
          /\ \A d \in Conn : pc'[d] = "draining" => pc[d] = "draining"
      BY <1>2, <1>11 DEF SignOutFetch
    <2> QED
      BY <1>1, <2>1 DEF IInv, DrainingIsClosed
  <1>12. ASSUME NEW s \in SignOut, SignOutLock(s) PROVE DrainingIsClosed'
    <2>1. /\ closed \subseteq closed' /\ orphaned \subseteq orphaned'
          /\ \A d \in Conn : pc'[d] = "draining" => pc[d] = "draining"
      BY <1>2, <1>12 DEF SignOutLock
    <2> QED
      BY <1>1, <2>1 DEF IInv, DrainingIsClosed
  <1>13. ASSUME NEW s \in SignOut, SignOutSend(s) PROVE DrainingIsClosed'
    <2>1. /\ closed \subseteq closed' /\ orphaned \subseteq orphaned'
          /\ \A d \in Conn : pc'[d] = "draining" => pc[d] = "draining"
      BY <1>2, <1>13 DEF SignOutSend
    <2> QED
      BY <1>1, <2>1 DEF IInv, DrainingIsClosed
  <1>14. ASSUME Tick PROVE DrainingIsClosed'
    <2>1. /\ closed \subseteq closed' /\ orphaned \subseteq orphaned'
          /\ \A d \in Conn : pc'[d] = "draining" => pc[d] = "draining"
      BY <1>2, <1>14 DEF Tick
    <2> QED
      BY <1>1, <2>1 DEF IInv, DrainingIsClosed
  <1>15. ASSUME Resume PROVE DrainingIsClosed'
    <2>1. /\ closed \subseteq closed' /\ orphaned \subseteq orphaned'
          /\ \A d \in Conn : pc'[d] = "draining" => pc[d] = "draining"
      BY <1>2, <1>15 DEF Resume
    <2> QED
      BY <1>1, <2>1 DEF IInv, DrainingIsClosed
  <1>16. ASSUME LoadCounts PROVE DrainingIsClosed'
    <2>1. /\ closed \subseteq closed' /\ orphaned \subseteq orphaned'
          /\ \A d \in Conn : pc'[d] = "draining" => pc[d] = "draining"
      BY <1>2, <1>16 DEF LoadCounts
    <2> QED
      BY <1>1, <2>1 DEF IInv, DrainingIsClosed
  <1>17. ASSUME LoadFails PROVE DrainingIsClosed'
    <2>1. /\ closed \subseteq closed' /\ orphaned \subseteq orphaned'
          /\ \A d \in Conn : pc'[d] = "draining" => pc[d] = "draining"
      BY <1>2, <1>17 DEF LoadFails
    <2> QED
      BY <1>1, <2>1 DEF IInv, DrainingIsClosed
  <1>18. ASSUME SendFetch PROVE DrainingIsClosed'
    <2>1. /\ closed \subseteq closed' /\ orphaned \subseteq orphaned'
          /\ \A d \in Conn : pc'[d] = "draining" => pc[d] = "draining"
      BY <1>2, <1>18 DEF SendFetch
    <2> QED
      BY <1>1, <2>1 DEF IInv, DrainingIsClosed
  <1>19. ASSUME Send PROVE DrainingIsClosed'
    <2>1. /\ closed \subseteq closed' /\ orphaned \subseteq orphaned'
          /\ \A d \in Conn : pc'[d] = "draining" => pc[d] = "draining"
      BY <1>2, <1>19 DEF Send
    <2> QED
      BY <1>1, <2>1 DEF IInv, DrainingIsClosed
  <1>20. ASSUME RunEnds PROVE DrainingIsClosed'
    <2>1. /\ closed \subseteq closed' /\ orphaned \subseteq orphaned'
          /\ \A d \in Conn : pc'[d] = "draining" => pc[d] = "draining"
      BY <1>2, <1>20 DEF RunEnds
    <2> QED
      BY <1>1, <2>1 DEF IInv, DrainingIsClosed
  <1>21. ASSUME UnregisterAllLock PROVE DrainingIsClosed'
    <2>1. /\ closed \subseteq closed' /\ orphaned \subseteq orphaned'
          /\ \A d \in Conn : pc'[d] = "draining" => pc[d] = "draining"
      BY <1>2, <1>21 DEF UnregisterAllLock
    <2> QED
      BY <1>1, <2>1 DEF IInv, DrainingIsClosed
  <1>22. ASSUME UnregisterAllClose PROVE DrainingIsClosed'
    <2>1. /\ closed \subseteq closed' /\ orphaned \subseteq orphaned'
          /\ \A d \in Conn : pc'[d] = "draining" => pc[d] = "draining"
      BY <1>2, <1>22 DEF UnregisterAllClose
    <2> QED
      BY <1>1, <2>1 DEF IInv, DrainingIsClosed
  <1>23. ASSUME UnregisterAllEnd PROVE DrainingIsClosed'
    <2>1. /\ closed \subseteq closed' /\ orphaned \subseteq orphaned'
          /\ \A d \in Conn : pc'[d] = "draining" => pc[d] = "draining"
      BY <1>2, <1>23 DEF UnregisterAllEnd
    <2> QED
      BY <1>1, <2>1 DEF IInv, DrainingIsClosed
  <1>24. ASSUME Shutdown PROVE DrainingIsClosed'
    <2>1. /\ closed \subseteq closed' /\ orphaned \subseteq orphaned'
          /\ \A d \in Conn : pc'[d] = "draining" => pc[d] = "draining"
      BY <1>2, <1>24 DEF Shutdown
    <2> QED
      BY <1>1, <2>1 DEF IInv, DrainingIsClosed
  <1>25. CASE UNCHANGED vars
    BY <1>1, <1>25 DEF IInv, DrainingIsClosed, vars, Present
  <1> QED
    BY <1>1, <1>3, <1>4, <1>5, <1>6, <1>7, <1>8, <1>9, <1>10, <1>11, <1>12, <1>13, <1>14,
       <1>15, <1>16, <1>17, <1>18, <1>19, <1>20, <1>21, <1>22, <1>23, <1>24, <1>25 DEF Next,
       ConnStep, SignOutStep, RunStep

LEMMA InvInit == Init => IInv
  <1>1. SUFFICES ASSUME Init PROVE IInv
    OBVIOUS
  <1>2. TypeOK
    BY <1>1, TypeInit
  <1> USE ProcessAssumption, NoneAssumption DEF Process
  <1>3. /\ \A c \in Conn : pc[c] = "new" /\ channels[c] = <<>>
        /\ \A s \in SignOut : pc[s] = "new"
        /\ pc[Run] = "waiting" /\ closed = {} /\ \A u \in User : messengers[u] = None
    BY <1>1 DEF Init
  <1>4. Elements(<<>>) = {} /\ Injective(<<>>)
    BY DEF Elements, Injective
  <1>5. LockHeld /\ Named /\ Sending /\ Reachable /\ DrainingIsClosed /\ Woken
    BY <1>3 DEF LockHeld, Named, Sending, Reachable, InUse, DrainingIsClosed, Woken
  <1>6. Registered
    BY <1>3, <1>4 DEF Registered
  <1> QED
    BY <1>2, <1>5, <1>6 DEF IInv

LEMMA InvAlways == Spec => []IInv
  <1>1. IInv /\ [Next]_vars => IInv'
    BY TypeStep, LockStep, NamedStep, WokenStep, RegisteredStep, SendingStep, ReachableStep,
       DrainingStep DEF IInv
  <1> QED
    BY <1>1, InvInit, PTL DEF Spec
-----------------------------------------------------------------------------
(* The theorems.                                                           *)

\* The states of the handlers, of Run and of its loops, and what each of them holds.
THEOREM TypeCorrect == Spec => []TypeOK
  <1>1. IInv => TypeOK
    BY DEF IInv
  <1> QED
    BY <1>1, InvAlways, PTL

\* No event is sent to a closed channel and none is closed twice, in any order of
\* registrations, sends, sign outs and the closing of all (messenger.go:34-77): what a
\* sign out has left is still registered, since it keeps the mutex of the messenger.
THEOREM NeverSentToClosed == Spec => []RegisteredIsOpen
  <1>1. ASSUME IInv PROVE RegisteredIsOpen
    <2>1. /\ \A m \in Conn : DOMAIN channels[m] = 1..Len(channels[m]) /\ channels[m] \in Seq(Conn)
          /\ \A s \in SignOut : DOMAIN left[s] = 1..Len(left[s]) /\ left[s] \in Seq(Conn)
      BY <1>1 DEF IInv, TypeOK
    <2>2. ASSUME NEW m \in Conn, NEW i \in DOMAIN channels[m], NEW k \in DOMAIN channels[m]
          PROVE  channels[m][i] \notin closed /\ (channels[m][i] = channels[m][k] => i = k)
      BY <1>1, <2>1 DEF IInv, Registered, Elements, Injective
    <2>3. ASSUME NEW s \in SignOut, pc[s] = "sending", NEW i \in DOMAIN left[s]
          PROVE  left[s][i] \notin closed
      <3>1. left[s][i] \in Elements(left[s]) /\ left[s][i] \in Conn
        BY <2>1 DEF Elements
      <3>2. at[s] \in Conn /\ left[s][i] \in Elements(channels[at[s]])
        BY <1>1, <2>3, <3>1 DEF IInv, Sending
      <3> QED
        BY <1>1, <3>1, <3>2 DEF IInv, Registered
    <2> QED
      BY <2>2, <2>3 DEF RegisteredIsOpen
  <1> QED
    BY <1>1, InvAlways, PTL

\* Run never sleeps on while a user listens (manager_run.go:47-58).
THEOREM RunIsWoken == Spec => []NoLostWakeup
  <1>1. ASSUME IInv PROVE NoLostWakeup
    BY <1>1, Zenon DEF IInv, Woken, NoLostWakeup
  <1> QED
    BY <1>1, InvAlways, PTL

\* A handler is found under its user by the next SendMessage, and by its own Unregister,
\* however many others of that user come and go (manager.go:37-62).
THEOREM ListenersAreFound == Spec => []ListeningIsReachable
  <1>1. ASSUME IInv PROVE ListeningIsReachable
    <2>1. \A c \in Conn : InUse(c) => DOMAIN channels[at[c]] = 1..Len(channels[at[c]])
      BY <1>1 DEF IInv, TypeOK, Named, InUse
    <2> QED
      BY <1>1, <2>1 DEF IInv, Reachable, InUse, ListeningIsReachable, Elements
  <1> QED
    BY <1>1, InvAlways, PTL

\* The goroutine that drains the channel of a handler that left (events.go:52-58) waits
\* for nothing but events that are there: the channel is closed, unless it was orphaned.
THEOREM DrainersEnd == Spec => []DrainingIsClosed
  <1>1. IInv => DrainingIsClosed
    BY DEF IInv
  <1> QED
    BY <1>1, InvAlways, PTL
=============================================================================
