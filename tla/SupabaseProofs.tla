---------------------------- MODULE SupabaseProofs ----------------------------
(***************************************************************************)
(* Theorems about SupabaseSignaling, for any number of connects and lost   *)
(* connections: its types, that no socket is left behind, that no token is *)
(* pushed before the join, and that the handlers hear the truth.           *)
(*                                                                         *)
(* And about the provider that its threads ask for tokens, Auth, for any   *)
(* number of callers and every lifetime and clock: its types, that a token *)
(* is served alive, and that grants are apart.                             *)
(***************************************************************************)
EXTENDS Supabase, Auth, TLAPS

InSession == {"opened"} \cup InLoop
Socks == {"none", "open", "cut", "closed"}
Rooms == {"none", "asked", "joined", "told", "refused", "gone"}

\* The variables that the threads are known by.
ThreadTypes ==
  /\ connects \in 0 .. MaxConnects
  /\ ws \in Threads \cup {Nobody} /\ joinRef \in Threads \cup {Nobody}
  /\ at \in [Threads -> Places] /\ sock \in [Threads -> Socks] /\ room \in [Threads -> Rooms]
  /\ ok \in [Threads -> BOOLEAN]

\* The others.
OtherTypes ==
  /\ closer \in {"idle", "joining", "closed"} /\ faults \in 0 .. MaxFaults
  /\ note \in {"none", "open", "error", "closed"}
  /\ stop \in BOOLEAN /\ joined \in BOOLEAN
  /\ zombie \in BOOLEAN /\ gaveUp \in BOOLEAN /\ early \in BOOLEAN

\* A thread that was not started has no socket, nor has one that is in no session.
Sockets ==
  \A k \in Threads :
    /\ k > connects => at[k] = "none"
    /\ at[k] \in {"none", "connecting", "backoff", "dead"} => sock[k] \in {"none", "closed"}

\* While no thread runs beside another, the last one started is the only one, the socket
\* and the ref are its own in a session, and the join that is confirmed is its own.
Alone ==
  /\ \A k \in Threads : Alive(k) => k = connects
  /\ \A k \in Threads : at[k] \in InSession => ws = k /\ joinRef = k
  /\ joined => ws # Nobody /\ at[ws] \in InLoop /\ room[ws] \in {"told", "gone"}
  /\ ~early

IInv == ThreadTypes /\ OtherTypes /\ Sockets /\ (~zombie => Alone)

\* It holds initially.
LEMMA InitIInv == Init => IInv
<1> SUFFICES ASSUME Init PROVE IInv
  OBVIOUS
<1>1. ThreadTypes
  BY BoundsAssumption DEF Init, ThreadTypes, Threads, Nobody, Places, InLoop, Socks, Rooms
<1>2. OtherTypes
  <2>1. faults \in 0 .. MaxFaults
    BY BoundsAssumption DEF Init
  <2> QED
    BY <2>1 DEF Init, OtherTypes
<1>3. Sockets /\ Alone
  BY DEF Init, Sockets, Alone, Alive, InSession, InLoop
<1> QED
  BY <1>1, <1>2, <1>3 DEF IInv

\* Closing a socket leaves it none or closed, and the others alone.
LEMMA ShutSocket ==
  ASSUME ThreadTypes, NEW k \in Threads
  PROVE  /\ Shut(k) \in [Threads -> Socks] /\ Shut(k)[k] \in {"none", "closed"}
         /\ \A j \in Threads : Shut(k)[j] = sock[j] \/ Shut(k)[j] = "closed"
  BY DEF ThreadTypes, Shut, Socks

\* Every step keeps the types of the threads.
LEMMA ThreadTypesStep ==
  ASSUME ThreadTypes, OtherTypes, [Next]_vars
  PROVE  ThreadTypes'
<1> USE DEF ThreadTypes, Places, InLoop
<1>1. CASE CloseBegins
  BY <1>1, ShutSocket DEF CloseBegins
<1>2. CASE CloseEnds
  BY <1>2 DEF CloseEnds, shared
<1>3. ASSUME NEW k \in Threads, Connect(k) PROVE ThreadTypes'
  BY <1>3, BoundsAssumption DEF Connect, Threads
<1>4. ASSUME NEW k \in Threads, SocketOpens(k) PROVE ThreadTypes'
  BY <1>4 DEF SocketOpens, caller, Socks, Rooms
<1>5. ASSUME NEW k \in Threads, SocketFails(k) \/ Recv(k) \/ Manages(k) PROVE ThreadTypes'
  BY <1>5 DEF SocketFails, Recv, Manages, caller, shared
<1>6. ASSUME NEW k \in Threads, Joins(k) PROVE ThreadTypes'
  BY <1>6 DEF Joins, caller, shared, Places, Rooms
<1>7. ASSUME NEW k \in Threads, Defers(k) PROVE ThreadTypes'
  BY <1>7, ShutSocket DEF Defers, caller, shared
<1>8. ASSUME NEW k \in Threads, SessionEnds(k) PROVE ThreadTypes'
  BY <1>8, ShutSocket DEF SessionEnds, caller
<1>9. ASSUME NEW k \in Threads, HandleError(k) PROVE ThreadTypes'
  BY <1>9 DEF HandleError, caller, shared, Places, Rooms
<1>10. ASSUME NEW k \in Threads, NEW ref \in {k, Nobody}, NEW status \in {"ok", "error"},
              HandleReply(k, ref, status)
       PROVE  ThreadTypes'
  <2>3. ok' \in [Threads -> BOOLEAN]
    BY <1>10 DEF HandleReply, OtherTypes
  <2>4. room' \in [Threads -> Rooms] /\ at' \in [Threads -> Places]
    BY <1>10 DEF HandleReply, Rooms
  <2> QED
    BY <1>10, <2>3, <2>4 DEF HandleReply, caller
<1>11. ASSUME NEW k \in Threads, HeartbeatFails(k) PROVE ThreadTypes'
  BY <1>11, ShutSocket DEF HeartbeatFails, caller, shared
<1>12. ASSUME NEW k \in Threads, HeartbeatRefreshes(k) PROVE ThreadTypes'
  BY <1>12 DEF HeartbeatRefreshes, caller, shared
<1>13. ASSUME NEW k \in Threads, NEW answer \in {"joined", "refused"}, ServerAnswers(k, answer)
       PROVE  ThreadTypes'
  BY <1>13 DEF ServerAnswers, caller, shared, Rooms
<1>14. ASSUME NEW k \in Threads, ServerCloses(k) \/ LinkCut(k) PROVE ThreadTypes'
  BY <1>14, ShutSocket DEF ServerCloses, LinkCut, caller, shared, Socks
<1>15. ASSUME NEW k \in Threads, Opens(k) PROVE ThreadTypes'
  <2>1. ok' \in [Threads -> BOOLEAN]
    BY <1>15 DEF Opens, OtherTypes
  <2> QED
    BY <1>15, <2>1 DEF Opens, caller, shared
<1>16. CASE UNCHANGED vars
  BY <1>16 DEF vars, caller, shared
<1> QED
  BY <1>1, <1>2, <1>3, <1>4, <1>5, <1>6, <1>7, <1>8, <1>9, <1>10, <1>11, <1>12, <1>13, <1>14, <1>15,
     <1>16
     DEF Next, Runs

\* Every step keeps the types of the others.
LEMMA OtherTypesStep ==
  ASSUME OtherTypes, [Next]_vars
  PROVE  OtherTypes'
<1>1. faults' \in 0 .. MaxFaults
  <2>1. UNCHANGED faults \/ (faults < MaxFaults /\ faults' = faults + 1)
    BY DEF Next, Runs, CloseBegins, CloseEnds, Connect, SocketOpens, SocketFails, Joins, Defers, Recv,
           Opens, HandleReply, HandleError, SessionEnds, Manages, HeartbeatFails, HeartbeatRefreshes,
           ServerAnswers, ServerCloses, LinkCut, vars
  <2> QED
    BY <2>1, BoundsAssumption DEF OtherTypes
<1>2. closer' \in {"idle", "joining", "closed"}
  <2>1. closer' = closer \/ closer' = "idle" \/ closer' = "joining" \/ closer' = "closed"
    BY DEF Next, Runs, CloseBegins, CloseEnds, Connect, SocketOpens, SocketFails, Joins, Defers, Recv,
           Opens, HandleReply, HandleError, SessionEnds, Manages, HeartbeatFails, HeartbeatRefreshes,
           ServerAnswers, ServerCloses, LinkCut, vars, caller
  <2> QED
    BY <2>1 DEF OtherTypes
<1>3. note' \in {"none", "open", "error", "closed"}
  <2>1. note' = note \/ note' = "open" \/ note' = "error" \/ note' = "closed"
    BY DEF Next, Runs, CloseBegins, CloseEnds, Connect, SocketOpens, SocketFails, Joins, Defers, Recv,
           Opens, HandleReply, HandleError, SessionEnds, Manages, HeartbeatFails, HeartbeatRefreshes,
           ServerAnswers, ServerCloses, LinkCut, vars
  <2> QED
    BY <2>1 DEF OtherTypes
<1>4. stop' \in BOOLEAN
  <2>1. UNCHANGED stop \/ stop' = TRUE \/ stop' = FALSE
    BY DEF Next, Runs, CloseBegins, CloseEnds, Connect, SocketOpens, SocketFails, Joins, Defers, Recv,
           Opens, HandleReply, HandleError, SessionEnds, Manages, HeartbeatFails, HeartbeatRefreshes,
           ServerAnswers, ServerCloses, LinkCut, vars, shared
  <2> QED
    BY <2>1 DEF OtherTypes
<1>5. joined' \in BOOLEAN
  <2>1. \/ UNCHANGED joined \/ joined' = FALSE
        \/ joined' = TRUE
    BY DEF Next, Runs, CloseBegins, CloseEnds, Connect, SocketOpens, SocketFails, Joins, Defers, Recv,
           Opens, HandleReply, HandleError, SessionEnds, Manages, HeartbeatFails, HeartbeatRefreshes,
           ServerAnswers, ServerCloses, LinkCut, vars, shared
  <2> QED
    BY <2>1 DEF OtherTypes
<1>6. zombie' \in BOOLEAN
  <2>1. UNCHANGED zombie \/ zombie' = (zombie \/ \E j \in Threads : Alive(j))
    BY DEF Next, Runs, CloseBegins, CloseEnds, Connect, SocketOpens, SocketFails, Joins, Defers, Recv,
           Opens, HandleReply, HandleError, SessionEnds, Manages, HeartbeatFails, HeartbeatRefreshes,
           ServerAnswers, ServerCloses, LinkCut, vars, hist
  <2> QED
    BY <2>1 DEF OtherTypes
<1>7. gaveUp' \in BOOLEAN
  <2>1. UNCHANGED gaveUp \/ gaveUp' = (gaveUp \/ at[connects] \in Slow)
    BY DEF Next, Runs, CloseBegins, CloseEnds, Connect, SocketOpens, SocketFails, Joins, Defers, Recv,
           Opens, HandleReply, HandleError, SessionEnds, Manages, HeartbeatFails, HeartbeatRefreshes,
           ServerAnswers, ServerCloses, LinkCut, vars, hist
  <2> QED
    BY <2>1 DEF OtherTypes
<1>8. early' \in BOOLEAN
  <2>1. UNCHANGED early \/ \E k \in Threads : early' = (early \/ room[k] \notin {"told", "gone"})
    BY DEF Next, Runs, CloseBegins, CloseEnds, Connect, SocketOpens, SocketFails, Joins, Defers, Recv,
           Opens, HandleReply, HandleError, SessionEnds, Manages, HeartbeatFails, HeartbeatRefreshes,
           ServerAnswers, ServerCloses, LinkCut, vars, hist
  <2> QED
    BY <2>1 DEF OtherTypes
<1> QED
  BY <1>1, <1>2, <1>3, <1>4, <1>5, <1>6, <1>7, <1>8 DEF OtherTypes

\* A socket that a step leaves alone or closes is none or closed if it was so.
LEMMA SocketsStep ==
  ASSUME ThreadTypes, Sockets, [Next]_vars
  PROVE  Sockets'
<1> USE DEF ThreadTypes, Sockets
<1>1. CASE CloseBegins
  BY <1>1, ShutSocket DEF CloseBegins
<1>2. CASE CloseEnds
  BY <1>2 DEF CloseEnds, shared
<1>3. ASSUME NEW k \in Threads, Connect(k) PROVE Sockets'
  BY <1>3, BoundsAssumption DEF Connect, Threads
<1>4. ASSUME NEW k \in Threads, SocketOpens(k) PROVE Sockets'
  BY <1>4 DEF SocketOpens, caller
<1>5. ASSUME NEW k \in Threads, SocketFails(k) \/ Recv(k) \/ Manages(k) PROVE Sockets'
  BY <1>5 DEF SocketFails, Recv, Manages, caller, shared
<1>6. ASSUME NEW k \in Threads, Joins(k) PROVE Sockets'
  BY <1>6 DEF Joins, caller, shared
<1>7. ASSUME NEW k \in Threads, Defers(k) PROVE Sockets'
  BY <1>7, ShutSocket DEF Defers, caller, shared
<1>8. ASSUME NEW k \in Threads, SessionEnds(k) PROVE Sockets'
  BY <1>8, ShutSocket DEF SessionEnds, caller
<1>9. ASSUME NEW k \in Threads, HandleError(k) PROVE Sockets'
  BY <1>9 DEF HandleError, caller, shared
<1>10. ASSUME NEW k \in Threads, NEW ref \in {k, Nobody}, NEW status \in {"ok", "error"},
              HandleReply(k, ref, status)
       PROVE  Sockets'
  BY <1>10 DEF HandleReply, caller
<1>11. ASSUME NEW k \in Threads, HeartbeatFails(k) PROVE Sockets'
  BY <1>11, ShutSocket DEF HeartbeatFails, caller, shared
<1>12. ASSUME NEW k \in Threads, HeartbeatRefreshes(k) PROVE Sockets'
  BY <1>12 DEF HeartbeatRefreshes, caller, shared
<1>13. ASSUME NEW k \in Threads, NEW answer \in {"joined", "refused"}, ServerAnswers(k, answer)
       PROVE  Sockets'
  BY <1>13 DEF ServerAnswers, caller, shared
<1>14. ASSUME NEW k \in Threads, ServerCloses(k) \/ LinkCut(k) PROVE Sockets'
  BY <1>14, ShutSocket DEF ServerCloses, LinkCut, caller, shared
<1>15. ASSUME NEW k \in Threads, Opens(k) PROVE Sockets'
  BY <1>15 DEF Opens, caller, shared
<1>16. CASE UNCHANGED vars
  BY <1>16 DEF vars, caller, shared
<1> QED
  BY <1>1, <1>2, <1>3, <1>4, <1>5, <1>6, <1>7, <1>8, <1>9, <1>10, <1>11, <1>12, <1>13, <1>14, <1>15,
     <1>16
     DEF Next, Runs

\* A thread that no other runs beside keeps what is its own.
LEMMA AloneStep ==
  ASSUME ThreadTypes, OtherTypes, Sockets, ~zombie => Alone, [Next]_vars, ~zombie'
  PROVE  Alone'
<1> USE DEF ThreadTypes, InLoop, InSession
<1>0. ~zombie
  BY DEF OtherTypes, Next, Runs, CloseBegins, CloseEnds, Connect, SocketOpens, SocketFails, Joins,
         Opens, Defers, Recv, HandleReply, HandleError, SessionEnds, Manages, HeartbeatFails,
         HeartbeatRefreshes, ServerAnswers, ServerCloses, LinkCut, vars, hist
<1>1. /\ \A k \in Threads : Alive(k) => k = connects
      /\ \A k \in Threads : at[k] \in InSession => ws = k /\ joinRef = k
      /\ joined => ws \in Threads /\ at[ws] \in InLoop /\ room[ws] \in {"told", "gone"}
      /\ ~early
  BY <1>0 DEF Alone
<1> HIDE <1>0
<1>2. CASE CloseBegins \/ CloseEnds
  <2>1. UNCHANGED <<connects, at, ws, joinRef, joined, room, early>>
    BY <1>2 DEF CloseBegins, CloseEnds, shared, hist
  <2> QED
    BY <1>1, <2>1 DEF Alone, Alive, Nobody, Threads
<1>3. ASSUME NEW k \in Threads, Connect(k) PROVE Alone'
  <2>1. \A j \in Threads : ~Alive(j)
    BY <1>3 DEF Connect
  <2>2. ~joined
    BY <1>1, <2>1 DEF Alive
  <2>3. connects' = k /\ at' = [at EXCEPT ![k] = "connecting"] /\ UNCHANGED <<joined, early>>
    BY <1>3 DEF Connect
  <2> QED
    BY <1>1, <2>1, <2>2, <2>3 DEF Alone, Alive
<1>4. ASSUME NEW k \in Threads, SocketOpens(k) PROVE Alone'
  <2>1. /\ Alive(k) /\ at' = [at EXCEPT ![k] = "opened"] /\ ws' = k /\ joinRef' = k /\ ~joined'
        /\ UNCHANGED <<connects, early>>
    BY <1>4 DEF SocketOpens, Alive, caller, hist
  <2> QED
    BY <1>1, <2>1 DEF Alone, Alive
<1>5. ASSUME NEW k \in Threads, SocketFails(k) \/ Recv(k) \/ Manages(k) \/ Joins(k) \/ Defers(k)
      PROVE  Alone'
  <2>1. UNCHANGED <<connects, ws, joinRef, joined, early>>
    BY <1>5 DEF SocketFails, Recv, Manages, Joins, Defers, caller, shared, hist
  <2>2. \E p \in {"backoff", "recv", "connecting", "top", "dead"} : at' = [at EXCEPT ![k] = p]
    BY <1>5 DEF SocketFails, Recv, Manages, Joins, Defers
  <2>3. Alive(k)
    BY <1>5 DEF SocketFails, Recv, Manages, Joins, Defers, Alive
  <2>4. \A j \in Threads : Alive(j)' => j = connects'
    BY <1>1, <2>1, <2>2, <2>3 DEF Alive
  <2>5. at'[k] \in InSession => at[k] \in {"opened", "top"}
    BY <1>5 DEF SocketFails, Recv, Manages, Joins, Defers
  <2>6. \A j \in Threads : at'[j] \in InSession => ws' = j /\ joinRef' = j
    BY <1>1, <2>1, <2>2, <2>5
  <2>7. joined => Recv(k)
    BY <1>1, <1>5, <2>3 DEF SocketFails, Recv, Manages, Joins, Defers, Alive
  <2>8. Recv(k) => at' = [at EXCEPT ![k] = "recv"] /\ room' = room
    BY DEF Recv
  <2>9. joined' => ws' # Nobody /\ at'[ws'] \in InLoop /\ room'[ws'] \in {"told", "gone"}
    <3> SUFFICES ASSUME joined'
                 PROVE  /\ ws \in Threads /\ at'[ws] \in InLoop
                        /\ room'[ws] \in {"told", "gone"}
      BY <2>1 DEF Nobody, Threads
    <3>1. joined
      BY <2>1
    <3>2. ws \in Threads /\ at[ws] \in InLoop /\ room[ws] \in {"told", "gone"}
      BY <1>1, <3>1
    <3>3. at' = [at EXCEPT ![k] = "recv"] /\ room' = room
      BY <2>7, <2>8, <3>1
    <3> QED
      BY <3>2, <3>3
  <2> QED
    BY <1>1, <2>1, <2>4, <2>6, <2>9 DEF Alone
<1>6. ASSUME NEW k \in Threads, SessionEnds(k) PROVE Alone'
  <2>1. /\ Alive(k) /\ at' = [at EXCEPT ![k] = "backoff"] /\ ~joined'
        /\ UNCHANGED <<connects, ws, joinRef, early>>
    BY <1>6 DEF SessionEnds, Alive, caller, hist
  <2> QED
    BY <1>1, <2>1 DEF Alone, Alive
<1>7. ASSUME NEW k \in Threads, NEW ref \in {k, Nobody}, NEW status \in {"ok", "error"},
             HandleReply(k, ref, status)
      PROVE  Alone'
  <2>1. /\ at[k] = "recv" /\ \E p \in {"top", "pushing"} : at' = [at EXCEPT ![k] = p]
        /\ UNCHANGED <<connects, ws, joinRef, early>>
    BY <1>7 DEF HandleReply, caller, hist
  <2>2. ws = k /\ joinRef = k /\ k # Nobody /\ k = connects
    BY <1>1, <2>1 DEF Threads, Nobody, Alive
  <2>3. joined' => room'[k] \in {"told", "gone"}
    <3>1. CASE ref = Nobody
      <4>1. ~IsJoinReply(ref)
        BY <2>2, <3>1 DEF IsJoinReply
      <4>2. joined' = joined /\ room' = room
        BY <1>7, <2>2, <3>1, <4>1 DEF HandleReply
      <4> QED
        BY <1>1, <2>2, <4>2
    <3>2. CASE ref = k
      BY <1>7, <2>2, <3>2 DEF HandleReply
    <3> QED
      BY <3>1, <3>2
  <2>4. \A j \in Threads : Alive(j)' => j = connects'
    BY <1>1, <2>1, <2>2 DEF Alive
  <2>5. \A j \in Threads : at'[j] \in InSession => ws' = j /\ joinRef' = j
    BY <1>1, <2>1, <2>2
  <2>6. ws' # Nobody /\ at'[ws'] \in InLoop
    BY <2>1, <2>2
  <2> QED
    BY <1>1, <2>1, <2>2, <2>3, <2>4, <2>5, <2>6 DEF Alone
<1>8. ASSUME NEW k \in Threads, HandleError(k) PROVE Alone'
  <2>1. /\ at[k] = "recv" /\ at' = [at EXCEPT ![k] = "top"] /\ room' = [room EXCEPT ![k] = "gone"]
        /\ UNCHANGED <<connects, ws, joinRef, joined, early>>
    BY <1>8 DEF HandleError, caller, shared, hist
  <2> QED
    BY <1>1, <2>1 DEF Alone, Alive, Nobody, Threads
<1>9. ASSUME NEW k \in Threads, HeartbeatRefreshes(k) PROVE Alone'
  <2>1. joined /\ at[k] \in InLoop /\ early' = (early \/ room[k] \notin {"told", "gone"})
    BY <1>9 DEF HeartbeatRefreshes, MayRefresh, Beats
  <2>2. room[k] \in {"told", "gone"}
    BY <1>1, <2>1
  <2>3. ~early'
    BY <1>1, <2>1, <2>2
  <2>4. UNCHANGED <<connects, at, ws, joinRef, joined, room>>
    BY <1>9 DEF HeartbeatRefreshes, caller, shared
  <2> QED
    BY <1>1, <2>3, <2>4 DEF Alone, Alive, Nobody, Threads
<1>10. ASSUME NEW k \in Threads, NEW answer \in {"joined", "refused"}, ServerAnswers(k, answer)
       PROVE  Alone'
  <2>1. /\ room[k] = "asked" /\ room' = [room EXCEPT ![k] = answer]
        /\ UNCHANGED <<connects, at, ws, joinRef, joined, early>>
    BY <1>10 DEF ServerAnswers, caller, shared, hist
  <2>2. joined => ws # k
    BY <1>1, <2>1
  <2> QED
    BY <1>1, <2>1, <2>2 DEF Alone, Alive, Nobody, Threads
<1>11. ASSUME NEW k \in Threads, HeartbeatFails(k) \/ ServerCloses(k) \/ LinkCut(k) PROVE Alone'
  <2>1. UNCHANGED <<connects, at, ws, joinRef, joined, room, early>>
    BY <1>11 DEF HeartbeatFails, ServerCloses, LinkCut, caller, shared, hist
  <2> QED
    BY <1>1, <2>1 DEF Alone, Alive, Nobody, Threads
<1>12. ASSUME NEW k \in Threads, Opens(k) PROVE Alone'
  <2>1. /\ at[k] = "pushing" /\ at' = [at EXCEPT ![k] = "top"]
        /\ UNCHANGED <<connects, ws, joinRef, joined, room, early>>
    BY <1>12 DEF Opens, caller, shared, hist
  <2> QED
    BY <1>1, <2>1 DEF Alone, Alive, Nobody, Threads
<1>13. CASE UNCHANGED vars
  <2>1. UNCHANGED <<connects, at, ws, joinRef, joined, room, early>>
    BY <1>13 DEF vars, caller, shared, hist
  <2> QED
    BY <1>1, <2>1 DEF Alone, Alive, Nobody, Threads
<1> QED
  BY <1>2, <1>3, <1>4, <1>5, <1>6, <1>7, <1>8, <1>9, <1>10, <1>11, <1>12, <1>13 DEF Next, Runs

\* The invariant is inductive.
LEMMA IInvStep == IInv /\ [Next]_vars => IInv'
  BY ThreadTypesStep, OtherTypesStep, SocketsStep, AloneStep DEF IInv

\* Every variable keeps its type, and while close() has not given up on a thread a
\* join that is confirmed is that of the socket in use, whatever frames and faults come
\* (signaling_supabase.py 249-301, 359-377).
THEOREM TypeCorrect == Spec => []TypeOK
<1>1. IInv => TypeOK
  BY DEF IInv, ThreadTypes, OtherTypes, Alone, TypeOK, Socks, Rooms
<1> QED
  BY <1>1, InitIInv, IInvStep, PTL DEF Spec

\* A thread that is in no session has no connection open, however many connects, faults
\* and threads there are (signaling_supabase.py 213-301).
THEOREM NoSocketIsLeft == Spec => []NoSocketLeft
<1>1. IInv => NoSocketLeft
  BY DEF IInv, Sockets, NoSocketLeft
<1> QED
  BY <1>1, InitIInv, IInvStep, PTL DEF Spec

\* No token is pushed on a socket whose join is not confirmed, unless close() had given
\* up on a thread that still ran when connect() was called (signaling_supabase.py 326-330).
THEOREM RefreshesAfterJoin == Spec => []RefreshAfterJoin
<1>1. IInv => RefreshAfterJoin
  BY DEF IInv, Alone, RefreshAfterJoin
<1> QED
  BY <1>1, InitIInv, IInvStep, PTL DEF Spec

-----------------------------------------------------------------------------
(* What the handlers hear *)

\* While close() has given up on no thread, only the last one runs, and none after close();
\* once a session has begun there is a ref of a join, and a thread that pushes the first
\* token has a join that the server confirmed.
Rested ==
  ~gaveUp =>
    /\ \A k \in Threads : Alive(k) => k = connects
    /\ closer = "closed" => note = "closed" /\ \A k \in Threads : ~Alive(k)
Named == \A k \in Threads : at[k] \in InSession => joinRef # Nobody
Pushed == \A k \in Threads : at[k] = "pushing" => room[k] = "told"

\* What the handlers are told by a step: "open" by the server only, and "closed" as the last
\* word.
Truth ==
  /\ note # "open" /\ note' = "open" => \E k \in Threads : room'[k] = "told"
  /\ closer = "closed" /\ closer' = "closed" /\ ~gaveUp => note' = "closed"

\* A step of a thread that runs, and says nothing of "open", keeps them.
LEMMA ThreadKeeps ==
  ASSUME ThreadTypes, Rested, Named, NEW k \in Threads, Alive(k), UNCHANGED <<caller, gaveUp>>,
         NEW p \in Places, at' = [at EXCEPT ![k] = p],
         \/ joinRef' = k
         \/ /\ UNCHANGED joinRef
            /\ p \in InSession => at[k] \in InSession,
         note' = "open" => note = "open"
  PROVE  Rested' /\ Named' /\ Truth
<1>1. Rested'
  BY DEF ThreadTypes, Rested, Alive, caller
<1>2. Named'
  BY DEF ThreadTypes, Named, Threads, Nobody, InSession, InLoop
<1>3. Truth
  BY DEF Truth, Rested, caller
<1> QED
  BY <1>1, <1>2, <1>3

\* A thread that pushes a token has a confirmed join, and keeps it until it has told of it.
LEMMA PushedStep ==
  ASSUME IInv, Named, Pushed, [Next]_vars PROVE Pushed'
<1> USE DEF ThreadTypes, Pushed, InLoop
<1>0. ThreadTypes
  BY DEF IInv
<1>1. ASSUME UNCHANGED <<at, room>> PROVE Pushed'
  BY <1>1
<1>2. ASSUME NEW k \in Threads, NEW p \in Places \ {"pushing"}, at' = [at EXCEPT ![k] = p],
             UNCHANGED room
      PROVE  Pushed'
  BY <1>0, <1>2
<1>3. ASSUME NEW k \in Threads, Joins(k) PROVE Pushed'
  BY <1>0, <1>3 DEF Joins
<1>4. ASSUME NEW k \in Threads, SocketOpens(k) \/ HandleError(k) PROVE Pushed'
  BY <1>0, <1>4 DEF SocketOpens, HandleError
<1>5. ASSUME NEW k \in Threads, NEW ref \in {k, Nobody}, NEW status \in {"ok", "error"},
             HandleReply(k, ref, status)
      PROVE  Pushed'
  <2>1. CASE at' = [at EXCEPT ![k] = "top"]
    BY <1>0, <1>5, <2>1 DEF HandleReply
  <2>2. CASE at' # [at EXCEPT ![k] = "top"]
    <3>1. ref = joinRef /\ status = "ok" /\ at' = [at EXCEPT ![k] = "pushing"] /\ at[k] = "recv"
      BY <1>5, <2>2 DEF HandleReply, IsJoinReply
    <3>2. ref = k
      BY <3>1 DEF Named, InSession
    <3>3. room' = [room EXCEPT ![k] = "told"]
      BY <1>5, <3>1, <3>2 DEF HandleReply, Threads, Nobody
    <3> QED
      BY <1>0, <3>1, <3>3
  <2> QED
    BY <2>1, <2>2
<1>6. ASSUME NEW k \in Threads, NEW answer \in {"joined", "refused"}, ServerAnswers(k, answer)
      PROVE  Pushed'
  BY <1>0, <1>6 DEF ServerAnswers, shared
<1>7. ASSUME NEW k \in Threads,
             Connect(k) \/ SocketFails(k) \/ Defers(k) \/ Recv(k) \/ SessionEnds(k) \/ Manages(k)
               \/ Opens(k)
      PROVE  Pushed'
  BY <1>2, <1>7 DEF Connect, SocketFails, Defers, Recv, SessionEnds, Manages, Opens, Places
<1>8. CASE CloseBegins \/ CloseEnds \/ UNCHANGED vars
  BY <1>1, <1>8 DEF CloseBegins, CloseEnds, vars
<1>9. ASSUME NEW k \in Threads,
             HeartbeatFails(k) \/ HeartbeatRefreshes(k) \/ ServerCloses(k) \/ LinkCut(k)
      PROVE  Pushed'
  BY <1>1, <1>9 DEF HeartbeatFails, HeartbeatRefreshes, ServerCloses, LinkCut
<1> QED
  BY <1>3, <1>4, <1>5, <1>6, <1>7, <1>8, <1>9 DEF Next, Runs

\* Every step keeps them, and tells the truth.
LEMMA TruthStep ==
  ASSUME IInv, Rested, Named, Pushed, [Next]_vars
  PROVE  Rested' /\ Named' /\ Truth
<1>0. ThreadTypes /\ Sockets /\ note \in {"none", "open", "error", "closed"}
  BY DEF IInv, OtherTypes
<1>1. ASSUME UNCHANGED <<caller, gaveUp, at, joinRef, note>> PROVE Rested' /\ Named' /\ Truth
  BY <1>1 DEF Rested, Named, Truth, Alive, caller
<1>2. CASE CloseBegins
  BY <1>2 DEF CloseBegins, Rested, Named, Truth, Alive, hist
<1>3. CASE CloseEnds
  <2>1. ~gaveUp' => ~gaveUp /\ at[connects] = "dead"
    BY <1>3 DEF CloseEnds, JoinReturns
  <2>2. UNCHANGED <<connects, at, joinRef>> /\ note' = "closed"
    BY <1>3 DEF CloseEnds, shared
  <2>3. Rested'
    BY <2>1, <2>2 DEF Rested, Alive
  <2> QED
    BY <2>2, <2>3 DEF Named, Truth
<1>4. ASSUME NEW k \in Threads, Connect(k) PROVE Rested' /\ Named' /\ Truth
  <2>1. /\ k = connects + 1 /\ connects' = k /\ closer' = "idle" /\ UNCHANGED <<note, gaveUp, joinRef>>
        /\ at' = [at EXCEPT ![k] = "connecting"]
    BY <1>4 DEF Connect
  <2>2. ~gaveUp => \A j \in Threads : ~Alive(j)
    <3>1. CASE k = 1
      <4>1. connects = 0
        BY <2>1, <3>1, <1>0 DEF ThreadTypes
      <4> QED
        BY <1>0, <4>1 DEF Sockets, Threads, Alive
    <3>2. CASE k # 1
      BY <1>4, <3>2 DEF Connect, Rested
    <3> QED
      BY <3>1, <3>2
  <2>3. Rested'
    BY <1>0, <2>1, <2>2 DEF Rested, Alive, ThreadTypes
  <2>4. Named'
    BY <1>0, <2>1 DEF Named, ThreadTypes, InSession, InLoop
  <2> QED
    BY <2>1, <2>3, <2>4 DEF Truth
<1>5. ASSUME NEW k \in Threads, SocketOpens(k) PROVE Rested' /\ Named' /\ Truth
  BY <1>0, <1>5, ThreadKeeps DEF SocketOpens, Places, InLoop, Alive, hist
<1>6. ASSUME NEW k \in Threads, SocketFails(k) \/ Joins(k) \/ Defers(k) \/ Recv(k) \/ SessionEnds(k)
      PROVE  Rested' /\ Named' /\ Truth
  <2>1. /\ Alive(k) /\ UNCHANGED <<caller, gaveUp, joinRef>>
        /\ \/ at' = [at EXCEPT ![k] = "backoff"]
           \/ at' = [at EXCEPT ![k] = "top"] /\ at[k] = "opened"
           \/ at' = [at EXCEPT ![k] = "recv"] /\ at[k] = "top"
        /\ note' = note \/ note' = "error"
    BY <1>6 DEF SocketFails, Joins, Defers, Recv, SessionEnds, Alive, caller, shared, hist
  <2> QED
    BY <1>0, <2>1, ThreadKeeps DEF Places, InSession, InLoop
<1>7. ASSUME NEW k \in Threads, Manages(k) PROVE Rested' /\ Named' /\ Truth
  <2>1. PICK p \in {"dead", "connecting"} : at' = [at EXCEPT ![k] = p]
    BY <1>7 DEF Manages
  <2> QED
    BY <1>0, <1>7, <2>1, ThreadKeeps DEF Manages, Alive, caller, shared, hist, Places, InSession, InLoop
<1>8. ASSUME NEW k \in Threads, HandleError(k) PROVE Rested' /\ Named' /\ Truth
  BY <1>0, <1>8, ThreadKeeps DEF HandleError, Alive, caller, shared, hist, Places, InSession, InLoop
<1>9. ASSUME NEW k \in Threads, NEW ref \in {k, Nobody}, NEW status \in {"ok", "error"},
             HandleReply(k, ref, status)
      PROVE  Rested' /\ Named' /\ Truth
  <2>1. /\ at[k] = "recv" /\ Alive(k) /\ UNCHANGED <<caller, gaveUp, joinRef>>
        /\ note' = note \/ note' = "error"
    BY <1>9 DEF HandleReply, Alive, hist
  <2>2. PICK p \in {"top", "pushing"} : at' = [at EXCEPT ![k] = p]
    BY <1>9 DEF HandleReply
  <2> QED
    BY <1>0, <2>1, <2>2, ThreadKeeps DEF Places, InSession, InLoop
<1>10. ASSUME NEW k \in Threads, HeartbeatFails(k) \/ HeartbeatRefreshes(k)
       PROVE  Rested' /\ Named' /\ Truth
  BY <1>1, <1>10 DEF HeartbeatFails, HeartbeatRefreshes, caller, shared, hist
<1>11. ASSUME NEW k \in Threads, ServerCloses(k) \/ LinkCut(k) PROVE Rested' /\ Named' /\ Truth
  BY <1>1, <1>11 DEF ServerCloses, LinkCut, caller, shared, hist
<1>12. ASSUME NEW k \in Threads, NEW answer \in {"joined", "refused"}, ServerAnswers(k, answer)
       PROVE  Rested' /\ Named' /\ Truth
  BY <1>1, <1>12 DEF ServerAnswers, caller, shared, hist
<1>13. ASSUME NEW k \in Threads, Opens(k) PROVE Rested' /\ Named' /\ Truth
  <2>1. /\ at[k] = "pushing" /\ Alive(k) /\ at' = [at EXCEPT ![k] = "top"] /\ room' = room
        /\ note' = "open" /\ UNCHANGED <<caller, gaveUp, joinRef>>
    BY <1>13 DEF Opens, Alive, shared, hist
  <2>2. room'[k] = "told"
    BY <2>1 DEF Pushed
  <2>3. gaveUp \/ closer # "closed"
    BY <2>1 DEF Rested
  <2>4. Rested'
    BY <1>0, <2>1, <2>3 DEF Rested, Alive, caller, ThreadTypes
  <2>5. Named'
    BY <1>0, <2>1 DEF Named, ThreadTypes, InSession, InLoop
  <2> QED
    BY <2>1, <2>2, <2>3, <2>4, <2>5 DEF Truth, caller
<1>14. CASE UNCHANGED vars
  BY <1>1, <1>14 DEF vars, caller, shared, hist
<1> QED
  BY <1>2, <1>3, <1>4, <1>5, <1>6, <1>7, <1>8, <1>9, <1>10, <1>11, <1>12, <1>13,
     <1>14 DEF Next, Runs

\* The handlers hear "open" only of a room the server has confirmed, and "closed" last, for any
\* number of connects and faults: HandlersKnow (signaling_supabase.py 134-145, 359-377).
THEOREM HandlersHearTheTruth == Spec => HandlersKnow
<1>1. Init => Rested /\ Named /\ Pushed
  BY DEF Init, Rested, Named, Pushed, Alive, InSession, InLoop
<1>2. ASSUME Truth
      PROVE  [/\ note # "open" /\ note' = "open" => \E k \in Threads : room'[k] = "told"
              /\ closer = "closed" /\ closer' = "closed" /\ ~gaveUp => note' = "closed"]_vars
  BY <1>2 DEF Truth
<1> QED
  BY <1>1, <1>2, InitIInv, IInvStep, PushedStep, TruthStep, PTL DEF Spec, HandlersKnow

-----------------------------------------------------------------------------
(* The provider of the tokens: the deadline of a granted token *)

\* The lead before the expiry never exceeds the lifetime.
LEMMA LeadBounds ==
  ASSUME NEW life \in Nat
  PROVE  Lead(life) \in Nat /\ Lead(life) <= life
  BY AuthAssumption DEF Lead, Smaller

\* What the server is taken to have said is a lifetime, and the true one if it was stated.
LEMMA SaidNat ==
  ASSUME NEW life \in Lives, NEW stated \in {"life", "absent", "over"}
  PROVE  Said(life, stated) \in Nat /\ (stated = "life" => Said(life, stated) = life)
  BY AuthAssumption DEF Said

\* What the token's own expiry leaves by the wall clock is never negative.
LEMMA TtlNat ==
  ASSUME NEW expiry \in Nat, NEW said \in Nat, NEW readable \in BOOLEAN,
         now \in Nat, offset \in Int
  PROVE  Ttl(expiry, said, readable) \in Nat
  BY DEF Ttl, Larger

\* A token is held at least for the floor, and no longer than the floor or what the
\* server's own statement leaves before the lead.
LEMMA HoldBounds ==
  ASSUME NEW ttl \in Nat, NEW said \in Nat
  PROVE  /\ Hold(ttl, said) \in Nat
         /\ Hold(ttl, said) >= MinCache
         /\ Hold(ttl, said) <= MinCache \/ Hold(ttl, said) <= said - Lead(said)
<1>1. Lead(ttl) \in Nat /\ Lead(ttl) <= ttl /\ Lead(said) \in Nat /\ Lead(said) <= said
  BY LeadBounds
<1> QED
  BY <1>1, AuthAssumption DEF Hold, Larger, Smaller

-----------------------------------------------------------------------------
(* The types of the provider *)

\* The initial state has the types, with nobody in a grant.
LEMMA InitAuthTypeOK == AuthInit => AuthTypeOK
<1> SUFFICES ASSUME AuthInit PROVE AuthTypeOK
  OBVIOUS
<1>1. held \in BOOLEAN
  BY DEF AuthInit
<1>2. now \in 0 .. MaxTime /\ grants \in Nat /\ granted \in 0 .. MaxTime /\ deadline \in Nat
  BY AuthAssumption DEF AuthInit
<1>3. stage \in [Callers -> Stages] /\ \A c \in Callers : stage[c] = "none"
  BY DEF AuthInit, Stages
<1>4. posted \in [Callers -> 0 .. MaxTime]
  BY AuthAssumption DEF AuthInit
<1>5. /\ offset \in Offsets /\ owner \in Callers \cup {None} /\ token \in Token \cup {None}
  BY DEF AuthInit
<1> QED
  BY <1>1, <1>2, <1>3, <1>4, <1>5 DEF AuthTypeOK

\* Every step keeps the types, and the lock with the caller in a grant.
LEMMA NextAuthTypeOK ==
  ASSUME AuthTypeOK, [AuthNext]_authVars
  PROVE  AuthTypeOK'
<1>1. ASSUME NEW c \in Callers, Begin(c) PROVE AuthTypeOK'
  <2>1. stage' \in [Callers -> Stages] /\ posted' \in [Callers -> 0 .. MaxTime] /\ owner' \in Callers
    BY <1>1 DEF Begin, AuthTypeOK, Stages
  <2>2. \A d \in Callers : stage'[d] # "none" => owner' = d
    BY <1>1, AuthAssumption DEF Begin, LockFree, AuthTypeOK
  <2>3. UNCHANGED <<now, offset, held, cache>>
    BY <1>1 DEF Begin
  <2> QED
    BY <2>1, <2>2, <2>3 DEF AuthTypeOK, cache
<1>2. ASSUME NEW c \in Callers, NEW since \in 0 .. MaxTime, NEW life \in Lives,
             NEW stated \in {"life", "absent", "over"}, NEW readable \in BOOLEAN,
             NEW rotates \in BOOLEAN, Granted(c, since, life, stated, readable, rotates)
      PROVE  AuthTypeOK'
  <2>1. now \in Nat /\ offset \in Int /\ since + life \in Nat /\ Said(life, stated) \in Nat
    BY SaidNat, AuthAssumption DEF AuthTypeOK
  <2>2. Ttl(since + life, Said(life, stated), readable) \in Nat
    BY <2>1, TtlNat
  <2>3. deadline' \in Nat
    <3>1. Hold(Ttl(since + life, Said(life, stated), readable), Said(life, stated)) \in Nat
      BY <2>1, <2>2, HoldBounds
    <3> QED
      BY <1>2, <2>1, <3>1 DEF Granted
  <2>4. token' \in Token
    BY <1>2, <2>1 DEF Granted, Token
  <2>5. held' \in BOOLEAN
    BY <1>2 DEF Granted
  <2>6. /\ grants' \in Nat /\ granted' \in 0 .. MaxTime
        /\ owner' = None /\ UNCHANGED <<now, offset, posted>>
    BY <1>2 DEF Granted, AuthTypeOK
  <2>7. stage' \in [Callers -> Stages]
    BY <1>2 DEF Granted, AuthTypeOK, Stages
  <2>8. \A d \in Callers : stage'[d] # "none" => owner' = d
    BY <1>2 DEF Granted, AuthTypeOK
  <2> QED
    BY <2>3, <2>4, <2>5, <2>6, <2>7, <2>8 DEF AuthTypeOK
<1>3. ASSUME NEW c \in Callers, NEW how \in {"refused", "unanswered"}, RefreshFails(c, how)
      PROVE  AuthTypeOK'
  <2>1. held' \in BOOLEAN
    BY <1>3 DEF RefreshFails
  <2>2. /\ stage' \in [Callers -> Stages] /\ posted' \in [Callers -> 0 .. MaxTime]
        /\ \A d \in Callers : stage'[d] # "none" => owner' = d
    BY <1>3 DEF RefreshFails, AuthTypeOK, Stages
  <2>3. UNCHANGED <<now, offset, owner, cache>>
    BY <1>3 DEF RefreshFails
  <2> QED
    BY <2>1, <2>2, <2>3 DEF AuthTypeOK, cache
<1>4. ASSUME NEW c \in Callers, PasswordFails(c) PROVE AuthTypeOK'
  <2>1. /\ stage' \in [Callers -> Stages] /\ owner' = None
        /\ \A d \in Callers : stage'[d] # "none" => owner' = d
    BY <1>4 DEF PasswordFails, AuthTypeOK, Stages
  <2>2. UNCHANGED <<now, offset, posted, held, cache>>
    BY <1>4 DEF PasswordFails
  <2> QED
    BY <2>1, <2>2 DEF AuthTypeOK, cache
<1>5. CASE Tick
  <2>1. now' \in 0 .. MaxTime /\ UNCHANGED <<offset, owner, stage, posted, held, cache>>
    BY <1>5, AuthAssumption DEF Tick, AuthTypeOK
  <2> QED
    BY <2>1 DEF AuthTypeOK, cache
<1>6. ASSUME NEW by \in Offsets, StepWall(by) PROVE AuthTypeOK'
  BY <1>6 DEF StepWall, AuthTypeOK, cache
<1>7. CASE UNCHANGED authVars
  BY <1>7 DEF authVars, AuthTypeOK, cache
<1> QED
  BY <1>1, <1>2, <1>3, <1>4, <1>5, <1>6, <1>7 DEF AuthNext

\* The variables keep their types, and only the caller that owns the lock waits for a grant.
THEOREM AuthTypeCorrect == AuthSpec => []AuthTypeOK
  BY InitAuthTypeOK, NextAuthTypeOK, PTL DEF AuthSpec

-----------------------------------------------------------------------------
(* The cached token *)

\* A grant takes at most Latency, so the token is no older than that when it comes;
\* it is held for the floor at least, and no longer than the server's statement allows.
CacheInv ==
  /\ granted <= now
  /\ \A c \in Callers : stage[c] # "none" =>
       /\ posted[c] <= now /\ now <= posted[c] + Latency
       /\ ~Fresh
  /\ grants > 0 => token # None /\ deadline >= granted + MinCache
  /\ token # None /\ token.stated =>
       /\ granted + token.life <= token.expiry + Latency
       /\ deadline <= granted + MinCache \/ deadline <= granted + token.life - Lead(token.life)

\* There is no token to hold at first.
LEMMA InitCacheInv == AuthInit => CacheInv
  BY AuthAssumption DEF AuthInit, CacheInv, Fresh

\* Every step keeps the bounds on the deadline: a grant sets them, and time only uses them up.
LEMMA NextCacheInv ==
  ASSUME AuthTypeOK, CacheInv, [AuthNext]_authVars
  PROVE  CacheInv'
<1>1. ASSUME NEW c \in Callers, Begin(c) PROVE CacheInv'
  BY <1>1, AuthAssumption DEF Begin, CacheInv, AuthTypeOK, cache, Fresh
<1>2. ASSUME NEW c \in Callers, NEW since \in 0 .. MaxTime, NEW life \in Lives,
             NEW stated \in {"life", "absent", "over"}, NEW readable \in BOOLEAN,
             NEW rotates \in BOOLEAN, Granted(c, since, life, stated, readable, rotates)
      PROVE  CacheInv'
  <2> DEFINE said == Said(life, stated)
             ttl  == Ttl(since + life, said, readable)
  <2>1. now \in Nat /\ offset \in Int /\ life \in Nat /\ since + life \in Nat
    BY AuthAssumption DEF AuthTypeOK
  <2>2. said \in Nat /\ (stated = "life" => said = life)
    BY SaidNat
  <2>3. ttl \in Nat
    BY <2>1, <2>2, TtlNat
  <2>4. /\ deadline' = now + Hold(ttl, said) /\ granted' = now /\ now' = now /\ posted' = posted
        /\ token' = [expiry |-> since + life, life |-> life, stated |-> stated = "life"]
    BY <1>2 DEF Granted
  <2>5. deadline' >= granted' + MinCache
    BY <2>1, <2>2, <2>3, <2>4, HoldBounds, AuthAssumption
  <2>6. posted[c] <= since /\ since <= now /\ now <= posted[c] + Latency /\ posted[c] \in Nat
    BY <1>2 DEF Granted, CacheInv, AuthTypeOK
  <2>7. granted' + life <= since + life + Latency
    BY <2>1, <2>4, <2>6, AuthAssumption
  <2>8. ASSUME stated = "life"
        PROVE  deadline' <= granted' + MinCache \/ deadline' <= granted' + life - Lead(life)
    <3>1. Lead(life) \in Nat
      BY <2>1, LeadBounds
    <3>2. /\ Hold(ttl, life) \in Nat
          /\ Hold(ttl, life) <= MinCache \/ Hold(ttl, life) <= life - Lead(life)
      BY <2>1, <2>3, HoldBounds
    <3> HIDE DEF ttl
    <3> QED
      BY <2>1, <2>2, <2>4, <2>8, <3>1, <3>2, AuthAssumption
  <2>9. \A d \in Callers : stage'[d] = "none"
    BY <1>2 DEF Granted, AuthTypeOK
  <2>10. token' # None => /\ token'.life = life /\ token'.expiry = since + life
                          /\ token'.stated <=> stated = "life"
    BY <2>4
  <2>11. token' # None
    <3>1. token' \in Token
      BY <2>1, <2>4 DEF Token
    <3> QED
      BY <3>1, AuthAssumption
  <2> QED
    BY <2>1, <2>4, <2>5, <2>7, <2>8, <2>9, <2>10, <2>11 DEF CacheInv
<1>3. ASSUME NEW c \in Callers, NEW how \in {"refused", "unanswered"},
             RefreshFails(c, how) \/ PasswordFails(c)
      PROVE  CacheInv'
  BY <1>3, AuthAssumption DEF RefreshFails, PasswordFails, CacheInv, AuthTypeOK, cache, Fresh
<1>4. CASE Tick
  BY <1>4, AuthAssumption DEF Tick, CacheInv, AuthTypeOK, cache, Fresh
<1>5. ASSUME NEW by \in Offsets, StepWall(by) PROVE CacheInv'
  BY <1>5 DEF StepWall, CacheInv, cache, Fresh
<1>6. CASE UNCHANGED authVars
  BY <1>6 DEF authVars, CacheInv, cache, Fresh
<1> QED
  BY <1>1, <1>2, <1>3, <1>4, <1>5, <1>6 DEF AuthNext

\* The inductive invariant of the token cache holds in every state.
LEMMA CacheCorrect == AuthSpec => [](AuthTypeOK /\ CacheInv)
  BY AuthTypeCorrect, InitCacheInv, NextCacheInv, PTL DEF AuthSpec

\* A token served from the cache has not expired, wherever the wall clock was.
THEOREM ServesLiveTokens == AuthSpec => []ServedAlive
<1>1. AuthTypeOK /\ CacheInv => ServedAlive
  <2> SUFFICES ASSUME AuthTypeOK, CacheInv, Fresh, token.stated, Roomy(token.life)
               PROVE  now < token.expiry
    BY DEF ServedAlive
  <2>1. token \in Token /\ token.life \in Nat /\ token.expiry \in Nat
    BY AuthAssumption DEF AuthTypeOK, Fresh, Token
  <2>2. Lead(token.life) \in Nat
    BY <2>1, LeadBounds
  <2>3. now \in Nat /\ deadline \in Nat /\ granted \in Nat /\ now < deadline
    BY AuthAssumption DEF AuthTypeOK, Fresh
  <2>4. /\ granted + token.life <= token.expiry + Latency
        /\ deadline <= granted + MinCache \/ deadline <= granted + token.life - Lead(token.life)
    BY DEF CacheInv, Fresh
  <2> QED
    BY <2>1, <2>2, <2>3, <2>4, AuthAssumption DEF Roomy
<1> QED
  BY <1>1, CacheCorrect, PTL

\* Two grants are at least _MIN_CACHE_S apart, however many threads ask for tokens.
THEOREM GrantsApart == AuthSpec => GrantRate
<1>1. ASSUME AuthTypeOK, CacheInv, [AuthNext]_authVars
      PROVE  grants' # grants /\ grants > 0 => now >= granted + MinCache
  <2> SUFFICES ASSUME grants' # grants, grants > 0
               PROVE  now >= granted + MinCache
    OBVIOUS
  <2>1. PICK c \in Callers : stage[c] # "none"
    BY <1>1 DEF AuthNext, authVars, cache, Begin, Granted, RefreshFails, PasswordFails, Tick, StepWall
  <2>2. token # None /\ deadline >= granted + MinCache /\ ~Fresh
    BY <1>1, <2>1 DEF CacheInv
  <2> QED
    BY <1>1, <2>2, AuthAssumption DEF Fresh, AuthTypeOK
<1>2. AuthTypeOK /\ CacheInv /\ [AuthNext]_authVars
        => [grants' # grants /\ grants > 0 => now >= granted + MinCache]_authVars
  BY <1>1
<1> QED
  BY <1>2, CacheCorrect, PTL DEF AuthSpec, GrantRate
=============================================================================
