------------------------------- MODULE Supabase -------------------------------
(***************************************************************************)
(* SupabaseSignaling (src/src/nori_sdk/signaling_supabase.py): the thread  *)
(* that connects, joins the room, reads and connects again, the heartbeat  *)
(* thread of each of its sessions, and connect() and close() on the event  *)
(* loop, with what all of them share.                                      *)
(*                                                                         *)
(* Thread k is the one that the k-th connect() starts.  It has one         *)
(* websocket at a time, so the socket, its join and the ref of that join   *)
(* are known by k too.  An outdated socket of k is closed, and a frame of  *)
(* it cannot arrive on the next.                                           *)
(***************************************************************************)
EXTENDS Naturals

CONSTANTS
  MaxConnects,  \* calls of connect() (bound)
  MaxFaults     \* connections lost in all (bound)

ASSUME BoundsAssumption == MaxConnects \in Nat /\ MaxFaults \in Nat

Threads == 1 .. MaxConnects
Nobody  == 0

VARIABLES
  connects, closer,          \* calls of connect(); where the last close() is
  stop, joined,              \* the events _stop and _joined
  ws, joinRef,               \* whose socket is _ws, and whose ref is _join_ref
  at,                        \* where each thread is
  ok,                        \* joined_ok of its session
  sock,                      \* its websocket; "cut": the link is dead and no end knows
  room,                      \* the server's side of its join
  faults,                    \* connections lost
  note,                      \* the last state given to the handlers
  zombie, gaveUp, early      \* history: see the properties

shared == <<stop, joined, ws, joinRef>>
caller == <<connects, closer>>
hist   == <<zombie, gaveUp, early>>
vars   == <<caller, shared, at, ok, sock, room, faults, note, hist>>

InLoop == {"top", "recv", "pushing"}      \* the loop of a session that asked to join
Places == {"none", "connecting", "opened", "backoff", "dead"} \cup InLoop
Alive(k) == at[k] \notin {"none", "dead"}

TypeOK ==
  /\ connects \in 0 .. MaxConnects /\ closer \in {"idle", "joining", "closed"}
  /\ ws \in Threads \cup {Nobody} /\ joinRef \in Threads \cup {Nobody}
  /\ at \in [Threads -> Places] /\ ok \in [Threads -> BOOLEAN]
  /\ sock \in [Threads -> {"none", "open", "cut", "closed"}]
  /\ room \in [Threads -> {"none", "asked", "joined", "told", "refused", "gone"}]
  /\ faults \in 0 .. MaxFaults /\ note \in {"none", "open", "error", "closed"}
  /\ stop \in BOOLEAN /\ joined \in BOOLEAN
  /\ zombie \in BOOLEAN /\ gaveUp \in BOOLEAN /\ early \in BOOLEAN
  /\ joined /\ ~zombie => /\ ws # Nobody /\ at[ws] \in InLoop
                         /\ room[ws] \in {"told", "gone"}

Init ==
  /\ connects = 0 /\ closer = "idle"
  /\ stop = FALSE /\ joined = FALSE /\ ws = Nobody /\ joinRef = Nobody
  /\ at = [k \in Threads |-> "none"] /\ ok = [k \in Threads |-> FALSE]
  /\ sock = [k \in Threads |-> "none"] /\ room = [k \in Threads |-> "none"]
  /\ faults = 0 /\ note = "none"
  /\ zombie = FALSE /\ gaveUp = FALSE /\ early = FALSE

Shut(k) == IF sock[k] \in {"open", "cut"} THEN [sock EXCEPT ![k] = "closed"] ELSE sock

-----------------------------------------------------------------------------
(* The event loop *)

Connect(k) ==
  /\ k = connects + 1 /\ connects' = k
  /\ closer \in IF k = 1 THEN {"idle"} ELSE {"closed"}
  /\ closer' = "idle"
  /\ stop' = FALSE
  /\ at' = [at EXCEPT ![k] = "connecting"]
  /\ zombie' = (zombie \/ \E j \in Threads : Alive(j))
  /\ UNCHANGED <<joined, ws, joinRef, ok, sock, room, note, gaveUp, faults, early>>

\* Mutant of CloseBegins: the thread is told to stop, and its socket is left.
CloseBeginsStopOnly ==
  /\ closer = "idle" /\ connects > 0
  /\ closer' = "joining" /\ stop' = TRUE
  /\ UNCHANGED <<connects, joined, ws, joinRef, at, ok, sock, room, faults, note, hist>>

\* close() up to the join of the thread.
CloseBegins ==
  /\ closer = "idle" /\ connects > 0
  /\ closer' = "joining" /\ stop' = TRUE
  /\ sock' = IF ws = Nobody THEN sock ELSE Shut(ws)
  /\ UNCHANGED <<connects, joined, ws, joinRef, at, ok, room, faults, note, hist>>

\* A thread in a call that may take longer than thread.join(3.0): the connection, or the
\* fetch of a token, to join with or to push (10 s each).
Slow == {"connecting", "opened", "pushing"}

\* thread.join(3.0) returns: the thread is dead, or the time is up.
JoinReturnsEarly == TRUE                               \* mutant: nothing is awaited
JoinReturns == at[connects] = "dead" \/ at[connects] \in Slow

CloseEnds ==
  /\ closer = "joining" /\ JoinReturns
  /\ closer' = "closed"
  /\ note' = "closed"
  /\ gaveUp' = (gaveUp \/ at[connects] \in Slow)
  /\ UNCHANGED <<connects, shared, at, ok, sock, room, zombie, faults, early>>

-----------------------------------------------------------------------------
(* _manage and _session, on thread k *)

\* create_connection returns; the session is set up as far as the join token.
SocketOpens(k) ==
  /\ at[k] = "connecting" /\ at' = [at EXCEPT ![k] = "opened"]
  /\ sock' = [sock EXCEPT ![k] = "open"] /\ room' = [room EXCEPT ![k] = "none"]
  /\ ok' = [ok EXCEPT ![k] = FALSE]
  /\ ws' = k /\ joined' = FALSE /\ joinRef' = k
  /\ UNCHANGED <<caller, stop, faults, note, hist>>

SocketFails(k) ==
  /\ at[k] = "connecting" /\ at' = [at EXCEPT ![k] = "backoff"]
  /\ note' = "error"
  /\ UNCHANGED <<caller, shared, ok, sock, room, faults, hist>>

\* The token is there: phx_join is sent, to whatever socket is _ws by now.
Joins(k) ==
  /\ at[k] = "opened" /\ at' = [at EXCEPT ![k] = "top"]
  /\ room' = IF sock[ws] = "open" /\ room[ws] = "none" THEN [room EXCEPT ![ws] = "asked"] ELSE room
  /\ UNCHANGED <<caller, shared, ok, sock, faults, note, hist>>

\* Mutant of Defers: the socket is left open.
DefersOpen(k) ==
  /\ at[k] = "opened" /\ at' = [at EXCEPT ![k] = "backoff"]
  /\ UNCHANGED <<caller, shared, ok, sock, room, faults, note, hist>>

\* No token: the join is deferred.
Defers(k) ==
  /\ at[k] = "opened" /\ at' = [at EXCEPT ![k] = "backoff"]
  /\ sock' = Shut(k)
  /\ UNCHANGED <<caller, shared, ok, room, faults, note, hist>>

\* The loop goes on to recv(), which blocks.
Recv(k) ==
  /\ at[k] = "top" /\ ~stop
  /\ at' = [at EXCEPT ![k] = "recv"]
  /\ UNCHANGED <<caller, shared, ok, sock, room, faults, note, hist>>

\* A phx_reply is the answer to the join if it carries the ref of the join.
IsJoinReplyAny(ref) == TRUE                            \* mutant: any reply will do
IsJoinReply(ref) == ref = joinRef

\* _handle of a phx_reply with this ref: a heartbeat's (Nobody) or the join's.  When the
\* join is confirmed, the event is set first, and a token fetched to be pushed.
HandleReply(k, ref, status) ==
  /\ at[k] = "recv" /\ sock[k] = "open"
  /\ \/ ref = Nobody /\ status = "ok" /\ UNCHANGED room
     \/ /\ ref = k /\ room[k] \in {"joined", "refused"}
        /\ status = IF room[k] = "joined" THEN "ok" ELSE "error"
        /\ room' = [room EXCEPT ![k] = IF @ = "joined" THEN "told" ELSE "gone"]
  /\ IF IsJoinReply(ref) /\ status = "ok"
     THEN at' = [at EXCEPT ![k] = "pushing"] /\ joined' = TRUE
     ELSE at' = [at EXCEPT ![k] = "top"] /\ UNCHANGED joined
  /\ note' = IF IsJoinReply(ref) /\ status = "error" THEN "error" ELSE note
  /\ ok' = [ok EXCEPT ![k] = @ \/ (joined /\ at'[k] = "top")]
  /\ UNCHANGED <<caller, stop, ws, joinRef, sock, faults, hist>>

\* The token is pushed, or there is none, and the handlers are told, whatever became of the
\* socket meanwhile.
Opens(k) ==
  /\ at[k] = "pushing" /\ at' = [at EXCEPT ![k] = "top"]
  /\ note' = "open"
  /\ ok' = [ok EXCEPT ![k] = @ \/ joined]
  /\ UNCHANGED <<caller, shared, sock, room, faults, hist>>

\* _handle of a phx_error: the channel is gone, and is not joined again.
HandleError(k) ==
  /\ at[k] = "recv" /\ sock[k] = "open" /\ room[k] = "told"
  /\ room' = [room EXCEPT ![k] = "gone"]
  /\ at' = [at EXCEPT ![k] = "top"]
  /\ note' = "error"
  /\ UNCHANGED <<caller, shared, ok, sock, faults, hist>>

\* Mutant of SessionEnds: the event of the join is left set.
SessionEndsJoined(k) ==
  /\ \/ at[k] = "top" /\ stop
     \/ at[k] = "recv" /\ sock[k] = "closed"
  /\ at' = [at EXCEPT ![k] = "backoff"]
  /\ sock' = Shut(k)
  /\ note' = IF ok[k] THEN note ELSE "error"
  /\ UNCHANGED <<caller, stop, joined, ws, joinRef, ok, room, faults, hist>>

\* The loop ends, because of _stop or of a closed socket, and the finally clause.
SessionEnds(k) ==
  /\ \/ at[k] = "top" /\ stop
     \/ at[k] = "recv" /\ sock[k] = "closed"
  /\ at' = [at EXCEPT ![k] = "backoff"]
  /\ joined' = FALSE
  /\ sock' = Shut(k)
  /\ note' = IF ok[k] THEN note ELSE "error"
  /\ UNCHANGED <<caller, stop, ws, joinRef, ok, room, faults, hist>>

\* _manage after _session: it ends under _stop, else waits and connects again.
Manages(k) ==
  /\ at[k] = "backoff"
  /\ at' = [at EXCEPT ![k] = IF stop THEN "dead" ELSE "connecting"]
  /\ UNCHANGED <<caller, shared, ok, sock, room, faults, note, hist>>

-----------------------------------------------------------------------------
(* _heartbeat, the thread of a session of k: it ends with it, or under _stop *)

Beats(k) == at[k] \in InLoop /\ ~stop

\* Mutant of HeartbeatFails: the failure is logged, and recv() blocks on.
HeartbeatFailsMute(k) ==
  /\ Beats(k) /\ sock[k] = "cut"
  /\ UNCHANGED vars

\* A send fails on a dead link: the socket is closed to unblock recv().
HeartbeatFails(k) ==
  /\ Beats(k) /\ sock[k] = "cut"
  /\ sock' = Shut(k)
  /\ UNCHANGED <<caller, shared, at, ok, room, faults, note, hist>>

MayRefreshAlways == TRUE                               \* mutant: the join is not awaited
MayRefresh == joined

\* A new token is pushed.  early: on a socket where the join is not confirmed.
HeartbeatRefreshes(k) ==
  /\ Beats(k) /\ MayRefresh /\ sock[k] = "open"
  /\ early' = (early \/ room[k] \notin {"told", "gone"})
  /\ UNCHANGED <<caller, shared, at, ok, sock, room, note, zombie, gaveUp, faults>>

-----------------------------------------------------------------------------
(* The server and the link *)

ServerAnswers(k, answer) ==
  /\ room[k] = "asked" /\ sock[k] = "open"
  /\ room' = [room EXCEPT ![k] = answer]
  /\ UNCHANGED <<caller, shared, at, ok, sock, faults, note, hist>>

\* The server closes the connection.
ServerCloses(k) ==
  /\ sock[k] = "open" /\ sock' = Shut(k)
  /\ faults < MaxFaults /\ faults' = faults + 1
  /\ UNCHANGED <<caller, shared, at, ok, room, note, hist>>

LinkCut(k) ==
  /\ sock[k] = "open" /\ sock' = [sock EXCEPT ![k] = "cut"]
  /\ faults < MaxFaults /\ faults' = faults + 1
  /\ UNCHANGED <<caller, shared, at, ok, room, note, hist>>

-----------------------------------------------------------------------------
Runs(k) ==
  \/ SocketOpens(k) \/ SocketFails(k) \/ Joins(k) \/ Defers(k) \/ Recv(k)
  \/ Opens(k) \/ SessionEnds(k) \/ Manages(k)

Next ==
  \/ CloseBegins \/ CloseEnds
  \/ \E k \in Threads :
       \/ Connect(k) \/ Runs(k) \/ HandleError(k)
       \/ \E ref \in {k, Nobody}, status \in {"ok", "error"} : HandleReply(k, ref, status)
       \/ HeartbeatFails(k) \/ HeartbeatRefreshes(k)
       \/ \E answer \in {"joined", "refused"} : ServerAnswers(k, answer)
       \/ ServerCloses(k) \/ LinkCut(k)

Spec == Init /\ [][Next]_vars

\* Threads run, heartbeats find dead links, and the server answers; connections
\* and tokens that are asked for again and again come once.
Fairness ==
  /\ WF_vars(CloseEnds)
  /\ \A k \in Threads :
       /\ WF_vars(Runs(k)) /\ WF_vars(HeartbeatFails(k))
       /\ WF_vars(\E answer \in {"joined", "refused"} : ServerAnswers(k, answer))
       /\ SF_vars(SocketOpens(k)) /\ SF_vars(Joins(k)) /\ SF_vars(HandleReply(k, k, "ok"))

FairSpec == Spec /\ Fairness

-----------------------------------------------------------------------------
(* Properties.  zombie is TRUE once connect() has started a thread beside one  *)
(* that close() gave up on; gaveUp once close() has given up on a thread.      *)

\* A thread that is not in a session has no connection open, however the session
\* before ended: no token, a failed heartbeat, the server, or close().
NoSocketLeft ==
  \A k \in Threads : at[k] \in {"connecting", "backoff", "dead"} => sock[k] \in {"none", "closed"}

\* The handlers are told "open" only when the server has confirmed the join of a
\* room, and not by any other reply; when close() has waited for its thread, "closed"
\* is the last word they hear until connect() (signaling_supabase.py 134-145, 359-377).
HandlersKnow ==
  [][/\ note # "open" /\ note' = "open" => \E k \in Threads : room'[k] = "told"
     /\ closer = "closed" /\ closer' = "closed" /\ ~gaveUp => note' = "closed"]_vars

\* The token is refreshed only on a socket whose join is confirmed
\* (signaling_supabase.py 326-330).
RefreshAfterJoin == ~zombie => ~early

\* close() ends the thread, wherever it was, though the link be dead.
ThreadsEnd ==
  (stop /\ ~zombie) ~> (~stop \/ \A k \in Threads : ~Alive(k))

\* A lost connection, a dead link, a failed connect or a missing token is
\* survived: the room is joined again, unless it was refused.
Rejoins ==
  (connects > 0 /\ ~stop /\ ~zombie)
    ~> (stop \/ joined \/ zombie \/ \E k \in Threads : room[k] \in {"refused", "gone"})
=============================================================================
