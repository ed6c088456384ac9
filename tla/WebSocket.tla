------------------------------ MODULE WebSocket ------------------------------
(***************************************************************************)
(* The asynchronous operations of beast::websocket::stream that share the  *)
(* write side of one connection: read_frame_op, which answers pings, close *)
(* frames and protocol errors while it reads, write_frame_op, ping_op and  *)
(* close_op (beast/websocket/impl/{read,write,ping,close}.ipp).            *)
(*                                                                         *)
(* An operation writes only while wr_block_ points to it.  One that finds  *)
(* it taken parks itself in rd_op_, wr_op_ or ping_op_, and the operation  *)
(* that completes next resumes at most one of the parked ones, which goes  *)
(* on in a handler posted to the io_service.  Handlers run one at a time   *)
(* (the strand the documentation asks for), in any order.                  *)
(*                                                                         *)
(* A BOOST_ASSERT that fails ends the program in a debug build.  A release *)
(* build defines NDEBUG (SConstruct), and goes on with what follows it.    *)
(*                                                                         *)
(* The peer is anything that sends valid frames, and frames that are not   *)
(* if BadFrames says so; the network may break at any time.                *)
(***************************************************************************)
CONSTANTS
    None,         \* not an operation
    BadFrames,    \* TRUE: the peer may violate the protocol
    PingAlso      \* TRUE: a ping may be active together with a write or close

ASSUME StreamAssumption ==
    /\ None \notin {"read", "write", "ping", "close"}
    /\ BadFrames \in BOOLEAN /\ PingAlso \in BOOLEAN

VARIABLES
    ndebug,   \* TRUE: a release build
    ws,       \* the stream and where its operations are, see TypeOK
    conn,     \* next layer: "up", "shut" for sending, "closed" or "broken"
    peer,     \* "open", or "closed" once its close frame was received
    result    \* what the last read returned

vars == <<ndebug, ws, conn, peer, result>>

Writers == {"write", "ping", "close"}
Ops == Writers \cup {"read"}
Frames == {"message", "fragment", "ping", "pong", "close"}
          \cup (IF BadFrames THEN {"bad"} ELSE {})

\* where an operation parks
Home(o) == CASE o = "read" -> "rd_op" [] o = "ping" -> "ping_op" [] OTHER -> "wr_op"

\* The operations wait for a completion of the next layer, ...
InFlight == {"writing", "pong", "reply", "fail"}
\* ... in a parking slot, ...
Parked == {"parked", "parked_pong", "parked_reply", "parked_fail"}
\* ... or in the io_service.
Posted == {"resumed", "resumed_pong", "resumed_reply", "posted_fail", "again", "aborting"}

Idle == [o \in Ops |-> "idle"]

\* reset() and open() as a client, whose frames are masked, or as a server,
\* with no operation pending
Opened(mask) ==
    [mask |-> mask, at |-> Idle, wr_block |-> None, failed |-> FALSE, wr_close |-> FALSE,
     slot |-> [h \in {"rd_op", "wr_op", "ping_op"} |-> None],
     out |-> "open",      \* "closed": a close frame was sent; "after": one more frame
     abort |-> FALSE,     \* a BOOST_ASSERT failed
     crowded |-> FALSE]   \* a ping was active together with a write or close

Init ==
    /\ ndebug \in BOOLEAN
    /\ \E mask \in BOOLEAN : ws = Opened(mask)
    /\ conn = "up" /\ peer = "open" /\ result = "none"

Running == ndebug \/ ~ws.abort

-----------------------------------------------------------------------------
(* Steps shared by the operations, as functions of the stream *)

\* async_write on the next layer
Send(s, o, where, frame) ==
    [s EXCEPT !.at[o] = where,
              !.wr_close = @ \/ frame = "close",
              !.out = IF @ # "open" THEN "after" ELSE IF frame = "close" THEN "closed" ELSE @]

\* invokable::emplace, which writes over what the slot holds
Park(s, o, where) ==
    [s EXCEPT !.at[o] = where, !.slot[Home(o)] = o,
              !.abort = @ \/ s.slot[Home(o)] # None]

ResumedAt(where) ==
    CASE where = "parked" -> "resumed"
      [] where = "parked_pong" -> "resumed_pong"
      [] where = "parked_reply" -> "resumed_reply"

\* Mutant: the resumed operation does not take the write side before it posts.
Resume_NotTaken(s, o) ==
    LET r == [s EXCEPT !.slot[Home(o)] = None]
    IN  IF s.at[o] = "parked_fail"
        THEN [r EXCEPT !.at[o] = "posted_fail"]
        ELSE [r EXCEPT !.at[o] = ResumedAt(@), !.abort = @ \/ s.wr_block # None]

\* What a parked operation does when it is invoked: it takes the write side and
\* posts itself; a read that is to fail the connection only posts itself.
Resume(s, o) ==
    LET r == [s EXCEPT !.slot[Home(o)] = None]
    IN  IF s.at[o] = "parked_fail"
        THEN [r EXCEPT !.at[o] = "posted_fail"]
        ELSE [r EXCEPT !.at[o] = ResumedAt(@), !.wr_block = o,
                       !.abort = @ \/ s.wr_block # None]

\* Mutant: one slot is looked at.
MaybeInvoke_First(s, x, y) == IF s.slot[x] # None THEN Resume(s, s.slot[x]) ELSE s

\* x.maybe_invoke() || y.maybe_invoke()
MaybeInvoke(s, x, y) ==
    IF s.slot[x] # None THEN Resume(s, s.slot[x])
    ELSE IF s.slot[y] # None THEN Resume(s, s.slot[y]) ELSE s

Take(s, o) == [s EXCEPT !.wr_block = o]
TakeIfFree(s, o) == [s EXCEPT !.wr_block = IF @ = None THEN o ELSE @]
Release(s, o) == [s EXCEPT !.wr_block = IF @ = o THEN None ELSE @]

\* Mutant: a completing write or close looks only for a parked ping.
Upcall_SkipRead(s, o) ==
    LET r == Release([s EXCEPT !.at[o] = "idle"], o)
    IN  CASE o = "read" -> MaybeInvoke(r, "ping_op", "wr_op")
          [] o = "ping" -> MaybeInvoke(r, "rd_op", "wr_op")
          [] OTHER -> MaybeInvoke(r, "ping_op", "ping_op")

\* The label upcall of each operation; the completion handler may start the
\* next operation, which here is a step of its own.
Upcall(s, o) ==
    LET r == Release([s EXCEPT !.at[o] = "idle"], o)
    IN  CASE o = "read" -> MaybeInvoke(r, "ping_op", "wr_op")
          [] o = "ping" -> MaybeInvoke(r, "rd_op", "wr_op")
          [] OTHER -> MaybeInvoke(r, "rd_op", "ping_op")

-----------------------------------------------------------------------------
(* async_write_frame, async_ping, async_close *)

FrameOf(o) == IF o = "close" THEN "close" ELSE "other"

\* Mutant: a write side that is free is used although the stream is closing.
MaybeSuspend_NoCheck(s, o) ==
    IF s.wr_block # None THEN Park(s, o, "parked")
    ELSE Send(Take(s, o), o, "writing", FrameOf(o))

\* Mutant: an operation starts although another one is writing.
MaybeSuspend_NoPark(s, o) ==
    IF s.failed \/ s.wr_close THEN [s EXCEPT !.at[o] = "aborting"]
    ELSE Send(Take(s, o), o, "writing", FrameOf(o))

\* do_maybe_suspend of a write, state 0 of a ping or close
MaybeSuspend(s, o) ==
    IF s.wr_block # None THEN Park(s, o, "parked")
    ELSE IF s.failed \/ s.wr_close THEN [s EXCEPT !.at[o] = "aborting"]
    ELSE Send(Take(s, o), o, "writing", FrameOf(o))

\* The documented use: one of write, ping and close at a time, or, where the
\* documentation is more generous, a ping besides a write or close.
MayStart(o) ==
    \A p \in Writers : ws.at[p] = "idle" \/ (PingAlso /\ "ping" \in {o, p} /\ o # p)

Start(o) ==
    /\ Running /\ ws.at[o] = "idle" /\ MayStart(o)
    /\ ws' = [MaybeSuspend(ws, o) EXCEPT
                 !.crowded = @ \/ \E p \in Writers \ {o} : ws.at[p] # "idle"]
    /\ UNCHANGED <<ndebug, conn, peer, result>>

\* The posted handler of an operation that was resumed, ...
RunResumed(o) ==
    /\ Running /\ ws.at[o] = "resumed"
    /\ LET s == [ws EXCEPT !.abort = @ \/ ws.wr_block # o]
       IN  ws' = IF ws.failed \/ ws.wr_close THEN Upcall(s, o)
                 ELSE Send(s, o, "writing", FrameOf(o))
    /\ UNCHANGED <<ndebug, conn, peer, result>>

\* ... of one that is aborted, ...
RunAborting(o) ==
    /\ Running /\ ws.at[o] = "aborting"
    /\ ws' = Upcall(ws, o)
    /\ UNCHANGED <<ndebug, conn, peer, result>>

\* ... and of a write that let a control frame pass between two of its frames.
RunAgain ==
    /\ Running /\ ws.at["write"] = "again"
    /\ ws' = MaybeSuspend(ws, "write")
    /\ UNCHANGED <<ndebug, conn, peer, result>>

\* The frame is sent, or was lost with the connection.
Wrote(o) ==
    /\ Running /\ ws.at[o] = "writing"
    /\ \/ ws' = Upcall(ws, o)
       \/ conn # "up" /\ ws' = Upcall([ws EXCEPT !.failed = TRUE], o)
    /\ UNCHANGED <<ndebug, conn, peer, result>>

\* One frame of a fragmented message is sent: do_nomask_frag + 2, and
\* do_mask_frag + 2, which asserts that the write side is its own and frees it
\* whoever has it.  Without a parked read or ping the next frame follows.
WroteFragment ==
    /\ Running /\ ws.at["write"] = "writing"
    /\ LET own == ws.wr_block = "write"
           r == [ws EXCEPT !.at["write"] = "again",
                           !.wr_block = IF own \/ ws.mask THEN None ELSE @,
                           !.abort = @ \/ (ws.mask /\ ~own)]
           s == MaybeInvoke(r, "rd_op", "ping_op")
       IN  ws' = IF s # r THEN s
                 ELSE Send([Take(r, "write") EXCEPT !.abort = @ \/ r.wr_block # None],
                           "write", "writing", "other")
    /\ UNCHANGED <<ndebug, conn, peer, result>>

-----------------------------------------------------------------------------
(* async_read, a loop over async_read_frame *)

\* do_start
ReadStart(s) == [s EXCEPT !.at["read"] = IF s.failed THEN "aborting" ELSE "header"]

StartRead ==
    /\ Running /\ ws.at["read"] = "idle"
    /\ ws' = ReadStart(ws)
    /\ UNCHANGED <<ndebug, conn, peer, result>>

Returns(s, r) == ws' = Upcall(s, "read") /\ result' = r

\* do_control for a ping
OnPing(s) ==
    IF s.wr_close THEN s
    ELSE IF s.wr_block # None
         THEN Park([s EXCEPT !.abort = @ \/ s.wr_block = "read"], "read", "parked_pong")
    ELSE Send(Take(s, "read"), "read", "pong", "other")

\* Mutant: the peer's answer to a close frame does not end the connection.
OnClose_Ignored(s) ==
    IF s.wr_close THEN s
    ELSE IF s.wr_block # None THEN Park(s, "read", "parked_reply")
    ELSE Send(Take(s, "read"), "read", "reply", "close")

\* do_control for a close frame
OnClose(s) ==
    IF s.wr_close THEN [s EXCEPT !.at["read"] = "teardown"]
    ELSE IF s.wr_block # None THEN Park(s, "read", "parked_reply")
    ELSE Send(Take(s, "read"), "read", "reply", "close")

\* do_fail
OnBad(s) ==
    IF s.wr_close THEN [s EXCEPT !.at["read"] = "failing"]
    ELSE IF s.wr_block # None THEN Park(s, "read", "parked_fail")
    ELSE Send([Take(s, "read") EXCEPT !.failed = TRUE], "read", "fail", "close")

\* async_teardown begins with shutdown_send.
Shuts(s) == IF s.at["read"] \in {"teardown", "failing"} /\ conn = "up" THEN "shut" ELSE conn

\* Frame header and payload are in: do_frame_done for a frame of a message, and
\* at its last frame the read returns; do_control; do_fail.
ReadFrame(frame) ==
    /\ Running /\ ws.at["read"] = "header" /\ conn = "up" /\ peer = "open"
    /\ CASE frame = "message" -> Returns(ws, "ok")
         [] frame = "fragment" -> ws' = ReadStart(Upcall(ws, "read")) /\ UNCHANGED result
         [] frame = "ping" -> ws' = OnPing(ws) /\ UNCHANGED result
         [] frame = "pong" -> UNCHANGED <<ws, result>>
         [] frame = "close" -> ws' = OnClose(ws) /\ UNCHANGED result
         [] frame = "bad" -> ws' = OnBad(ws) /\ UNCHANGED result
    /\ conn' = Shuts(ws')
    /\ peer' = IF frame = "close" THEN "closed" ELSE peer
    /\ UNCHANGED ndebug

\* The next layer reports an error, the end of the stream included.
ReadError ==
    /\ Running /\ ws.at["read"] = "header" /\ conn # "up"
    /\ Returns([ws EXCEPT !.failed = TRUE], "error")
    /\ UNCHANGED <<ndebug, conn, peer>>

\* do_pong_resume + 1 and do_pong
RunPong ==
    /\ Running /\ ws.at["read"] = "resumed_pong"
    /\ LET s == [ws EXCEPT !.abort = @ \/ ws.wr_block \notin {None, "read"}]
       IN  IF ws.failed THEN Returns(ws, "error")
           ELSE /\ ws' = IF ws.wr_close
                         THEN [s EXCEPT !.wr_block = None, !.at["read"] = "header"]
                         ELSE Send(TakeIfFree(s, "read"), "read", "pong", "other")
                /\ UNCHANGED result
    /\ UNCHANGED <<ndebug, conn, peer>>

\* do_close_resume + 1 and do_close
RunReply ==
    /\ Running /\ ws.at["read"] = "resumed_reply"
    /\ LET s == [ws EXCEPT !.abort = @ \/ ws.wr_block # "read"]
       IN  IF ws.failed THEN Returns(s, "error")
           ELSE IF ws.wr_close THEN Returns(s, "closed")
           ELSE /\ ws' = Send(TakeIfFree(s, "read"), "read", "reply", "close")
                /\ UNCHANGED result
    /\ UNCHANGED <<ndebug, conn, peer>>

\* do_fail + 3
RunFail ==
    /\ Running /\ ws.at["read"] = "posted_fail"
    /\ IF ws.failed THEN Returns(ws, "failed")
       ELSE /\ ws' = Send([Take(ws, "read") EXCEPT !.failed = TRUE,
                                                  !.abort = @ \/ ws.wr_block # None],
                          "read", "fail", "close")
            /\ UNCHANGED result
    /\ UNCHANGED <<ndebug, conn, peer>>

RunReadAborting ==
    /\ Running /\ ws.at["read"] = "aborting"
    /\ Returns([ws EXCEPT !.failed = TRUE], "error")
    /\ UNCHANGED <<ndebug, conn, peer>>

\* The pong, the reply to a close frame, or the close frame that fails the
\* connection is sent: do_pong + 1, do_teardown, do_fail + 4.  Only a read that
\* returns looks for parked operations.
ReadWrote ==
    /\ Running /\ ws.at["read"] \in {"pong", "reply", "fail"}
    /\ \/ /\ ws' = CASE ws.at["read"] = "pong" ->
                          [ws EXCEPT !.wr_block = None, !.at["read"] = "header"]
                     [] ws.at["read"] = "reply" -> [ws EXCEPT !.at["read"] = "teardown"]
                     [] ws.at["read"] = "fail" -> [ws EXCEPT !.at["read"] = "failing"]
          /\ conn' = Shuts(ws')
          /\ UNCHANGED result
       \/ /\ conn # "up"
          /\ Returns([ws EXCEPT !.failed = TRUE], "error")
          /\ UNCHANGED conn
    /\ UNCHANGED <<ndebug, peer>>

\* teardown_tcp_op: the sending side is shut down, what still arrives is
\* discarded until the peer's end of stream, and the socket is closed; or the
\* network fails first.
Teardown ==
    /\ Running /\ ws.at["read"] \in {"teardown", "failing"}
    /\ \/ /\ conn = "shut"
          /\ conn' = "closed"
          /\ Returns(ws, IF ws.at["read"] = "teardown" THEN "closed" ELSE "failed")
       \/ /\ conn = "broken"
          /\ Returns(ws, "error")
          /\ UNCHANGED conn
    /\ UNCHANGED <<ndebug, peer>>

-----------------------------------------------------------------------------

\* The network, or the peer without a close frame, ends the connection.
Break ==
    /\ Running /\ conn \in {"up", "shut"}
    /\ conn' = "broken"
    /\ UNCHANGED <<ndebug, ws, peer, result>>

\* The stream is used for another connection.
Handshake ==
    /\ Running /\ ws.at = Idle /\ conn \in {"closed", "broken"}
    /\ \E mask \in BOOLEAN : ws' = Opened(mask)
    /\ conn' = "up" /\ peer' = "open" /\ result' = "none"
    /\ UNCHANGED ndebug

Completions ==
    \/ \E o \in Writers : RunResumed(o) \/ RunAborting(o) \/ Wrote(o)
    \/ RunAgain \/ RunPong \/ RunReply \/ RunFail \/ RunReadAborting
    \/ ReadError \/ ReadWrote \/ Teardown

Next ==
    \/ Completions
    \/ \E o \in Writers : Start(o)
    \/ WroteFragment
    \/ StartRead
    \/ \E f \in Frames : ReadFrame(f)
    \/ Break
    \/ Handshake

\* The io_service runs its handlers and the next layer completes its calls; a
\* message has finitely many frames; who uses the stream keeps reading until
\* the connection is over; a peer that got a close frame sends its own after
\* finitely many other frames.  Nothing obliges the peer to send anything else.
Fairness ==
    /\ \A o \in Writers : WF_vars(RunResumed(o)) /\ WF_vars(RunAborting(o)) /\ SF_vars(Wrote(o))
    /\ WF_vars(RunAgain) /\ WF_vars(RunPong) /\ WF_vars(RunReply) /\ WF_vars(RunFail)
    /\ WF_vars(RunReadAborting) /\ WF_vars(ReadError) /\ WF_vars(ReadWrote)
    /\ WF_vars(Teardown)
    /\ WF_vars(StartRead)
    /\ SF_vars(ws.out # "open" /\ ReadFrame("close"))

Spec == Init /\ [][Next]_vars /\ Fairness

-----------------------------------------------------------------------------
(* Properties *)

\* Type invariant; an operation is parked exactly when its slot holds it.
TypeOK ==
    /\ ws.at \in [Ops -> InFlight \cup Parked \cup Posted
                         \cup {"idle", "header", "teardown", "failing"}]
    /\ ws.wr_block \in Ops \cup {None}
    /\ \A o \in Ops : ws.at[o] \in Parked <=> ws.slot[Home(o)] = o
    /\ ws.failed \in BOOLEAN /\ ws.wr_close \in BOOLEAN /\ ws.abort \in BOOLEAN
    /\ ws.mask \in BOOLEAN /\ ws.crowded \in BOOLEAN /\ ndebug \in BOOLEAN
    /\ ws.out \in {"open", "closed", "after"}
    /\ conn \in {"up", "shut", "closed", "broken"} /\ peer \in {"open", "closed"}
    /\ result \in {"none", "ok", "closed", "failed", "error"}

\* Two frames are on their way to the next layer at once, where their bytes mix,
\* in two cases only.  One of them is the close frame of a read that had parked
\* to fail the connection: resumed, it did not take wr_block_, and another
\* operation began to write before its handler ran (read.ipp, do_fail + 2).  Or
\* the user had a ping active besides a write or close, and an operation that did
\* not own wr_block_ completed and resumed a parked one (read.ipp, upcall).  Both
\* pass an assertion that is false, where a debug build stops; a release build
\* sends both frames, although websocket.qbk says that the writes of a read
\* operation "will not compete with caller-initiated write operations" and that
\* a read, a write and a ping may be active at the same time.
OneWriter ==
    \A o, p \in Ops :
        o # p /\ ws.at[o] \in InFlight /\ ws.at[p] \in InFlight =>
            ws.abort /\ (ws.at["read"] = "fail" \/ ws.crowded)

\* The closing handshake is kept: no frame follows a close frame, a second close
\* frame neither, whoever of the user and the reply to the peer comes first, and
\* a read returns error::closed only after close frames went both ways.  The
\* exceptions: a read that fails the connection does not look whether a close
\* frame was sent while it was parked; and a fragmented write that lost wr_block_
\* to a ping, in a release build, sends its next frame without looking.
ClosingHandshake ==
    /\ ws.out = "after" => ws.failed \/ (ws.crowded /\ ws.abort)
    /\ result = "closed" => peer = "closed" /\ ws.out # "open"

\* With one of write, ping and close at a time no BOOST_ASSERT on wr_block_ or
\* on a parking slot fails, but for the one a read meets when it resumes to
\* fail the connection.  With a ping besides, one fails when an operation that
\* does not own the write side completes: it resumes the ping, or what waits
\* for the ping, although another one is writing.  (In a release build this is
\* about the first that is false.)
AbortsAreKnown ==
    [][~ws.abort /\ ws'.abort =>
           \/ ws.at["read"] = "posted_fail"
           \/ ws.at["ping"] # "idle" /\ \E o \in {"write", "close"} : ws.at[o] # "idle"]_vars

\* A read that must answer a ping or a close frame and finds the write side
\* taken gets its turn.
ReadResumes == ws.at["read"] \in Parked ~> ws.at["read"] \notin Parked

\* Once a close frame is sent the connection comes to its end, or a read
\* reports that it did, or an assertion ends the program.
CloseEnds == ws.wr_close ~> conn \in {"closed", "broken"} \/ result = "closed" \/ ~Running

\* Every write, ping and close completes, unless an assertion ends the program, if reads keep completing, and a ping
\* does so however many writes follow one another; a write or close can be
\* overtaken by pings for as long as they go on.
WritersReturn ==
    []<>(ws.at["read"] = "idle") =>
        \A o \in Writers :
            o = "ping" \/ <>[](ws.at["ping"] = "idle") =>
                (ws.at[o] # "idle" ~> ws.at[o] = "idle" \/ ~Running)

-----------------------------------------------------------------------------
(* What the documentation says and the code does not do *)

\* stream.hpp on async_write: "The asynchronous operation will continue until"
\* the message is sent or an error occurs.  A write, ping or close that parked
\* behind a pong is not resumed when the pong is sent.
WritersReturnAlways == \A o \in Writers : ws.at[o] # "idle" ~> ws.at[o] = "idle"
=============================================================================
