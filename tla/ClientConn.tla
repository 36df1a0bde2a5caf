------------------------------ MODULE ClientConn ------------------------------
(***************************************************************************)
(* One websocket client (websockets/websockets.go): the goroutine of its   *)
(* listener, which writes to the socket and runs the handlers, and that of *)
(* its receiver, which reads from it.  Others push frames to the client    *)
(* (Send, from feeds) and close it (Close, from an overflow or a ban).     *)
(*                                                                         *)
(* Close tells both goroutines to stop with two tokens in the buffered     *)
(* channel c.close.  It is not atomic: it looks for a token first, which   *)
(* takes one, and offers each of the two separately.                       *)
(***************************************************************************)
EXTENDS Integers, Sequences, SequencesExt

CONSTANTS
    Bans,           \* goroutines that disconnect a banned address
    SendCap,        \* capacity of sendExternal: 600 frames in the code
    MaxFrames,      \* bound: frames sent to the client
    MaxMessages     \* bound: messages received from the peer

ASSUME ClientConnAssumption ==
    /\ {"listener", "receiver", "feed"} \cap Bans = {}
    /\ SendCap \in Nat \ {0}
    /\ MaxFrames \in Nat
    /\ MaxMessages \in Nat

\* The goroutines that call Close.
Callers == {"listener", "receiver", "feed"} \cup Bans

VARIABLES
    socket,         \* of the connection: open, broken by the peer, closed
    member,         \* the client is subscribed to a feed
    listener,       \* where the listener is
    receiver,       \* where the receiver is
    tokens,         \* how many the channel c.close holds, of at most 2
    call,           \* where a goroutine is in Close
    again,          \* goroutines that call Close once more after that
    closes,         \* calls of Close before the listener's own, up to two
    outbox,         \* sendExternal
    sent,           \* frames sent to the client so far
    dropped,        \* those that found the outbox full
    wire,           \* those written to the socket
    received        \* messages received from the peer so far

tokenVars == <<tokens, call, again>>
frameVars == <<outbox, sent, dropped, wire>>
vars == <<socket, member, listener, receiver, tokenVars, closes, frameVars,
          received>>

TypeOK ==
    /\ socket \in {"open", "broken", "closed"}
    /\ member \in BOOLEAN
    /\ listener \in {"select", "write", "handle", "remove", "close", "shut",
                     "done"}
    /\ receiver \in {"read", "offer", "close", "done"}
    /\ tokens \in 0..2
    /\ call \in [Callers -> {"none", "check", "first", "second"}]
    /\ again \in SUBSET Bans
    /\ closes \in 0..2
    /\ outbox \in Seq(1..MaxFrames)
    /\ sent \in 0..MaxFrames
    /\ dropped \in SUBSET (1..MaxFrames)
    /\ wire \in Seq(1..MaxFrames)
    /\ received \in 0..MaxMessages

\* A client that has synced to a thread.
Init ==
    /\ socket = "open"
    /\ member = TRUE
    /\ listener = "select"
    /\ receiver = "read"
    /\ tokens = 0
    /\ call = [x \in Callers |-> "none"]
    /\ again = {}
    /\ closes = 0
    /\ outbox = << >>
    /\ sent = 0
    /\ dropped = {}
    /\ wire = << >>
    /\ received = 0

-----------------------------------------------------------------------------
(* Close, called by x.                                                     *)

Counted(n) == IF closes + n > 2 THEN 2 ELSE closes + n

StartClose(x) ==
    /\ call' = [call EXCEPT ![x] = "check"]
    /\ closes' = IF x = "listener" THEN closes ELSE Counted(1)
    /\ UNCHANGED again

\* The listener goes on to shut the socket, and the receiver is done.
Return(x) ==
    /\ call' = [call EXCEPT ![x] = IF x \in again THEN "check" ELSE "none"]
    /\ again' = again \ {x}
    /\ listener' = IF x = "listener" THEN "shut" ELSE listener
    /\ receiver' = IF x = "receiver" THEN "done" ELSE receiver

\* The look for a token takes the one it finds, and that is all then.
CloseCheck(x) ==
    /\ call[x] = "check"
    /\ IF tokens > 0
         THEN tokens' = tokens - 1 /\ Return(x)
         ELSE /\ call' = [call EXCEPT ![x] = "first"]
              /\ UNCHANGED <<tokens, again, listener, receiver>>
    /\ UNCHANGED <<socket, member, closes, frameVars, received>>

\* Mutants of Offered: the channel takes more than two; or none at all.
OfferedOver == tokens + 1
NotOffered == tokens
\* A token is dropped if the channel is full.
Offered == IF tokens < 2 THEN tokens + 1 ELSE tokens

CloseOffer(x) ==
    /\ call[x] \in {"first", "second"}
    /\ tokens' = Offered
    /\ IF call[x] = "first"
         THEN /\ call' = [call EXCEPT ![x] = "second"]
              /\ UNCHANGED <<again, listener, receiver>>
         ELSE Return(x)
    /\ UNCHANGED <<socket, member, closes, frameVars, received>>

CloseStep(x) == CloseCheck(x) \/ CloseOffer(x)

-----------------------------------------------------------------------------
(* Send, and the goroutines that send and close.                           *)

Full == Len(outbox) >= SendCap

\* Mutant of Enqueue: the oldest frame makes room for the new one.
EnqueueNewest ==
    /\ sent' = sent + 1
    /\ outbox' = Append(IF Full THEN Tail(outbox) ELSE outbox, sent + 1)
    /\ UNCHANGED dropped

\* The non-blocking send on sendExternal.
Enqueue ==
    /\ sent' = sent + 1
    /\ outbox' = IF Full THEN outbox ELSE Append(outbox, sent + 1)
    /\ dropped' = IF Full THEN dropped \cup {sent + 1} ELSE dropped

\* Send, called by the feed, closes the client on an overflow.
Send ==
    /\ member
    /\ call["feed"] = "none"
    /\ sent < MaxFrames
    /\ Enqueue
    /\ IF Full THEN StartClose("feed") ELSE UNCHANGED <<call, again, closes>>
    /\ UNCHANGED <<socket, member, listener, receiver, tokens, wire, received>>

\* DisconnectByBoardAndIP finds the client in the map of synced clients,
\* sends it the reason and closes it, a second time if Send did.
Ban(b) ==
    /\ member
    /\ call[b] = "none"
    /\ sent < MaxFrames
    /\ Enqueue
    /\ call' = [call EXCEPT ![b] = "check"]
    /\ again' = IF Full THEN again \cup {b} ELSE again
    /\ closes' = Counted(IF Full THEN 2 ELSE 1)
    /\ UNCHANGED <<socket, member, listener, receiver, tokens, wire, received>>

-----------------------------------------------------------------------------
(* The listener.                                                           *)

GoListener(point) == listener' = point /\ UNCHANGED receiver

ListenerTakesToken ==
    /\ listener = "select" /\ tokens > 0
    /\ tokens' = tokens - 1
    /\ GoListener("remove")
    /\ UNCHANGED <<socket, member, call, again, closes, frameVars, received>>

\* The write has no deadline: it blocks for as long as the peer reads slowly.
TakeFrame ==
    /\ listener = "select" /\ outbox # << >>
    /\ outbox' = Tail(outbox)
    /\ wire' = IF socket = "open" THEN Append(wire, Head(outbox)) ELSE wire
    /\ GoListener("write")
    /\ UNCHANGED <<socket, member, tokenVars, closes, sent, dropped, received>>

Written ==
    /\ listener = "write"
    /\ GoListener(IF socket = "open" THEN "select" ELSE "remove")
    /\ UNCHANGED <<socket, member, tokenVars, closes, frameVars, received>>

\* Mutant of PingFails: the result of the ping is ignored.
PingIgnored == FALSE /\ UNCHANGED vars

PingFails ==
    /\ listener = "select" /\ socket # "open"
    /\ GoListener("remove")
    /\ UNCHANGED <<socket, member, tokenVars, closes, frameVars, received>>

TakeMessage ==
    /\ listener = "select" /\ receiver = "offer"
    /\ listener' = "handle"
    /\ receiver' = "read"
    /\ UNCHANGED <<socket, member, tokenVars, closes, frameVars, received>>

\* A handler returns, with an error or without.
Handled ==
    /\ listener = "handle"
    /\ \E point \in {"select", "remove"} : GoListener(point)
    /\ UNCHANGED <<socket, member, tokenVars, closes, frameVars, received>>

\* feeds.RemoveClient, then closeConnections, which calls Close first.
RemoveClient ==
    /\ listener = "remove"
    /\ member' = FALSE
    /\ GoListener("close")
    /\ StartClose("listener")
    /\ UNCHANGED <<socket, tokens, frameVars, received>>

\* Mutant of Shut: the socket is left to the peer.
ShutHalf ==
    /\ listener = "shut"
    /\ GoListener("done")
    /\ UNCHANGED <<socket, member, tokenVars, closes, frameVars, received>>

\* The close frame and conn.Close.
Shut ==
    /\ listener = "shut"
    /\ socket' = "closed"
    /\ GoListener("done")
    /\ UNCHANGED <<member, tokenVars, closes, frameVars, received>>

-----------------------------------------------------------------------------
(* The receiver, and the peer.                                             *)

GoReceiver(point) == receiver' = point /\ UNCHANGED listener

Read ==
    /\ receiver = "read" /\ socket = "open"
    /\ received < MaxMessages
    /\ received' = received + 1
    /\ GoReceiver("offer")
    /\ UNCHANGED <<socket, member, tokenVars, closes, frameVars>>

ReadFails ==
    /\ receiver = "read" /\ socket # "open"
    /\ GoReceiver("close")
    /\ StartClose("receiver")
    /\ UNCHANGED <<socket, member, tokens, frameVars, received>>

ReceiverTakesToken ==
    /\ receiver = "offer" /\ tokens > 0
    /\ tokens' = tokens - 1
    /\ GoReceiver("done")
    /\ UNCHANGED <<socket, member, call, again, closes, frameVars, received>>

Break ==
    /\ socket = "open"
    /\ socket' = "broken"
    /\ UNCHANGED <<member, listener, receiver, tokenVars, closes, frameVars,
                   received>>

-----------------------------------------------------------------------------
ListenerStep == \/ ListenerTakesToken \/ TakeFrame \/ Written \/ PingFails
                \/ TakeMessage \/ Handled \/ RemoveClient \/ Shut
ReceiverStep == Read \/ ReadFails \/ ReceiverTakesToken

Next ==
    \/ ListenerStep
    \/ ReceiverStep
    \/ \E x \in Callers : CloseStep(x)
    \/ \E b \in Bans : Ban(b)
    \/ Send
    \/ Break

(***************************************************************************)
(* Goroutines that can run do.  A select with several ready cases picks    *)
(* one at random, hence no case that is ready again and again is passed    *)
(* over for ever; a ping is due every minute, and a slow write succeeds or *)
(* fails in the end.  The peer need not send anything.                     *)
(***************************************************************************)
Spec ==
    /\ Init /\ [][Next]_vars
    /\ WF_vars(ListenerStep)
    /\ WF_vars(ReadFails) /\ WF_vars(ReceiverTakesToken)
    /\ SF_vars(ListenerTakesToken) /\ SF_vars(PingFails)
    /\ \A x \in Callers : WF_vars(CloseStep(x))

-----------------------------------------------------------------------------
(* Properties.                                                             *)

\* The peer sees the frames in the order they were sent, and misses none but
\* those that found the queue full, for which the client is being closed.
WireInOrder ==
    wire # << >> =>
        /\ \A i \in 1..Len(wire) - 1 : wire[i] < wire[i + 1]
        /\ \A f \in 1..Last(wire) : f \in ToSet(wire) \cup dropped
        /\ dropped # {} => closes > 0

\* The frames of a client, on their way and at the peer
FramesHold == TypeOK /\ WireInOrder

\* A connection that breaks is cleaned up, whoever has taken the tokens: the
\* listener leaves its feed and closes the socket.
BrokenIsCleanedUp == (socket = "broken") ~> (listener = "done" /\ ~member)

\* A client closed once is closed: the listener ends, if nobody calls Close a
\* second time before.
OneCloseSuffices ==
    [](closes <= 1) => ((closes = 1) ~> (listener = "done"))

\* After the listener the receiver never stays at the socket.  It may stay at
\* the offer of a message, for which no token is left.
ReceiverLeavesSocket ==
    (listener = "done") ~> (receiver \in {"offer", "done"})

\* Close "closes a websocket connection" and is to "exit both for-select loops,
\* if they have not exited yet" (websockets.go:315, :322): a client that Close
\* was called for is eventually closed.
CloseCloses == (closes > 0) ~> (listener = "done")
=============================================================================
