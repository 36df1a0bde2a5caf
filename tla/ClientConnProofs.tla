-------------------------- MODULE ClientConnProofs --------------------------
(***************************************************************************)
(* Proofs about ClientConn, for any goroutines that ban, capacity of the   *)
(* outbox, and number of frames and messages: the frames a peer sees, and  *)
(* what a single Close leaves for the listener.                            *)
(***************************************************************************)
EXTENDS ClientConn, SequenceTheorems, TLAPS

-----------------------------------------------------------------------------
(* The inductive invariants.                                               *)

\* Strictly ascending
Ascends(s) == \A i, j \in 1..Len(s) : i < j => s[i] < s[j]
\* f is in the sequence s
Has(s, f) == \E i \in 1..Len(s) : s[i] = f

\* The frames on the wire and in the outbox ascend, and were sent.
InOrder ==
    /\ Ascends(wire) /\ Ascends(outbox)
    /\ \A i \in 1..Len(wire), j \in 1..Len(outbox) : wire[i] < outbox[j]
    /\ \A i \in 1..Len(wire) : wire[i] <= sent
    /\ \A j \in 1..Len(outbox) : outbox[j] <= sent

\* Nothing is missing: before the last frame on the wire only what was dropped;
\* and none that was sent, for as long as the socket is open.
Complete ==
    /\ \A i \in 1..Len(wire) : \A f \in 1..wire[i] : Has(wire, f) \/ f \in dropped
    /\ socket = "open" => \A f \in 1..sent : Has(wire, f) \/ Has(outbox, f) \/ f \in dropped

\* An overflow closes the client.
Overflowed == dropped # {} => closes > 0

\* What every step keeps of the frames
FrameInv == InOrder /\ Complete /\ Overflowed

\* The listener is in its loop
Looping == listener \in {"select", "write", "handle"}
\* x is in Close
Calls(x) == call[x] # "none"
\* Tokens the receiver may have taken
Taken == IF receiver = "done" THEN 1 ELSE 0

\* What the first call of Close has done so far, while the listener has not met
\* it: two tokens less the one the receiver may have taken, and no second call
\* that took one back
TokenInv ==
    Looping =>
        /\ closes = 0 => /\ tokens = 0 /\ again = {}
                         /\ \A x \in Callers : call[x] = "none"
                         /\ receiver \in {"read", "offer"}
        /\ call["listener"] = "none"
        /\ receiver = "close" <=> call["receiver"] # "none"
        /\ closes = 1 =>
             /\ again = {}
             /\ \A x, y \in Callers : Calls(x) /\ Calls(y) => x = y
             /\ \A x \in Callers : call[x] \in {"check", "first"} =>
                    tokens = 0 /\ receiver # "done"
             /\ \A x \in Callers : call[x] = "second" => tokens >= 1 - Taken
             /\ (\A x \in Callers : call[x] = "none") => tokens >= 2 - Taken

-----------------------------------------------------------------------------
(* Every step keeps them.                                                  *)

\* Every step keeps the types.
LEMMA TypeKeeps ==
    ASSUME TypeOK, [Next]_vars PROVE TypeOK'
<1> USE ClientConnAssumption DEF vars, tokenVars, frameVars, TypeOK, Callers
<1>1. CASE ListenerStep
  <2>1. CASE TakeFrame
    <3>1. Head(outbox) \in 1..MaxFrames /\ Tail(outbox) \in Seq(1..MaxFrames)
      BY <2>1, HeadTailProperties DEF TakeFrame
    <3>2. Append(wire, Head(outbox)) \in Seq(1..MaxFrames)
      BY <3>1, AppendProperties
    <3> QED BY <2>1, <3>1, <3>2 DEF TakeFrame, GoListener
  <2>2. CASE RemoveClient
    BY <2>2 DEF RemoveClient, StartClose, GoListener
  <2>3. CASE ListenerTakesToken
    BY <2>3 DEF ListenerTakesToken, GoListener
  <2>4. CASE Written \/ PingFails \/ TakeMessage \/ Handled \/ Shut
    BY <2>4 DEF Written, PingFails, TakeMessage, Handled, Shut, GoListener
  <2> QED BY <1>1, <2>1, <2>2, <2>3, <2>4 DEF ListenerStep
<1>2. CASE ReceiverStep
  <2>1. CASE Read
    BY <2>1 DEF Read, GoReceiver
  <2>2. CASE ReadFails
    BY <2>2 DEF ReadFails, GoReceiver, StartClose, Counted
  <2>3. CASE ReceiverTakesToken
    BY <2>3 DEF ReceiverTakesToken, GoReceiver
  <2> QED BY <1>2, <2>1, <2>2, <2>3 DEF ReceiverStep
<1>3. ASSUME NEW x \in Callers, CloseStep(x) PROVE TypeOK'
  <2>1. call' \in [Callers -> {"none", "check", "first", "second"}] /\ again' \in SUBSET Bans
    BY <1>3 DEF CloseStep, CloseCheck, CloseOffer, Return
  <2>2. listener' \in {listener, "shut"} /\ receiver' \in {receiver, "done"}
    BY <1>3 DEF CloseStep, CloseCheck, CloseOffer, Return
  <2>3. tokens' \in 0..2
    BY <1>3 DEF CloseStep, CloseCheck, CloseOffer, Offered
  <2>4. UNCHANGED <<socket, member, closes, frameVars, received>>
    BY <1>3 DEF CloseStep, CloseCheck, CloseOffer
  <2> QED BY <2>1, <2>2, <2>3, <2>4
<1>4. ASSUME Enqueue, sent < MaxFrames
      PROVE /\ outbox' \in Seq(1..MaxFrames) /\ sent' \in 0..MaxFrames
            /\ dropped' \in SUBSET (1..MaxFrames)
  <2>1. sent + 1 \in 1..MaxFrames /\ sent' = sent + 1
    BY <1>4 DEF Enqueue
  <2>2. Append(outbox, sent + 1) \in Seq(1..MaxFrames)
    BY <2>1, AppendProperties
  <2>3. dropped \cup {sent + 1} \in SUBSET (1..MaxFrames) /\ sent + 1 \in 0..MaxFrames
    BY <2>1
  <2>4. CASE Full
    BY <1>4, <2>1, <2>3, <2>4 DEF Enqueue
  <2>5. CASE ~Full
    BY <1>4, <2>1, <2>2, <2>3, <2>5 DEF Enqueue
  <2> QED BY <2>4, <2>5
<1>5. ASSUME NEW b \in Bans, Ban(b) PROVE TypeOK'
  <2>1. call' \in [Callers -> {"none", "check", "first", "second"}] /\ again' \in SUBSET Bans
    BY <1>5 DEF Ban
  <2>2. closes' \in 0..2
    BY <1>5 DEF Ban, Counted, Full
  <2> QED BY <1>4, <1>5, <2>1, <2>2 DEF Ban
<1>6. CASE Send
  <2>1. UNCHANGED <<call, again, closes>> \/ StartClose("feed")
    BY <1>6 DEF Send
  <2>2. call' \in [Callers -> {"none", "check", "first", "second"}] /\ again' \in SUBSET Bans
    BY <2>1 DEF StartClose
  <2>3. closes' \in 0..2
    BY <2>1 DEF StartClose, Counted
  <2> QED BY <1>4, <1>6, <2>2, <2>3 DEF Send
<1>7. CASE Break \/ UNCHANGED vars
  BY <1>7 DEF Break
<1> QED BY <1>1, <1>2, <1>3, <1>5, <1>6, <1>7 DEF Next

\* Every step keeps the account of the tokens.
LEMMA TokensKept ==
    ASSUME TypeOK, TokenInv, [Next]_vars PROVE TokenInv'
<1> USE ClientConnAssumption
    DEF vars, tokenVars, frameVars, TypeOK, Callers, TokenInv, Looping, Calls, Taken
<1>1. CASE ListenerStep
  <2>1. CASE ListenerTakesToken
    BY <2>1 DEF ListenerTakesToken, GoListener
  <2>2. CASE TakeFrame
    BY <2>2 DEF TakeFrame, GoListener
  <2>3. CASE Written
    BY <2>3 DEF Written, GoListener
  <2>4. CASE PingFails
    BY <2>4 DEF PingFails, GoListener
  <2>5. CASE TakeMessage
    BY <2>5 DEF TakeMessage
  <2>6. CASE Handled
    BY <2>6 DEF Handled, GoListener
  <2>7. CASE RemoveClient
    BY <2>7 DEF RemoveClient, GoListener, StartClose
  <2>8. CASE Shut
    BY <2>8 DEF Shut, GoListener
  <2> QED BY <1>1, <2>1, <2>2, <2>3, <2>4, <2>5, <2>6, <2>7, <2>8 DEF ListenerStep
<1>2. CASE ReceiverStep
  <2>1. CASE Read
    BY <2>1 DEF Read, GoReceiver
  <2>2. CASE ReadFails
    BY <2>2 DEF ReadFails, GoReceiver, StartClose, Counted
  <2>3. CASE ReceiverTakesToken
    BY <2>3 DEF ReceiverTakesToken, GoReceiver
  <2> QED BY <1>2, <2>1, <2>2, <2>3 DEF ReceiverStep
<1>3. ASSUME NEW x \in Callers, CloseCheck(x) PROVE TokenInv'
  BY <1>3 DEF CloseCheck, Return
<1>4. ASSUME NEW x \in Callers, CloseOffer(x) PROVE TokenInv'
  BY <1>4 DEF CloseOffer, Return, Offered
<1>5. ASSUME NEW b \in Bans, Ban(b) PROVE TokenInv'
  <2>1. \/ ~Full /\ again' = again /\ closes' = Counted(1)
        \/ Full /\ closes' = 2
    BY <1>5 DEF Ban, Counted
  <2>2. /\ call' = [call EXCEPT ![b] = "check"] /\ call[b] = "none"
        /\ UNCHANGED <<listener, receiver, tokens>>
    BY <1>5 DEF Ban
  <2>3. CASE closes = 0
    <3>1. closes' = 2 \/ (closes' = 1 /\ again' = again)
      BY <2>1, <2>3 DEF Counted
    <3>2. b # "listener" /\ b # "receiver" /\ b \in Callers
      OBVIOUS
    <3>3. CASE Looping
      <4>1. /\ tokens = 0 /\ again = {} /\ receiver \in {"read", "offer"}
            /\ \A x \in Callers : call[x] = "none"
        BY <2>3, <3>3
      <4>2. \A x \in Callers : call'[x] = IF x = b THEN "check" ELSE "none"
        BY <2>2, <4>1
      <4> QED BY <2>2, <3>1, <3>2, <4>1, <4>2
    <3>4. CASE ~Looping
      BY <2>2, <3>4
    <3> QED BY <3>3, <3>4
  <2>4. CASE closes # 0
    <3>1. closes' = 2
      BY <2>1, <2>4 DEF Counted
    <3>2. b # "listener" /\ b # "receiver"
      OBVIOUS
    <3> QED BY <2>2, <3>1, <3>2
  <2> QED BY <2>3, <2>4
<1>6. CASE Send
  <2>1. \/ UNCHANGED <<call, again, closes>>
        \/ StartClose("feed") /\ call["feed"] = "none"
    BY <1>6 DEF Send
  <2>2. UNCHANGED <<listener, receiver, tokens>>
    BY <1>6 DEF Send
  <2> QED BY <2>1, <2>2 DEF StartClose, Counted
<1>7. CASE Break \/ UNCHANGED vars
  BY <1>7 DEF Break
<1> QED BY <1>1, <1>2, <1>3, <1>4, <1>5, <1>6, <1>7 DEF Next, CloseStep

\* A greater number may be appended.
LEMMA AscendsAppend ==
    ASSUME NEW S \in SUBSET Int, NEW s \in Seq(S), Ascends(s),
           NEW e \in S, \A i \in 1..Len(s) : s[i] < e
    PROVE Ascends(Append(s, e))
<1> DEFINE t == Append(s, e)
<1>1. /\ Len(s) \in Nat /\ Len(t) = Len(s) + 1 /\ t[Len(s) + 1] = e
      /\ \A i \in 1..Len(s) : t[i] = s[i]
  BY AppendProperties, LenProperties
<1> HIDE DEF t
<1> SUFFICES ASSUME NEW i \in 1..Len(t), NEW j \in 1..Len(t), i < j PROVE t[i] < t[j]
  BY DEF Ascends, t
<1>2. i \in 1..Len(s) /\ t[i] = s[i]
  BY <1>1
<1>3. CASE j = Len(s) + 1
  BY <1>1, <1>2, <1>3
<1>4. CASE j \in 1..Len(s)
  BY <1>1, <1>2, <1>4 DEF Ascends
<1> QED BY <1>1, <1>3, <1>4

\* The head is less than the rest, which ascends.
LEMMA AscendsTail ==
    ASSUME NEW S \in SUBSET Int, NEW s \in Seq(S), Ascends(s), s # << >>
    PROVE Ascends(Tail(s)) /\ \A j \in 1..Len(Tail(s)) : Head(s) < Tail(s)[j]
<1>1. /\ Len(s) \in Nat /\ Len(s) > 0 /\ Len(Tail(s)) = Len(s) - 1
      /\ \A i \in 1..Len(Tail(s)) : Tail(s)[i] = s[i + 1]
      /\ Head(s) = s[1]
  BY HeadTailProperties, LenProperties, EmptySeq
<1>2. ASSUME NEW i \in 1..Len(Tail(s)), NEW j \in 1..Len(Tail(s)), i < j
      PROVE Tail(s)[i] < Tail(s)[j]
  <2>1. i + 1 \in 1..Len(s) /\ j + 1 \in 1..Len(s) /\ i + 1 < j + 1
    BY <1>1, <1>2
  <2> QED BY <1>1, <2>1 DEF Ascends
<1>3. ASSUME NEW j \in 1..Len(Tail(s)) PROVE Head(s) < Tail(s)[j]
  <2>1. j + 1 \in 1..Len(s) /\ 1 \in 1..Len(s) /\ 1 < j + 1
    BY <1>1
  <2> QED BY <1>1, <2>1 DEF Ascends
<1> QED BY <1>2, <1>3 DEF Ascends

\* Steps that leave the frames alone, and break or shut the socket at most.
LEMMA FramesUntouched ==
    ASSUME TypeOK, FrameInv, UNCHANGED frameVars, closes' \in 0..2, closes' >= closes,
           socket' = "open" => socket = "open"
    PROVE FrameInv'
<1> USE DEF frameVars, FrameInv
<1>1. InOrder'
  BY DEF InOrder, Ascends
<1>2. Complete'
  BY DEF Complete, Has
<1>3. Overflowed'
  BY DEF Overflowed, TypeOK
<1> QED BY <1>1, <1>2, <1>3

\* A frame is sent, which fits into the outbox or closes the client.
LEMMA EnqueueKeeps ==
    ASSUME TypeOK, FrameInv, Enqueue, sent < MaxFrames, UNCHANGED <<wire, socket>>,
           closes' \in 0..2, closes' >= closes, Full => closes' > 0
    PROVE FrameInv'
<1> USE ClientConnAssumption DEF FrameInv
<1>1. /\ sent' = sent + 1 /\ sent \in Nat /\ Len(wire) \in Nat /\ Len(outbox) \in Nat
      /\ \A i \in 1..Len(wire) : wire[i] \in 1..MaxFrames
      /\ \A j \in 1..Len(outbox) : outbox[j] \in 1..MaxFrames
  BY ElementOfSeq, LenProperties DEF Enqueue, TypeOK
<1>2. CASE Full
  <2>1. outbox' = outbox /\ dropped' = dropped \cup {sent + 1}
    BY <1>2 DEF Enqueue
  <2>2. InOrder'
    BY <1>1, <2>1 DEF InOrder, Ascends
  <2>3. Complete'
    BY <1>1, <2>1 DEF Complete, Has
  <2> QED BY <1>2, <2>2, <2>3 DEF Overflowed
<1>3. CASE ~Full
  <2>1. outbox' = Append(outbox, sent + 1) /\ dropped' = dropped
    BY <1>3 DEF Enqueue
  <2>2. /\ Len(outbox') = Len(outbox) + 1
        /\ \A j \in 1..Len(outbox) : outbox'[j] = outbox[j]
        /\ outbox'[Len(outbox) + 1] = sent + 1
    <3>1. sent + 1 \in 1..MaxFrames
      BY <1>1
    <3> QED BY <2>1, <3>1, AppendProperties DEF TypeOK
  <2>3. InOrder'
    <3>1. Ascends(wire)' /\ \A i \in 1..Len(wire) : wire[i] <= sent'
      BY <1>1 DEF InOrder, Ascends
    <3>2. Ascends(outbox)'
      <4>1. \A j \in 1..Len(outbox) : outbox[j] < sent + 1
        BY <1>1 DEF InOrder
      <4>2. 1..MaxFrames \in SUBSET Int /\ sent + 1 \in 1..MaxFrames
        BY <1>1
      <4> QED BY <2>1, <4>1, <4>2, AscendsAppend DEF InOrder, TypeOK
    <3>3. ASSUME NEW j \in 1..Len(outbox')
          PROVE outbox'[j] <= sent' /\ \A i \in 1..Len(wire) : wire[i] < outbox'[j]
      <4>1. CASE j = Len(outbox) + 1
        BY <1>1, <2>2, <4>1 DEF InOrder
      <4>2. CASE j \in 1..Len(outbox)
        BY <1>1, <2>2, <4>2 DEF InOrder
      <4> QED BY <1>1, <2>2, <4>1, <4>2
    <3> QED BY <3>1, <3>2, <3>3 DEF InOrder
  <2>4. Complete'
    <3>1. \A f : Has(outbox, f) => Has(outbox, f)'
      BY <1>1, <2>2 DEF Has
    <3>2. \A f : f = sent + 1 => Has(outbox, f)'
      BY <1>1, <2>2 DEF Has
    <3>3. \A i \in 1..Len(wire) : \A f \in 1..wire[i] : Has(wire, f)' \/ f \in dropped
      BY DEF Complete, Has
    <3>4. socket = "open" =>
            \A f \in 1..sent + 1 : Has(wire, f)' \/ Has(outbox, f)' \/ f \in dropped
      <4> SUFFICES ASSUME socket = "open", NEW f \in 1..sent + 1, f # sent + 1
                   PROVE Has(wire, f)' \/ Has(outbox, f)' \/ f \in dropped
        BY <3>2
      <4>1. f \in 1..sent
        BY <1>1
      <4> QED BY <3>1, <4>1 DEF Complete, Has
    <3> QED BY <1>1, <2>1, <3>3, <3>4 DEF Complete
  <2>5. Overflowed'
    BY <2>1 DEF Overflowed, TypeOK
  <2> QED BY <2>3, <2>4, <2>5
<1> QED BY <1>2, <1>3

\* The listener takes a frame and writes it, if the socket is open.
LEMMA TakeFrameKeeps ==
    ASSUME TypeOK, FrameInv, TakeFrame PROVE FrameInv'
<1> USE ClientConnAssumption DEF FrameInv
<1> DEFINE h == outbox[1]
           n == Len(wire)
           m == Len(outbox)
<1>1. /\ sent \in Nat /\ n \in Nat /\ m \in Nat /\ m > 0
      /\ \A i \in 1..n : wire[i] \in 1..MaxFrames
      /\ \A j \in 1..m : outbox[j] \in 1..MaxFrames
      /\ UNCHANGED <<socket, sent, dropped, closes>>
  BY ElementOfSeq, LenProperties, EmptySeq DEF TakeFrame, TypeOK
<1>2. /\ Len(outbox') = m - 1
      /\ \A j \in 1..m - 1 : outbox'[j] = outbox[j + 1]
  BY HeadTailProperties DEF TakeFrame, TypeOK
<1>5. /\ Ascends(outbox)' /\ \A j \in 1..Len(outbox') : outbox'[j] <= sent'
      /\ \A i \in 1..n, j \in 1..Len(outbox') : wire[i] < outbox'[j]
  <2>1. Ascends(outbox)'
    BY AscendsTail DEF InOrder, TakeFrame, TypeOK
  <2>2. \A j \in 1..m - 1 : j + 1 \in 1..m
    BY <1>1
  <2> QED BY <1>1, <1>2, <2>1, <2>2 DEF InOrder
<1>3. CASE socket # "open"
  <2>1. wire' = wire
    BY <1>3 DEF TakeFrame
  <2>2. InOrder'
    <3>1. Ascends(wire)' /\ \A i \in 1..Len(wire') : wire'[i] <= sent'
      BY <1>1, <2>1 DEF InOrder, Ascends
    <3> QED BY <1>1, <2>1, <3>1, <1>5 DEF InOrder
  <2>3. Complete' /\ Overflowed'
    BY <1>1, <1>3, <2>1 DEF Complete, Has, Overflowed
  <2> QED BY <2>2, <2>3
<1>4. CASE socket = "open"
  <2>1. wire' = Append(wire, h) /\ h \in 1..MaxFrames
    BY <1>1, <1>4 DEF TakeFrame, TypeOK
  <2>2. /\ Len(wire') = n + 1
        /\ \A i \in 1..n : wire'[i] = wire[i]
        /\ wire'[n + 1] = h
    BY <2>1, AppendProperties DEF TypeOK
  <2> HIDE DEF h, n, m
  <2>3. InOrder'
    <3>1. \A i \in 1..n + 1 : wire'[i] = IF i = n + 1 THEN h ELSE wire[i]
      BY <1>1, <2>2
    <3>2. \A i \in 1..n : wire[i] < h /\ wire[i] <= sent
      BY <1>1 DEF InOrder, n, m, h
    <3>3. Ascends(wire)' /\ \A i \in 1..Len(wire') : wire'[i] <= sent'
      BY <1>1, <2>1, <2>2, <3>1, <3>2 DEF InOrder, Ascends, n, m, h
    <3>4. \A j \in 1..m - 1 : h < outbox'[j]
      BY <1>1, <1>2 DEF InOrder, Ascends, m, h
    <3>5. \A i \in 1..n, j \in 1..m - 1 : wire[i] < outbox'[j]
      BY <1>1, <1>2 DEF InOrder, n, m
    <3>6. \A i \in 1..Len(wire'), j \in 1..Len(outbox') : wire'[i] < outbox'[j]
      BY <1>1, <1>2, <2>2, <3>1, <3>4, <3>5
    <3> QED BY <3>3, <3>6, <1>5 DEF InOrder
  <2>4. Complete'
    <3>1. \A f : Has(wire, f) \/ f = h => Has(wire, f)'
      BY <1>1, <2>2 DEF Has, n
    <3>2. \A f : Has(outbox, f) => f = h \/ Has(outbox, f)'
      <4> SUFFICES ASSUME NEW f, NEW j \in 1..m, outbox[j] = f, f # h
                   PROVE Has(outbox, f)'
        BY DEF Has, m
      <4>1. j - 1 \in 1..m - 1 /\ outbox'[j - 1] = f
        BY <1>1, <1>2 DEF h
      <4> QED BY <1>2, <4>1 DEF Has
    <3>3. \A f \in 1..h : Has(wire, f)' \/ f \in dropped
      <4> SUFFICES ASSUME NEW f \in 1..h, ~Has(wire, f), f # h PROVE f \in dropped
        BY <3>1
      <4>1. f \in 1..sent /\ \A j \in 1..m : outbox[j] > f
        BY <1>1, <2>1 DEF InOrder, Ascends, h, m
      <4>2. ~Has(outbox, f)
        BY <1>1, <4>1 DEF Has, m
      <4> QED BY <1>4, <4>1, <4>2 DEF Complete
    <3>4. \A i \in 1..n + 1 : \A f \in 1..wire'[i] : Has(wire, f)' \/ f \in dropped
      <4>1. \A i \in 1..n : \A f \in 1..wire[i] : Has(wire, f)' \/ f \in dropped
        BY <3>1 DEF Complete, n
      <4> QED BY <1>1, <2>2, <3>3, <4>1
    <3>5. \A f \in 1..sent : Has(wire, f)' \/ Has(outbox, f)' \/ f \in dropped
      BY <1>4, <3>1, <3>2 DEF Complete
    <3> QED BY <1>1, <2>2, <3>4, <3>5 DEF Complete
  <2>5. Overflowed'
    BY <1>1 DEF Overflowed
  <2> QED BY <2>3, <2>4, <2>5
<1> QED BY <1>3, <1>4

\* Every step keeps the order of the frames, and loses none.
LEMMA FramesKept ==
    ASSUME TypeOK, FrameInv, [Next]_vars PROVE FrameInv'
<1> USE ClientConnAssumption DEF vars, tokenVars
<1>1. CASE TakeFrame
  BY <1>1, TakeFrameKeeps
<1>2. CASE Send
  <2>1. /\ Enqueue /\ sent < MaxFrames /\ UNCHANGED <<wire, socket>>
        /\ \/ ~Full /\ closes' = closes
           \/ Full /\ closes' = Counted(1)
    BY <1>2 DEF Send, StartClose
  <2>2. closes' \in 0..2 /\ closes' >= closes /\ (Full => closes' > 0)
    BY <2>1 DEF TypeOK, Counted
  <2> QED BY <2>1, <2>2, EnqueueKeeps
<1>3. ASSUME NEW b \in Bans, Ban(b) PROVE FrameInv'
  <2>1. /\ Enqueue /\ sent < MaxFrames /\ UNCHANGED <<wire, socket>>
        /\ closes' \in {Counted(1), Counted(2)}
    BY <1>3 DEF Ban
  <2>2. closes' \in 0..2 /\ closes' >= closes /\ closes' > 0
    BY <2>1 DEF TypeOK, Counted
  <2> QED BY <2>1, <2>2, EnqueueKeeps
<1>4. ASSUME (ListenerStep /\ ~TakeFrame) \/ ReceiverStep \/ Break \/ UNCHANGED vars
               \/ \E x \in Callers : CloseStep(x)
      PROVE FrameInv'
  <2>1. UNCHANGED frameVars /\ (socket' = "open" => socket = "open")
    BY <1>4 DEF ListenerStep, ListenerTakesToken, Written, PingFails, TakeMessage, Handled,
                RemoveClient, Shut, ReceiverStep, Read, ReadFails, ReceiverTakesToken, Break,
                CloseStep, CloseCheck, CloseOffer
  <2>2. closes' \in {closes, Counted(1)}
    BY <1>4 DEF ListenerStep, ListenerTakesToken, Written, PingFails, TakeMessage, Handled,
                RemoveClient, Shut, ReceiverStep, Read, ReadFails, ReceiverTakesToken, Break,
                CloseStep, CloseCheck, CloseOffer, StartClose
  <2>3. closes' \in 0..2 /\ closes' >= closes
    BY <2>2 DEF TypeOK, Counted
  <2> QED BY <2>1, <2>3, FramesUntouched
<1> QED BY <1>1, <1>2, <1>3, <1>4 DEF Next

-----------------------------------------------------------------------------
(* The theorems.                                                           *)

\* The types hold in every state of every behaviour.
LEMMA TypeHolds == Spec => []TypeOK
<1>1. Init => TypeOK
  BY ClientConnAssumption, EmptySeq DEF Init, TypeOK, Callers
<1> QED BY <1>1, TypeKeeps, PTL DEF Spec

\* The peer sees the frames in the order they were sent, whatever order the
\* goroutines run in, and misses none before the last it saw but those that
\* found the queue full, for which the client is being closed.
THEOREM FramesInOrder == Spec => []FramesHold
<1>1. Init => FrameInv
  BY ClientConnAssumption, EmptySeq
     DEF Init, FrameInv, InOrder, Ascends, Complete, Has, Overflowed
<1>2. ASSUME TypeOK, FrameInv PROVE FramesHold
  <2> SUFFICES ASSUME wire # << >>
               PROVE /\ \A i \in 1..Len(wire) - 1 : wire[i] < wire[i + 1]
                     /\ \A f \in 1..Last(wire) : f \in ToSet(wire) \cup dropped
                     /\ dropped # {} => closes > 0
    BY <1>2 DEF FramesHold, WireInOrder
  <2>1. Len(wire) \in Nat /\ Len(wire) > 0 /\ DOMAIN wire = 1..Len(wire)
    BY <1>2, LenProperties, EmptySeq DEF TypeOK
  <2>2. ASSUME NEW i \in 1..Len(wire) - 1 PROVE wire[i] < wire[i + 1]
    <3>1. i \in 1..Len(wire) /\ i + 1 \in 1..Len(wire) /\ i < i + 1
      BY <2>1, <2>2
    <3> QED BY <1>2, <3>1 DEF FrameInv, InOrder, Ascends
  <2>3. ASSUME NEW f \in 1..Last(wire) PROVE f \in ToSet(wire) \cup dropped
    <3>1. Has(wire, f) \/ f \in dropped
      BY <1>2, <2>1, <2>3 DEF FrameInv, Complete, Last
    <3> QED BY <2>1, <3>1 DEF Has, ToSet
  <2> QED BY <1>2, <2>2, <2>3 DEF FrameInv, Overflowed
<1> QED BY <1>1, <1>2, TypeHolds, FramesKept, PTL DEF Spec

\* While the listener is in its loop, after one call of Close that has returned
\* there is a token left for it
TokenIsLeft ==
    closes = 1 /\ Looping /\ (\A x \in Callers : call[x] = "none") => tokens > 0

\* A client that is closed once, by anybody, cannot lose the token that ends its
\* listener: not to its receiver, which takes one of the two, nor to another
\* call, as there is none.  What OneCloseSuffices needs besides is fairness.
THEOREM OneCloseLeavesToken == Spec => []TokenIsLeft
<1>1. Init => TokenInv
  BY DEF Init, TokenInv, Looping, Callers
<1>2. ASSUME TypeOK, TokenInv PROVE TokenIsLeft
  BY <1>2 DEF TypeOK, TokenInv, TokenIsLeft, Looping, Taken
<1> QED BY <1>1, <1>2, TypeHolds, TokensKept, PTL DEF Spec
=============================================================================
