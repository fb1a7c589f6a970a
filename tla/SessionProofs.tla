--------------------------- MODULE SessionProofs ----------------------------
(***************************************************************************)
(* For every set of I/O threads, every capacity and every set of packets:  *)
(* the asserts on mSendPendingCount hold (AssertsHold), mRecvBuffer has    *)
(* one user at a time (OneReceiver), the session is closed once            *)
(* (ClosedOnce), and the bytes the kernel was given stay as they are and   *)
(* are the oldest ones it owes (InFlightIntact).                           *)
(*                                                                         *)
(* The inductive invariant follows four tokens from hand to hand.          *)
(*   Locks:    mSendBufferLock, which a thread has while one of its frames *)
(*             is in FlushSend.                                            *)
(*   Sends:    the one send, from WSASend through the kernel and the port  *)
(*             to SendCompletion.  FlushSend counts it after WSASend, when *)
(*             it may already be over, so that the count alone says        *)
(*             nothing: the thread at FlushCount must be in the invariant. *)
(*   Receives: the one link of the receive chain.                          *)
(*   Closes:   the right to close, mConnected until Disconnect takes it.   *)
(* Bytes relates the send to the buffer.  A frame that is not on top is    *)
(* known by what may lie under what (Nested), whatever the stack's depth.  *)
(***************************************************************************)
EXTENDS Session, CircularBufferProofs, FiniteSetTheorems, SequenceTheorems

Receiving == {"OnConnect", "PreRecv", "PostRecv", "RecvCompletion"}
Flushing  == {"FlushSend", "FlushCount", "FlushFailed"}
Closing   == {"Disconnect", "OnDisconnect", "closesocket"}
Posting   == {"PostSend", "PostSendLock"}
InBroadcast == {"BroadcastResult", "BroadcastEnd"}
WithOp    == {"SendCompletion", "SendResult"}

Plain == InBroadcast \cup Receiving \cup Flushing \cup Closing

Kind == {"send", "zero", "recv"}
OpType == [type : Kind, start : Int, len : Nat, sent : Nat]
Done == [type : Kind, ok : BOOLEAN, len : Nat, sent : Nat]
Frame == [at : Plain] \cup [at : Posting, data : Payload] \cup [at : WithOp, op : Done]

Types ==
  /\ mConnected \in BOOLEAN /\ socketOpen \in BOOLEAN
  /\ Good(mSendBuffer)
  /\ mSendBufferLock \in Thread \cup {Nobody}
  /\ mSendPendingCount \in {0, 1}
  /\ ops \subseteq OpType
  /\ port \in Seq(Done)
  /\ stack \in [Thread -> Seq(Frame)]
  /\ owed \in Seq(Byte)

-----------------------------------------------------------------------------
(* Stacks.                                                                 *)

(* A frame at a may be above one at b, next to it or not.                  *)
Above(a, b) ==
  \/ a \in Closing /\ b \in {"FlushFailed", "RecvCompletion", "PreRecv", "SendResult"}
                             \cup InBroadcast
  \/ a \in Posting /\ b \in {"RecvCompletion", "PreRecv"} \cup InBroadcast
  \/ a \in Flushing /\ b \in {"RecvCompletion", "PreRecv", "SendResult"} \cup InBroadcast
  \/ a = "BroadcastResult" /\ b \in {"BroadcastEnd", "RecvCompletion", "PreRecv"}
  \/ a = "BroadcastEnd" /\ b \in {"RecvCompletion", "PreRecv"}
  \/ a = "RecvCompletion" /\ b = "PreRecv"

Over(a, s) == \A k \in 1 .. Len(s) : Above(a, s[k].at)
Nested(s) == \A i, k \in 1 .. Len(s) : i < k => Above(s[i].at, s[k].at)

Has(s, L) == \E i \in 1 .. Len(s) : s[i].at \in L
Top(s, a) == s # <<>> /\ s[1].at = a

(* The threads that hold something.                                        *)
Receivers == {t \in Thread : Has(stack[t], Receiving)}
Flushers == {t \in Thread : Has(stack[t], Flushing)}
Counters == {t \in Thread : Top(stack[t], "FlushCount")}
Completers == {t \in Thread : Top(stack[t], "SendCompletion")}
Closers == {t \in Thread : Top(stack[t], "OnDisconnect") \/ Top(stack[t], "closesocket")}
Connecters == {t \in Thread : Top(stack[t], "OnConnect")}

-----------------------------------------------------------------------------
(* The inductive invariant.                                                *)

(* Together the three sets have at most one element.                       *)
Single(A, B, C) ==
  /\ \A x, y \in A : x = y
  /\ \A x, y \in B : x = y
  /\ \A x, y \in C : x = y
  /\ A = {} \/ B = {}
  /\ A = {} \/ C = {}
  /\ B = {} \/ C = {}

OpsOf(K) == {op \in ops : op.type \in K}
PortOf(K) == {i \in 1 .. Len(port) : port[i].type \in K}

Locks ==
  /\ mSendBufferLock = Nobody => Flushers = {}
  /\ mSendBufferLock # Nobody => Flushers = {mSendBufferLock}

NoSend == OpsOf({"send"}) = {} /\ PortOf({"send"}) = {} /\ Completers = {}

Sends ==
  /\ Single(OpsOf({"send"}), PortOf({"send"}), Completers)
  /\ Flushers # {} => mSendPendingCount = 0
  /\ NoSend \/ mSendPendingCount = 1 \/ Counters # {}

Receives == Single(OpsOf({"zero", "recv"}), PortOf({"zero", "recv"}), Receivers)

Closes ==
  /\ mConnected => socketOpen /\ Closers = {}
  /\ Closers # {} => socketOpen
  /\ \A t, u \in Closers : t = u
  /\ Connecters # {} => socketOpen /\ ~mConnected /\ Closers = {}
  /\ \A t, u \in Connecters : t = u

(* The kernel has transmitted the first n bytes of the buffer and owes the *)
(* others; all n are in region A.                                          *)
Behind(n) ==
  /\ n \in Nat /\ n <= mSendBuffer.mARegionSize
  /\ Len(owed) = GetStoredSize(mSendBuffer) - n
  /\ \A i \in 1 .. Len(owed) : owed[i] = Cell(mSendBuffer, n + i)

Bytes ==
  /\ \A op \in OpsOf({"send"}) :
       /\ op.sent <= op.len /\ op.len <= mSendBuffer.mARegionSize
       /\ op.len > 0 => op.start = mSendBuffer.mARegionPointer
       /\ Behind(op.sent)
  /\ \A i \in PortOf({"send"}) : port[i].ok => Behind(port[i].sent)
  /\ \A t \in Completers : Behind(stack[t][1].op.sent)
  /\ NoSend /\ mSendPendingCount = 0 /\ Counters = {} => Behind(0)

IInv ==
  /\ Types
  /\ \A t \in Thread : Nested(stack[t])
  /\ Locks /\ Sends /\ Receives /\ Closes /\ Bytes

-----------------------------------------------------------------------------
(* What a call and a return do to a stack.                                 *)

(* What a frame carries, by the place it stands at.                        *)
LEMMA FrameAt ==
  ASSUME NEW f \in Frame
  PROVE  /\ f.at \in Plain \cup Posting \cup WithOp
         /\ f.at \in Posting => f.data \in Payload
         /\ f.at \in WithOp => f.op \in Done
BY DEF Frame, Plain, InBroadcast, Posting, WithOp, Receiving, Flushing, Closing

(* A call puts its frame on a stack of frames it may be above.             *)
LEMMA Pushed ==
  ASSUME NEW f \in Frame, NEW s \in Seq(Frame), Nested(s), Over(f.at, s)
  PROVE  LET c == <<f>> \o s IN
         /\ c \in Seq(Frame) /\ Nested(c) /\ c # <<>> /\ c[1] = f
         /\ \A L : Has(c, L) <=> f.at \in L \/ Has(s, L)
         /\ \A a : Top(c, a) <=> a = f.at
<1> DEFINE c == <<f>> \o s
<1>1. /\ c \in Seq(Frame) /\ Len(c) = Len(s) + 1 /\ Len(s) \in Nat
      /\ c[1] = f
      /\ \A i \in 1 .. Len(s) : c[i + 1] = s[i]
  OBVIOUS
<1> HIDE DEF c
<1>2. c # <<>> BY <1>1
<1>3. \A i \in 1 .. Len(c) : i = 1 \/ (i - 1 \in 1 .. Len(s) /\ c[i] = s[i - 1])
  <2>1. ASSUME NEW i \in 1 .. Len(c), i # 1 PROVE i - 1 \in 1 .. Len(s) /\ c[i] = s[i - 1]
    <3>1. i - 1 \in 1 .. Len(s) /\ (i - 1) + 1 = i BY <1>1, <2>1
    <3> QED BY <1>1, <3>1
  <2> QED BY <2>1
<1>4. Nested(c)
  <2>1. SUFFICES ASSUME NEW i \in 1 .. Len(c), NEW k \in 1 .. Len(c), i < k
                 PROVE  Above(c[i].at, c[k].at)
    BY DEF Nested
  <2>2. k # 1 BY <1>1, <2>1
  <2>3. k - 1 \in 1 .. Len(s) /\ c[k] = s[k - 1] BY <1>3, <2>2
  <2>4. CASE i = 1 BY <1>1, <2>3, <2>4 DEF Over
  <2>5. CASE i # 1
    <3>1. i - 1 \in 1 .. Len(s) /\ c[i] = s[i - 1] BY <1>3, <2>5
    <3>2. i - 1 < k - 1 BY <1>1, <2>1
    <3> QED BY <2>3, <3>1, <3>2 DEF Nested
  <2> QED BY <2>4, <2>5
<1>5. ASSUME NEW L PROVE Has(c, L) <=> f.at \in L \/ Has(s, L)
  <2>1. ASSUME Has(c, L) PROVE f.at \in L \/ Has(s, L)
    <3>1. PICK i \in 1 .. Len(c) : c[i].at \in L BY <2>1 DEF Has
    <3> QED BY <1>1, <1>3, <3>1 DEF Has
  <2>2. ASSUME f.at \in L PROVE Has(c, L)
    <3>1. 1 \in 1 .. Len(c) BY <1>1
    <3> QED BY <1>1, <2>2, <3>1 DEF Has
  <2>3. ASSUME Has(s, L) PROVE Has(c, L)
    <3>1. PICK i \in 1 .. Len(s) : s[i].at \in L BY <2>3 DEF Has
    <3>2. i + 1 \in 1 .. Len(c) /\ c[i + 1] = s[i] BY <1>1
    <3> QED BY <3>1, <3>2 DEF Has
  <2> QED BY <2>1, <2>2, <2>3
<1>6. \A a : Top(c, a) <=> a = f.at BY <1>1, <1>2 DEF Top
<1> QED BY <1>1, <1>2, <1>4, <1>5, <1>6 DEF c

(* A return leaves a stack of frames, all of which the frame may be above. *)
LEMMA Popped ==
  ASSUME NEW s \in Seq(Frame), s # <<>>, Nested(s)
  PROVE  /\ s[1] \in Frame /\ Tail(s) \in Seq(Frame)
         /\ Nested(Tail(s)) /\ Over(s[1].at, Tail(s))
         /\ \A L : Has(s, L) <=> s[1].at \in L \/ Has(Tail(s), L)
<1> DEFINE r == Tail(s)
<1>1. /\ r \in Seq(Frame) /\ Len(s) \in Nat /\ Len(s) >= 1 /\ Len(r) = Len(s) - 1
      /\ s[1] \in Frame
      /\ \A i \in 1 .. Len(r) : r[i] = s[i + 1]
  OBVIOUS
<1> HIDE DEF r
<1>2. \A i \in 1 .. Len(r) : i + 1 \in 1 .. Len(s) /\ 1 < i + 1 BY <1>1
<1>3. 1 \in 1 .. Len(s) BY <1>1
<1>4. Over(s[1].at, r) BY <1>1, <1>2, <1>3 DEF Over, Nested
<1>5. Nested(r)
  <2>1. SUFFICES ASSUME NEW i \in 1 .. Len(r), NEW k \in 1 .. Len(r), i < k
                 PROVE  Above(r[i].at, r[k].at)
    BY DEF Nested
  <2>2. i + 1 < k + 1 BY <2>1
  <2> QED BY <1>1, <1>2, <2>2 DEF Nested
<1>6. ASSUME NEW L PROVE Has(s, L) <=> s[1].at \in L \/ Has(r, L)
  <2>1. ASSUME NEW i \in 1 .. Len(s), s[i].at \in L, i # 1 PROVE Has(r, L)
    <3>1. i - 1 \in 1 .. Len(r) /\ (i - 1) + 1 = i BY <1>1, <2>1
    <3> QED BY <1>1, <2>1, <3>1 DEF Has
  <2> QED BY <1>1, <1>2, <1>3, <2>1 DEF Has
<1> QED BY <1>1, <1>4, <1>5, <1>6 DEF r

(* What can be under a frame at a.                                         *)
LEMMA Under ==
  ASSUME NEW a, NEW s \in Seq(Frame), Over(a, s)
  PROVE  /\ \A b \in {"FlushCount", "SendCompletion", "OnDisconnect", "closesocket", "OnConnect"} : ~Top(s, b)
         /\ Has(s, Flushing) => a \in Closing
         /\ a \in Flushing \cup Posting \/ a = "RecvCompletion" => ~Has(s, Flushing)
         /\ a \notin Closing \cup Posting \cup Flushing \cup InBroadcast \cup {"RecvCompletion"} =>
              s = <<>> /\ \A L : ~Has(s, L)
<1>1. Len(s) \in Nat OBVIOUS
<1>2. s # <<>> => 1 \in 1 .. Len(s) OBVIOUS
<1>3. ASSUME NEW b \in {"FlushCount", "SendCompletion", "OnDisconnect", "closesocket", "OnConnect"}, Top(s, b)
      PROVE  FALSE
  BY <1>2, <1>3 DEF Top, Over, Above, InBroadcast
<1>4. Has(s, Flushing) => a \in Closing BY DEF Has, Over, Above, Flushing, InBroadcast
<1>5. a \in Flushing \cup Posting \/ a = "RecvCompletion" => a \notin Closing
  BY DEF Flushing, Posting, Closing
<1>6. ASSUME a \notin Closing \cup Posting \cup Flushing \cup InBroadcast \cup {"RecvCompletion"}
      PROVE  s = <<>> /\ \A L : ~Has(s, L)
  <2>1. \A k \in 1 .. Len(s) : FALSE BY <1>6 DEF Over, Above, InBroadcast
  <2>2. s = <<>> BY <1>2, <2>1
  <2> QED BY <2>1, <2>2 DEF Has
<1> QED BY <1>3, <1>4, <1>5, <1>6

(* The holders after a step that leaves thread t with stack n.             *)
LEMMA Holders ==
  ASSUME Types, NEW t \in Thread, NEW n, stack' = [stack EXCEPT ![t] = n]
  PROVE  /\ Receivers' = IF Has(n, Receiving) THEN Receivers \cup {t} ELSE Receivers \ {t}
         /\ Flushers' = IF Has(n, Flushing) THEN Flushers \cup {t} ELSE Flushers \ {t}
         /\ Counters' = IF Top(n, "FlushCount") THEN Counters \cup {t} ELSE Counters \ {t}
         /\ Completers' = IF Top(n, "SendCompletion") THEN Completers \cup {t}
                          ELSE Completers \ {t}
         /\ Closers' = IF Top(n, "OnDisconnect") \/ Top(n, "closesocket")
                       THEN Closers \cup {t} ELSE Closers \ {t}
         /\ Connecters' = IF Top(n, "OnConnect") THEN Connecters \cup {t}
                          ELSE Connecters \ {t}
<1>1. stack'[t] = n /\ \A u \in Thread \ {t} : stack'[u] = stack[u] BY DEF Types
<1> QED
  BY <1>1 DEF Receivers, Flushers, Counters, Completers, Closers, Connecters


-----------------------------------------------------------------------------
(* Steps that move no token, or only drop the link of the receive chain.   *)

(* A new stack for thread t keeps the types and the nesting.               *)
LEMMA StackKept ==
  ASSUME IInv, NEW t \in Thread, NEW n \in Seq(Frame), Nested(n),
         stack' = [stack EXCEPT ![t] = n]
  PROVE  /\ stack' \in [Thread -> Seq(Frame)]
         /\ \A u \in Thread : Nested(stack'[u])
         /\ stack'[t] = n /\ \A u \in Thread \ {t} : stack'[u] = stack[u]
<1>1. stack \in [Thread -> Seq(Frame)] BY DEF IInv, Types
<1>2. stack'[t] = n /\ \A u \in Thread \ {t} : stack'[u] = stack[u] BY <1>1
<1> QED BY <1>1, <1>2 DEF IInv

(* A frame in FlushCount is one in FlushSend's part.                       *)
LEMMA CountersFlush ==
  ASSUME IInv
  PROVE  Counters \subseteq Flushers
<1>1. ASSUME NEW t \in Counters PROVE t \in Flushers
  <2>1. t \in Thread /\ stack[t] # <<>> /\ stack[t][1].at = "FlushCount"
    BY <1>1 DEF Counters, Top
  <2>2. stack[t] \in Seq(Frame) BY <2>1 DEF IInv, Types
  <2>3. 1 \in 1 .. Len(stack[t]) BY <2>1, <2>2
  <2> QED BY <2>1, <2>3 DEF Flushers, Has, Flushing
<1> QED BY <1>1

(* The bytes, when only threads without a completion in hand move.         *)
LEMMA BytesKept ==
  ASSUME IInv, UNCHANGED <<mSendBuffer, port, owed, mSendPendingCount, OpsOf({"send"})>>,
         Completers' = Completers, Counters' = Counters,
         \A t \in Completers : stack'[t] = stack[t]
  PROVE  Bytes'
<1>1. \A n : Behind(n)' <=> Behind(n) BY DEF Behind
<1>2. UNCHANGED <<PortOf({"send"}), NoSend>> BY DEF PortOf, NoSend
<1>3. Bytes BY DEF IInv
<1> QED BY <1>1, <1>2, <1>3 DEF Bytes

(* A step that only changes a stack, and not what its thread holds.        *)
LEMMA QuietStep ==
  ASSUME IInv, NEW t \in Thread, NEW n \in Seq(Frame), Nested(n),
         stack' = [stack EXCEPT ![t] = n], UNCHANGED <<session, kernel, owed>>,
         t \notin Counters \cup Completers \cup Closers \cup Connecters,
         \A a \in {"FlushCount", "SendCompletion", "OnDisconnect", "closesocket", "OnConnect"} : ~Top(n, a),
         Has(n, Flushing) <=> t \in Flushers,
         Has(n, Receiving) => t \in Receivers
  PROVE  IInv'
<1>1. /\ stack' \in [Thread -> Seq(Frame)] /\ \A u \in Thread : Nested(stack'[u])
      /\ \A u \in Thread \ {t} : stack'[u] = stack[u]
  BY StackKept
<1>2. /\ Receivers' \subseteq Receivers /\ Flushers' = Flushers /\ Counters' = Counters
      /\ Completers' = Completers /\ Closers' = Closers /\ Connecters' = Connecters
  <2>1. Types BY DEF IInv
  <2>2. /\ Receivers' = IF Has(n, Receiving) THEN Receivers \cup {t} ELSE Receivers \ {t}
        /\ Flushers' = IF Has(n, Flushing) THEN Flushers \cup {t} ELSE Flushers \ {t}
        /\ Counters' = Counters \ {t} /\ Completers' = Completers \ {t}
        /\ Closers' = Closers \ {t} /\ Connecters' = Connecters \ {t}
    BY <2>1, Holders
  <2> QED BY <2>2
<1>3. UNCHANGED <<mConnected, mSendBuffer, mSendBufferLock, mSendPendingCount, socketOpen, ops,
                  port, owed>>
  BY DEF session, kernel
<1>4. Types' BY <1>1, <1>3 DEF IInv, Types
<1>5. Locks' BY <1>2, <1>3 DEF IInv, Locks
<1>6. UNCHANGED <<OpsOf({"send"}), PortOf({"send"}), OpsOf({"zero", "recv"}),
                  PortOf({"zero", "recv"}), NoSend>>
  BY <1>2, <1>3 DEF OpsOf, PortOf, NoSend
<1>7. Sends' BY <1>2, <1>3, <1>6 DEF IInv, Sends
<1>8. Receives' BY <1>2, <1>6 DEF IInv, Receives, Single
<1>9. Closes' BY <1>2, <1>3 DEF IInv, Closes
<1>10. Bytes' 
  <2>1. \A u \in Completers : stack'[u] = stack[u] BY <1>1 DEF Completers
  <2> QED BY <1>2, <1>3, <1>6, <2>1, BytesKept
<1> QED BY <1>1, <1>4, <1>5, <1>7, <1>8, <1>9, <1>10 DEF IInv

(* The stack of a thread that stands at a.                                 *)
LEMMA StandsAt ==
  ASSUME IInv, NEW t \in Thread, NEW a, Stands(t, a)
  PROVE  /\ stack[t] \in Seq(Frame) /\ stack[t] # <<>> /\ Nested(stack[t])
         /\ stack[t][1] \in Frame /\ stack[t][1].at = a
         /\ Tail(stack[t]) \in Seq(Frame) /\ Nested(Tail(stack[t])) /\ Over(a, Tail(stack[t]))
         /\ \A L : Has(stack[t], L) <=> a \in L \/ Has(Tail(stack[t]), L)
         /\ t \in Counters <=> a = "FlushCount"
         /\ t \in Completers <=> a = "SendCompletion"
         /\ t \in Closers <=> a \in {"OnDisconnect", "closesocket"}
         /\ t \in Connecters <=> a = "OnConnect"
         /\ t \in Flushers <=> a \in Flushing \/ Has(Tail(stack[t]), Flushing)
         /\ t \in Receivers <=> a \in Receiving \/ Has(Tail(stack[t]), Receiving)
<1>1. stack[t] \in Seq(Frame) /\ Nested(stack[t]) /\ stack[t] # <<>> /\ stack[t][1].at = a
  BY DEF IInv, Types, Stands
<1>2. /\ stack[t][1] \in Frame /\ Tail(stack[t]) \in Seq(Frame) /\ Nested(Tail(stack[t]))
      /\ Over(a, Tail(stack[t]))
      /\ \A L : Has(stack[t], L) <=> a \in L \/ Has(Tail(stack[t]), L)
  BY <1>1, Popped
<1> QED
  BY <1>1, <1>2 DEF Counters, Completers, Closers, Connecters, Flushers, Receivers, Top

(* A thread that waits for a completion holds nothing.                     *)
LEMMA IdleAt ==
  ASSUME IInv, NEW t \in Thread, Idle(t)
  PROVE  /\ \A a : Over(a, <<>>)
         /\ <<>> \in Seq(Frame) /\ Nested(<<>>) /\ stack[t] = <<>> /\ \A L : ~Has(<<>>, L)
         /\ t \notin Counters \cup Completers \cup Closers \cup Connecters \cup Flushers
                     \cup Receivers
<1>1. stack[t] = <<>> BY DEF Idle
<1>2. <<>> \in Seq(Frame) /\ Nested(<<>>) /\ \A a : Over(a, <<>>) BY DEF Nested, Over
<1>3. \A L : ~Has(<<>>, L) BY DEF Has
<1> QED
  BY <1>1, <1>2, <1>3 DEF Counters, Completers, Closers, Connecters, Flushers, Receivers, Top

(* A thread returns and its frame was nothing special.                     *)
LEMMA QuietReturn ==
  ASSUME IInv, NEW t \in Thread, NEW a, Stands(t, a), Return(t),
         a \notin Flushing \cup {"SendCompletion", "OnDisconnect", "closesocket", "OnConnect"},
         UNCHANGED <<session, kernel, owed>>
  PROVE  IInv'
<1> DEFINE r == Tail(stack[t])
<1>1. /\ r \in Seq(Frame) /\ Nested(r) /\ Over(a, r)
      /\ t \in Counters <=> a = "FlushCount"
      /\ t \in Completers <=> a = "SendCompletion"
      /\ t \in Closers <=> a \in {"OnDisconnect", "closesocket"}
      /\ t \in Connecters <=> a = "OnConnect"
      /\ t \in Flushers <=> a \in Flushing \/ Has(r, Flushing)
      /\ t \in Receivers <=> a \in Receiving \/ Has(r, Receiving)
  BY StandsAt
<1>2. stack' = [stack EXCEPT ![t] = r] BY DEF Return
<1> HIDE DEF r
<1>3. \A b \in {"FlushCount", "SendCompletion", "OnDisconnect", "closesocket", "OnConnect"} :
       ~Top(r, b)
  BY <1>1, Under
<1>4. a # "FlushCount" BY DEF Flushing
<1> QED BY <1>1, <1>2, <1>3, <1>4, QuietStep

(* A thread goes on in its frame, and both places are nothing special.     *)
LEMMA QuietGoto ==
  ASSUME IInv, NEW t \in Thread, NEW a, Stands(t, a), NEW f \in Frame, Goto(t, f),
         a \notin Flushing \cup {"SendCompletion", "OnDisconnect", "closesocket", "OnConnect"},
         f.at \notin Flushing \cup {"SendCompletion", "OnDisconnect", "closesocket", "OnConnect"},
         f.at \in Receiving => a \in Receiving,
         \A b : Above(a, b) => Above(f.at, b),
         UNCHANGED <<session, kernel, owed>>
  PROVE  IInv'
<1> DEFINE r == Tail(stack[t])
           n == <<f>> \o r
<1>1. /\ r \in Seq(Frame) /\ Nested(r) /\ Over(a, r)
      /\ t \in Counters <=> a = "FlushCount"
      /\ t \in Completers <=> a = "SendCompletion"
      /\ t \in Closers <=> a \in {"OnDisconnect", "closesocket"}
      /\ t \in Connecters <=> a = "OnConnect"
      /\ t \in Flushers <=> a \in Flushing \/ Has(r, Flushing)
      /\ t \in Receivers <=> a \in Receiving \/ Has(r, Receiving)
  BY StandsAt
<1>2. stack' = [stack EXCEPT ![t] = n] BY DEF Goto
<1> HIDE DEF r
<1>3. Over(f.at, r) BY <1>1 DEF Over
<1>4. /\ n \in Seq(Frame) /\ Nested(n)
      /\ \A L : Has(n, L) <=> f.at \in L \/ Has(r, L)
      /\ \A b : Top(n, b) <=> b = f.at
  BY <1>1, <1>3, Pushed
<1> HIDE DEF n
<1>5. a # "FlushCount" /\ f.at # "FlushCount" BY DEF Flushing
<1> QED BY <1>1, <1>2, <1>4, <1>5, QuietStep

(* A thread without, or in, a call makes one that is nothing special.      *)
LEMMA QuietCall ==
  ASSUME IInv, NEW t \in Thread, NEW f \in Frame, NEW s \in Seq(Frame), Nested(s),
         stack[t] = s \/ (Idle(t) /\ ~Has(s, Flushing \cup Receiving)),
         \A a \in {"FlushCount", "SendCompletion", "OnDisconnect", "closesocket", "OnConnect"} :
           ~Top(stack[t], a),
         stack' = [stack EXCEPT ![t] = <<f>> \o s], Over(f.at, s),
         f.at \notin Flushing \cup Receiving \cup {"SendCompletion", "OnDisconnect", "closesocket"},
         UNCHANGED <<session, kernel, owed>>
  PROVE  IInv'
<1> DEFINE n == <<f>> \o s
<1>1. /\ n \in Seq(Frame) /\ Nested(n)
      /\ \A L : Has(n, L) <=> f.at \in L \/ Has(s, L)
      /\ \A b : Top(n, b) <=> b = f.at
  BY Pushed
<1>2. stack' = [stack EXCEPT ![t] = n] OBVIOUS
<1> HIDE DEF n
<1>3. f.at # "FlushCount" /\ f.at # "OnConnect" BY DEF Flushing, Receiving
<1>4. t \notin Counters \cup Completers \cup Closers \cup Connecters
  BY DEF Counters, Completers, Closers, Connecters
<1>5. (Has(s, Flushing) <=> t \in Flushers) /\ (Has(s, Receiving) => t \in Receivers)
  <2>1. CASE stack[t] = s BY <2>1 DEF Flushers, Receivers
  <2>2. CASE Idle(t) /\ ~Has(s, Flushing \cup Receiving)
    <3>1. t \notin Flushers BY <2>2, IdleAt
    <3> QED BY <2>2, <3>1 DEF Has
  <2> QED BY <2>1, <2>2
<1> QED BY <1>1, <1>2, <1>3, <1>4, <1>5, QuietStep


(* Frames without data.                                                    *)
LEMMA AtFrame ==
  ASSUME NEW a \in Plain
  PROVE  At(a) \in Frame /\ At(a).at = a
BY DEF At, Frame

(* Frames of PostSend.                                                     *)
LEMMA PostFrame ==
  ASSUME NEW d \in Payload
  PROVE  /\ PostSendOf(d) \in Frame /\ PostSendOf(d).at = "PostSend"
         /\ [at |-> "PostSendLock", data |-> d] \in Frame
BY DEF PostSendOf, Frame, Posting

(* Frames that carry a completion.                                         *)
LEMMA DoneFrame ==
  ASSUME NEW a \in WithOp, NEW c \in Done
  PROVE  /\ Completion(a, c) \in Frame /\ Completion(a, c).at = a /\ Completion(a, c).op = c
BY DEF Completion, Frame

(* A stack of one or two frames.                                           *)
LEMMA ShortStacks ==
  ASSUME NEW f \in Frame
  PROVE  /\ <<f>> = <<f>> \o <<>> /\ <<f>> \in Seq(Frame) /\ Nested(<<f>>)
         /\ \A L : Has(<<f>>, L) <=> f.at \in L
         /\ \A a : Top(<<f>>, a) <=> a = f.at
         /\ \A a : Above(a, f.at) => Over(a, <<f>>)
         /\ \A g \in Frame : <<g, f>> = <<g>> \o <<f>>
<1>1. <<f>> \in Seq(Frame) /\ Len(<<f>>) = 1 /\ <<f>>[1] = f /\ <<f>> # <<>> OBVIOUS
<1>2. <<f>> = <<f>> \o <<>> OBVIOUS
<1>3. \A g \in Frame : <<g, f>> = <<g>> \o <<f>> OBVIOUS
<1>4. Nested(<<f>>) BY <1>1 DEF Nested
<1>5. \A L : Has(<<f>>, L) <=> f.at \in L BY <1>1 DEF Has
<1>6. \A a : Top(<<f>>, a) <=> a = f.at BY <1>1 DEF Top
<1>7. \A a : Above(a, f.at) => Over(a, <<f>>) BY <1>1 DEF Over
<1> QED BY <1>1, <1>2, <1>3, <1>4, <1>5, <1>6, <1>7

(* Sequences of two and three frames as concatenations.                    *)
LEMMA Tuples ==
  ASSUME NEW f \in Frame, NEW g \in Frame, NEW h \in Frame
  PROVE  <<g>> \o <<h>> = <<g, h>> /\ <<f>> \o <<g, h>> = <<f, g, h>>
<1>1. <<g>> \o <<h>> = <<g, h>> BY ShortStacks
<1>2. <<f>> \o <<g, h>> = <<f, g, h>>
  <2> DEFINE x == <<f>> \o <<g, h>>
             y == <<f, g, h>>
  <2>1. x \in Seq(Frame) /\ y \in Seq(Frame) /\ Len(x) = 3 /\ Len(y) = 3 OBVIOUS
  <2>2. x[1] = y[1] /\ x[2] = y[2] /\ x[3] = y[3] OBVIOUS
  <2> HIDE DEF x, y
  <2>3. \A i \in 1 .. Len(x) : x[i] = y[i]
    <3>1. \A i \in 1 .. Len(x) : i = 1 \/ i = 2 \/ i = 3 BY <2>1
    <3> QED BY <2>2, <3>1
  <2>4. Len(x) = Len(y) /\ x \in Seq(Frame) /\ y \in Seq(Frame) BY <2>1
  <2>5. x = y BY <2>3, <2>4, SeqEqual
  <2> QED BY <2>5 DEF x, y
<1> QED BY <1>1, <1>2

(* The frames of a broadcast, on an idle thread's stack or on that of one  *)
(* that handles received packets.                                          *)
LEMMA BroadcastCall ==
  ASSUME IInv, NEW t \in Thread, NEW data \in Payload,
         Idle(t) \/ Stands(t, "RecvCompletion"),
         stack' = [stack EXCEPT ![t] = Broadcast(data) \o @],
         UNCHANGED <<session, kernel, owed>>
  PROVE  IInv'
<1> DEFINE f == PostSendOf(data)
           g == At("BroadcastResult")
           h == At("BroadcastEnd")
           s == stack[t]
           s1 == <<h>> \o s
           s2 == <<g>> \o s1
           n == <<f>> \o s2
<1>1. f \in Frame /\ f.at = "PostSend" BY PostFrame
<1>2. g \in Frame /\ g.at = "BroadcastResult" BY AtFrame DEF Plain, InBroadcast
<1>3. h \in Frame /\ h.at = "BroadcastEnd" BY AtFrame DEF Plain, InBroadcast
<1>4. s \in Seq(Frame) /\ Nested(s) BY DEF IInv, Types
<1>5. Broadcast(data) = <<f, g, h>> BY DEF Broadcast
<1>6. stack' = [stack EXCEPT ![t] = Broadcast(data) \o s] OBVIOUS
<1>7. /\ \A k \in 1 .. Len(s) : s[k].at \in {"RecvCompletion", "PreRecv"}
      /\ \A b \in {"FlushCount", "SendCompletion", "OnDisconnect", "closesocket", "OnConnect"} :
           ~Top(s, b)
  <2>1. CASE Idle(t)
    <3>1. s = <<>> BY <2>1 DEF Idle
    <3> QED BY <3>1 DEF Top
  <2>2. CASE Stands(t, "RecvCompletion")
    <3>1. s # <<>> /\ s[1].at = "RecvCompletion" BY <2>2 DEF Stands
    <3>2. 1 \in 1 .. Len(s) /\ \A k \in 1 .. Len(s) : k # 1 => 1 < k BY <1>4, <3>1
    <3>3. \A k \in 1 .. Len(s) : k # 1 => Above("RecvCompletion", s[k].at)
      BY <1>4, <3>1, <3>2 DEF Nested
    <3>4. \A k \in 1 .. Len(s) : s[k].at \in {"RecvCompletion", "PreRecv"}
      BY <3>1, <3>3 DEF Above, Closing, Posting, Flushing
    <3> QED BY <3>1, <3>4 DEF Top
  <2> QED BY <2>1, <2>2
<1> HIDE DEF f, g, h, s
<1>8. Over("BroadcastEnd", s) /\ Over("BroadcastResult", s) /\ Over("PostSend", s)
  BY <1>7 DEF Over, Above, Posting
<1>9. /\ s1 \in Seq(Frame) /\ Nested(s1)
      /\ \A L : Has(s1, L) <=> h.at \in L \/ Has(s, L)
      /\ \A k \in 1 .. Len(s1) : s1[k] = h \/ \E i \in 1 .. Len(s) : s1[k] = s[i]
  <2>1. s1 \in Seq(Frame) /\ Nested(s1) /\ \A L : Has(s1, L) <=> h.at \in L \/ Has(s, L)
    BY <1>3, <1>4, <1>8, Pushed
  <2>2. Len(s1) = Len(s) + 1 /\ Len(s) \in Nat /\ s1[1] = h
        /\ \A k \in 1 .. Len(s) + 1 : k # 1 => s1[k] = s[k - 1]
    BY <1>3, <1>4
  <2>3. \A k \in 1 .. Len(s) + 1 : k # 1 => k - 1 \in 1 .. Len(s) BY <2>2
  <2> QED BY <2>1, <2>2, <2>3
<1> HIDE DEF s1
<1>10. Over("BroadcastResult", s1) /\ Over("PostSend", s1)
  BY <1>3, <1>8, <1>9 DEF Over, Above, Posting, InBroadcast
<1>11. /\ s2 \in Seq(Frame) /\ Nested(s2)
       /\ \A L : Has(s2, L) <=> g.at \in L \/ Has(s1, L)
       /\ \A k \in 1 .. Len(s2) : s2[k] = g \/ \E i \in 1 .. Len(s1) : s2[k] = s1[i]
  <2>1. s2 \in Seq(Frame) /\ Nested(s2) /\ \A L : Has(s2, L) <=> g.at \in L \/ Has(s1, L)
    BY <1>2, <1>9, <1>10, Pushed
  <2>2. Len(s2) = Len(s1) + 1 /\ Len(s1) \in Nat /\ s2[1] = g
        /\ \A k \in 1 .. Len(s1) + 1 : k # 1 => s2[k] = s1[k - 1]
    BY <1>2, <1>9
  <2>3. \A k \in 1 .. Len(s1) + 1 : k # 1 => k - 1 \in 1 .. Len(s1) BY <2>2
  <2> QED BY <2>1, <2>2, <2>3
<1>12. n = <<f, g, h>> \o s
  <2>1. \A x \in Frame : <<x>> \in Seq(Frame) OBVIOUS
  <2>2. <<f>> \o <<g, h>> = <<f, g, h>> BY <1>1, <1>2, <1>3, Tuples
  <2>3. <<g>> \o s1 = <<g, h>> \o s
    <3>1. <<g>> \o <<h>> = <<g, h>> BY <1>2, <1>3, Tuples
    <3>2. (<<g>> \o <<h>>) \o s = <<g>> \o (<<h>> \o s)
      BY <1>2, <1>3, <1>4, <2>1, ConcatAssociative
    <3> QED BY <3>1, <3>2 DEF s1
  <2>4. <<f>> \o (<<g, h>> \o s) = (<<f>> \o <<g, h>>) \o s
    <3>1. <<g, h>> \in Seq(Frame) BY <1>2, <1>3
    <3> QED BY <1>1, <1>4, <2>1, <3>1, ConcatAssociative
  <2> QED BY <2>2, <2>3, <2>4
<1> HIDE DEF s2
<1>13. Over("PostSend", s2) BY <1>2, <1>10, <1>11 DEF Over, Above, Posting, InBroadcast
<1>14. /\ n \in Seq(Frame) /\ Nested(n)
       /\ \A L : Has(n, L) <=> f.at \in L \/ Has(s2, L)
       /\ \A a : Top(n, a) <=> a = f.at
  BY <1>1, <1>11, <1>13, Pushed
<1>15. stack' = [stack EXCEPT ![t] = n] BY <1>5, <1>6, <1>12
<1> HIDE DEF n
<1>16. t \notin Counters \cup Completers \cup Closers \cup Connecters
  BY <1>7 DEF Counters, Completers, Closers, Connecters, s
<1>17. (Has(n, Flushing) <=> t \in Flushers) /\ (Has(n, Receiving) => t \in Receivers)
  BY <1>1, <1>2, <1>3, <1>9, <1>11, <1>14 DEF Flushers, Receivers, Flushing, Receiving, s
<1>18. \A a \in {"FlushCount", "SendCompletion", "OnDisconnect", "closesocket", "OnConnect"} :
         ~Top(n, a)
  BY <1>1, <1>14
<1> QED BY <1>14, <1>15, <1>16, <1>17, <1>18, QuietStep

(* BroadcastMessage keeps the invariant.                                   *)
LEMMA BroadcastMessageStep ==
  ASSUME IInv, NEW t \in Worker, NEW data \in Payload, BroadcastMessage(t, data)
  PROVE  IInv'
<1>1. t \in Thread /\ Idle(t) /\ UNCHANGED <<session, kernel, owed>>
      /\ stack' = [stack EXCEPT ![t] = Broadcast(data)]
  BY DEF Thread, BroadcastMessage, Start
<1>2. stack[t] = <<>> BY <1>1 DEF Idle
<1>3. Broadcast(data) \in Seq({PostSendOf(data), At("BroadcastResult"), At("BroadcastEnd")})
  BY DEF Broadcast
<1>4. Broadcast(data) \o <<>> = Broadcast(data) BY <1>3
<1>5. stack' = [stack EXCEPT ![t] = Broadcast(data) \o @] BY <1>1, <1>2, <1>4
<1> QED BY <1>1, <1>5, BroadcastCall

(* BroadcastEnd keeps the invariant.                                       *)
LEMMA BroadcastEndStep ==
  ASSUME IInv, NEW t \in Thread, BroadcastEnd(t)
  PROVE  IInv'
<1>1. Stands(t, "BroadcastEnd") /\ Return(t) /\ UNCHANGED <<session, kernel, owed>>
  BY DEF BroadcastEnd
<1>2. "BroadcastEnd" \notin
        Flushing \cup {"SendCompletion", "OnDisconnect", "closesocket", "OnConnect"}
  BY DEF Flushing
<1> QED BY <1>1, <1>2, QuietReturn

(* BroadcastResult keeps the invariant.                                    *)
LEMMA BroadcastResultStep ==
  ASSUME IInv, NEW t \in Thread, BroadcastResult(t)
  PROVE  IInv'
<1>1. Stands(t, "BroadcastResult") /\ UNCHANGED <<session, kernel, owed>>
  BY DEF BroadcastResult
<1>2. "BroadcastResult" \notin
        Flushing \cup {"SendCompletion", "OnDisconnect", "closesocket", "OnConnect"}
  BY DEF Flushing
<1>3. CASE Return(t) BY <1>1, <1>2, <1>3, QuietReturn
<1>4. CASE Goto(t, At("Disconnect"))
  <2>1. At("Disconnect") \in Frame /\ At("Disconnect").at = "Disconnect"
    BY AtFrame DEF Plain, Closing
  <2>2. "Disconnect" \notin
          Flushing \cup Receiving \cup {"SendCompletion", "OnDisconnect", "closesocket", "OnConnect"}
    BY DEF Flushing, Receiving
  <2>3. \A b : Above("BroadcastResult", b) => Above("Disconnect", b)
    BY DEF Above, Closing, Posting, Flushing, InBroadcast
  <2> QED BY <1>1, <1>2, <1>4, <2>1, <2>2, <2>3, QuietGoto
<1> QED BY <1>3, <1>4 DEF BroadcastResult

(* PostSend keeps the invariant.                                           *)
LEMMA PostSendStep ==
  ASSUME IInv, NEW t \in Thread, PostSend(t)
  PROVE  IInv'
<1>1. Stands(t, "PostSend") /\ UNCHANGED <<session, kernel, owed>>
  BY DEF PostSend
<1>2. "PostSend" \notin Flushing \cup {"SendCompletion", "OnDisconnect", "closesocket", "OnConnect"}
  BY DEF Flushing
<1>3. CASE Return(t) BY <1>1, <1>2, <1>3, QuietReturn
<1>4. CASE Goto(t, [at |-> "PostSendLock", data |-> stack[t][1].data])
  <2> DEFINE f == [at |-> "PostSendLock", data |-> stack[t][1].data]
  <2>1. stack[t][1] \in Frame /\ stack[t][1].at = "PostSend" BY <1>1, StandsAt
  <2>2. stack[t][1].data \in Payload BY <2>1, FrameAt DEF Posting
  <2>3. f \in Frame /\ f.at = "PostSendLock" BY <2>2, PostFrame
  <2>4. Goto(t, f) BY <1>4
  <2> HIDE DEF f
  <2>5. f.at \notin
          Flushing \cup Receiving \cup {"SendCompletion", "OnDisconnect", "closesocket", "OnConnect"}
    BY <2>3 DEF Flushing, Receiving
  <2>6. \A b : Above("PostSend", b) => Above("PostSendLock", b)
    BY DEF Above, Closing, Posting, Flushing
  <2> QED BY <1>1, <1>2, <2>3, <2>4, <2>5, <2>6, QuietGoto
<1> QED BY <1>3, <1>4 DEF PostSend, ReturnValue

(* SendResult keeps the invariant.                                         *)
LEMMA SendResultStep ==
  ASSUME IInv, NEW t \in Thread, SendResult(t)
  PROVE  IInv'
<1>1. Stands(t, "SendResult") /\ UNCHANGED <<session, kernel, owed>>
  BY DEF SendResult
<1>2. "SendResult" \notin
        Flushing \cup {"SendCompletion", "OnDisconnect", "closesocket", "OnConnect"}
  BY DEF Flushing
<1>3. CASE Return(t) BY <1>1, <1>2, <1>3, QuietReturn
<1>4. CASE Goto(t, At("Disconnect"))
  <2>1. At("Disconnect") \in Frame /\ At("Disconnect").at = "Disconnect"
    BY AtFrame DEF Plain, Closing
  <2>2. "Disconnect" \notin
          Flushing \cup Receiving \cup {"SendCompletion", "OnDisconnect", "closesocket", "OnConnect"}
    BY DEF Flushing, Receiving
  <2>3. \A b : ~Above("SendResult", b) BY DEF Above, Closing, Posting, Flushing
  <2> QED BY <1>1, <1>2, <1>4, <2>1, <2>2, <2>3, QuietGoto
<1> QED BY <1>3, <1>4 DEF SendResult

(* OnRead keeps the invariant.                                             *)
LEMMA OnReadStep ==
  ASSUME IInv, NEW t \in Thread, OnRead(t)
  PROVE  IInv'
<1>1. Stands(t, "RecvCompletion") /\ UNCHANGED <<session, kernel, owed>>
  BY DEF OnRead
<1>2. "RecvCompletion" \notin
        Flushing \cup {"SendCompletion", "OnDisconnect", "closesocket", "OnConnect"}
  BY DEF Flushing
<1>3. CASE Return(t) BY <1>1, <1>2, <1>3, QuietReturn
<1>4. ASSUME NEW f \in Frame, f.at \in {"Disconnect", "PostSend"}, Call(t, f)
      PROVE  IInv'
  <2> DEFINE s == stack[t]
  <2>1. s \in Seq(Frame) /\ s # <<>> /\ Nested(s) /\ s[1].at = "RecvCompletion"
    BY <1>1, StandsAt
  <2>2. stack' = [stack EXCEPT ![t] = <<f>> \o s] BY <1>4 DEF Call
  <2> HIDE DEF s
  <2>3. Over(f.at, s)
    <3>1. 1 \in 1 .. Len(s) /\ \A k \in 1 .. Len(s) : k # 1 => 1 < k BY <2>1
    <3>2. \A k \in 1 .. Len(s) : k # 1 => Above("RecvCompletion", s[k].at)
      BY <2>1, <3>1 DEF Nested
    <3>3. \A k \in 1 .. Len(s) : s[k].at \in {"RecvCompletion", "PreRecv"}
      BY <2>1, <3>2 DEF Above, Closing, Posting, Flushing
    <3> QED BY <1>4, <3>3 DEF Over, Above, Closing, Posting
  <2>4. \A a \in {"FlushCount", "SendCompletion", "OnDisconnect", "closesocket", "OnConnect"} :
         ~Top(s, a)
    BY <2>1 DEF Top
  <2>5. f.at \notin Flushing \cup Receiving \cup {"SendCompletion", "OnDisconnect", "closesocket"}
    BY <1>4 DEF Flushing, Receiving
  <2>6. s = stack[t] BY DEF s
  <2> QED BY <1>1, <1>4, <2>1, <2>2, <2>3, <2>4, <2>5, <2>6, QuietCall
<1>5. CASE Call(t, At("Disconnect"))
  <2>1. At("Disconnect") \in Frame /\ At("Disconnect").at = "Disconnect"
    BY AtFrame DEF Plain, Closing
  <2> QED BY <1>4, <1>5, <2>1
<1>6. CASE \E data \in Payload : Call(t, PostSendOf(data))
  BY <1>4, <1>6, PostFrame
<1>7. CASE \E data \in Payload : stack' = [stack EXCEPT ![t] = Broadcast(data) \o @]
  BY <1>1, <1>7, BroadcastCall
<1> QED BY <1>3, <1>5, <1>6, <1>7 DEF OnRead


-----------------------------------------------------------------------------
(* Connecting, disconnecting and receiving.                                *)

(* The lone frame of a thread makes way for another.                       *)
LEMMA LoneGoto ==
  ASSUME IInv, NEW t \in Thread, NEW a, Stands(t, a), NEW f \in Frame, Goto(t, f),
         a \notin Closing \cup Posting \cup Flushing \cup InBroadcast \cup {"RecvCompletion"}
  PROVE  /\ stack' = [stack EXCEPT ![t] = <<f>>]
         /\ <<f>> \in Seq(Frame) /\ Nested(<<f>>)
<1>1. Tail(stack[t]) \in Seq(Frame) /\ Over(a, Tail(stack[t])) BY StandsAt
<1>2. Tail(stack[t]) = <<>> BY <1>1, Under
<1>3. <<f>> \o <<>> = <<f>> /\ <<f>> \in Seq(Frame) /\ Nested(<<f>>) BY ShortStacks
<1>4. stack' = [stack EXCEPT ![t] = <<f>> \o Tail(stack[t])] BY DEF Goto
<1> QED BY <1>2, <1>3, <1>4

(* OnConnect keeps the invariant.                                          *)
LEMMA OnConnectStep ==
  ASSUME IInv, NEW t \in Thread, OnConnect(t)
  PROVE  IInv'
<1>1. /\ Stands(t, "OnConnect")
      /\ UNCHANGED <<mSendBuffer, mSendBufferLock, mSendPendingCount, socketOpen, ops, port,
                     owed>>
  BY DEF OnConnect, kernel
<1>2. PICK f \in {At("PreRecv"), At("Disconnect")} : Goto(t, f)
  BY DEF OnConnect
<1>3. f \in Frame /\ f.at \in {"PreRecv", "Disconnect"}
  BY <1>2, AtFrame DEF Plain, Receiving, Closing
<1>4. mConnected' \in BOOLEAN BY DEF OnConnect, IInv, Types
<1>5. stack' = [stack EXCEPT ![t] = <<f>>] /\ <<f>> \in Seq(Frame) /\ Nested(<<f>>)
  <2>1. "OnConnect" \notin Closing \cup Posting \cup Flushing \cup InBroadcast
                       \cup {"RecvCompletion"}
    BY DEF Closing, Posting, Flushing, InBroadcast
  <2> QED BY <1>1, <1>2, <1>3, <2>1, LoneGoto
<1>6. /\ t \in Connecters /\ t \in Receivers /\ t \notin Flushers
      /\ t \notin Counters \cup Completers \cup Closers
  <2>1. ~Has(Tail(stack[t]), Flushing)
    <3>1. Over("OnConnect", Tail(stack[t])) /\ Tail(stack[t]) \in Seq(Frame) BY <1>1, StandsAt
    <3>2. Has(Tail(stack[t]), Flushing) => "OnConnect" \in Closing BY <3>1, Under
    <3> QED BY <3>2 DEF Closing
  <2> QED BY <1>1, <2>1, StandsAt DEF Receiving, Flushing
<1>7. /\ stack' \in [Thread -> Seq(Frame)] /\ \A u \in Thread : Nested(stack'[u])
      /\ \A u \in Thread \ {t} : stack'[u] = stack[u]
  BY <1>5, StackKept
<1>8. /\ Receivers' \subseteq Receivers /\ Flushers' = Flushers \ {t}
      /\ Counters' = Counters \ {t} /\ Completers' = Completers \ {t}
      /\ Closers' = Closers \ {t} /\ Connecters' = Connecters \ {t}
  <2>1. Types BY DEF IInv
  <2>2. ~Has(<<f>>, Flushing) /\ \A b : Top(<<f>>, b) <=> b = f.at
    BY <1>3, ShortStacks DEF Flushing
  <2>3. Receivers' = IF Has(<<f>>, Receiving) THEN Receivers \cup {t} ELSE Receivers \ {t}
    BY <1>5, <2>1, Holders
  <2>4. Receivers' \subseteq Receivers BY <1>6, <2>3
  <2> QED BY <1>3, <1>5, <2>1, <2>2, <2>4, Holders
<1>9. /\ Flushers' = Flushers /\ Counters' = Counters /\ Completers' = Completers
      /\ Closers' = Closers /\ Connecters' = {}
  <2>1. Connecters = {t} BY <1>6 DEF IInv, Closes
  <2> QED BY <1>6, <1>8, <2>1
<1>10. UNCHANGED <<OpsOf({"send"}), PortOf({"send"}), OpsOf({"zero", "recv"}),
                   PortOf({"zero", "recv"}), NoSend>>
  BY <1>1, <1>9 DEF OpsOf, PortOf, NoSend
<1>11. Types' BY <1>1, <1>4, <1>7 DEF IInv, Types
<1>12. Locks' BY <1>1, <1>9 DEF IInv, Locks
<1>13. Sends' BY <1>1, <1>9, <1>10 DEF IInv, Sends
<1>14. Receives' BY <1>8, <1>10 DEF IInv, Receives, Single
<1>15. Closes' BY <1>1, <1>6, <1>9 DEF IInv, Closes
<1>16. Bytes'
  <2>1. \A u \in Completers : stack'[u] = stack[u] BY <1>6, <1>7 DEF Completers
  <2> QED BY <1>1, <1>9, <1>10, <2>1, BytesKept
<1> QED BY <1>7, <1>11, <1>12, <1>13, <1>14, <1>15, <1>16 DEF IInv

(* The right to close passes on: Disconnect takes it, OnDisconnect keeps   *)
(* it.                                                                     *)
LEMMA ToClosers ==
  ASSUME IInv, NEW t \in Thread, NEW a \in {"Disconnect", "OnDisconnect"}, Stands(t, a),
         NEW f \in Frame, f.at \in {"OnDisconnect", "closesocket"}, Goto(t, f),
         a = "Disconnect" => mConnected, mConnected' = FALSE,
         UNCHANGED <<mSendBuffer, mSendBufferLock, mSendPendingCount, socketOpen, ops, port,
                     owed>>
  PROVE  IInv'
<1> DEFINE r == Tail(stack[t])
           n == <<f>> \o r
<1>2. /\ r \in Seq(Frame) /\ Nested(r) /\ Over(a, r)
      /\ t \notin Counters \cup Completers \cup Connecters
      /\ t \in Closers <=> a = "OnDisconnect"
      /\ t \in Flushers <=> Has(r, Flushing)
      /\ t \in Receivers <=> Has(r, Receiving)
  BY StandsAt DEF Flushing, Receiving
<1>3. stack' = [stack EXCEPT ![t] = n] BY DEF Goto
<1> HIDE DEF r
<1>4. Over(f.at, r) BY <1>2 DEF Over, Above, Closing, Posting, Flushing
<1>5. /\ n \in Seq(Frame) /\ Nested(n)
      /\ \A L : Has(n, L) <=> f.at \in L \/ Has(r, L)
      /\ \A b : Top(n, b) <=> b = f.at
  BY <1>2, <1>4, Pushed
<1> HIDE DEF n
<1>6. /\ stack' \in [Thread -> Seq(Frame)] /\ \A u \in Thread : Nested(stack'[u])
      /\ \A u \in Thread \ {t} : stack'[u] = stack[u]
  BY <1>3, <1>5, StackKept
<1>7. (Has(n, Receiving) <=> t \in Receivers) /\ (Has(n, Flushing) <=> t \in Flushers)
  BY <1>2, <1>5 DEF Receiving, Flushing
<1>8. /\ Receivers' = Receivers /\ Flushers' = Flushers /\ Counters' = Counters
      /\ Completers' = Completers /\ Closers' = Closers \cup {t} /\ Connecters' = Connecters
  <2>1. Types BY DEF IInv
  <2>2. /\ Receivers' = IF Has(n, Receiving) THEN Receivers \cup {t} ELSE Receivers \ {t}
        /\ Flushers' = IF Has(n, Flushing) THEN Flushers \cup {t} ELSE Flushers \ {t}
        /\ Counters' = Counters \ {t} /\ Completers' = Completers \ {t}
        /\ Closers' = Closers \cup {t} /\ Connecters' = Connecters \ {t}
    BY <1>3, <1>5, <2>1, Holders
  <2> QED BY <1>2, <1>7, <2>2
<1>9. UNCHANGED <<OpsOf({"send"}), PortOf({"send"}), OpsOf({"zero", "recv"}),
                   PortOf({"zero", "recv"}), NoSend>>
  BY <1>8 DEF OpsOf, PortOf, NoSend
<1>10. Types' BY <1>6 DEF IInv, Types
<1>11. Locks' BY <1>8 DEF IInv, Locks
<1>12. Sends' BY <1>8, <1>9 DEF IInv, Sends
<1>13. Receives' BY <1>8, <1>9 DEF IInv, Receives
<1>14. Closes' BY <1>2, <1>8 DEF IInv, Closes
<1>15. Bytes'
  <2>1. \A u \in Completers : stack'[u] = stack[u] BY <1>2, <1>6 DEF Completers
  <2> QED BY <1>8, <1>9, <2>1, BytesKept
<1> QED BY <1>6, <1>10, <1>11, <1>12, <1>13, <1>14, <1>15 DEF IInv

(* Disconnect keeps the invariant.                                         *)
LEMMA DisconnectStep ==
  ASSUME IInv, NEW t \in Thread, Disconnect(t)
  PROVE  IInv'
<1>1. /\ Stands(t, "Disconnect") /\ mConnected' = FALSE
      /\ UNCHANGED <<mSendBuffer, mSendBufferLock, mSendPendingCount, socketOpen, ops, port,
                     owed>>
  BY DEF Disconnect, kernel
<1>2. CASE ~mConnected
  <2>1. Return(t) BY <1>2 DEF Disconnect
  <2>2. mConnected' = mConnected BY <1>1, <1>2 DEF IInv, Types
  <2>3. "Disconnect" \notin
          Flushing \cup {"SendCompletion", "OnDisconnect", "closesocket", "OnConnect"}
    BY DEF Flushing
  <2> QED BY <1>1, <2>1, <2>2, <2>3, QuietReturn DEF session, kernel
<1>3. CASE mConnected
  <2>1. PICK f \in {At("closesocket"), At("OnDisconnect")} : Goto(t, f)
    BY <1>3 DEF Disconnect, GoesOn
  <2>2. f \in Frame /\ f.at \in {"OnDisconnect", "closesocket"}
    BY <2>1, AtFrame DEF Plain, Closing
  <2> QED BY <1>1, <1>3, <2>1, <2>2, ToClosers
<1> QED BY <1>2, <1>3

(* OnDisconnect keeps the invariant.                                       *)
LEMMA OnDisconnectStep ==
  ASSUME IInv, NEW t \in Thread, OnDisconnect(t)
  PROVE  IInv'
<1>1. /\ Stands(t, "OnDisconnect") /\ Goto(t, At("closesocket"))
      /\ UNCHANGED <<mConnected, mSendBuffer, mSendBufferLock, mSendPendingCount, socketOpen,
                     ops, port, owed>>
  BY DEF OnDisconnect, session, kernel
<1>2. At("closesocket") \in Frame /\ At("closesocket").at = "closesocket"
  BY AtFrame DEF Plain, Closing
<1>3. mConnected = FALSE
  <2>1. t \in Closers BY <1>1, StandsAt
  <2> QED BY <2>1 DEF IInv, Closes, Types
<1> QED BY <1>1, <1>2, <1>3, ToClosers

(* CloseSocket keeps the invariant.                                        *)
LEMMA CloseSocketStep ==
  ASSUME IInv, NEW t \in Thread, CloseSocket(t)
  PROVE  IInv'
<1>1. /\ Stands(t, "closesocket") /\ socketOpen' = FALSE /\ Return(t)
      /\ UNCHANGED <<mConnected, mSendBuffer, mSendBufferLock, mSendPendingCount, ops, port,
                     owed>>
  BY DEF CloseSocket, kernel
<1> DEFINE r == Tail(stack[t])
<1>2. /\ r \in Seq(Frame) /\ Nested(r) /\ Over("closesocket", r)
      /\ t \notin Counters \cup Completers \cup Connecters /\ t \in Closers
      /\ t \in Flushers <=> Has(r, Flushing)
      /\ t \in Receivers <=> Has(r, Receiving)
  BY <1>1, StandsAt DEF Flushing, Receiving
<1>3. stack' = [stack EXCEPT ![t] = r] BY <1>1 DEF Return
<1> HIDE DEF r
<1>4. \A b \in {"FlushCount", "SendCompletion", "OnDisconnect", "closesocket", "OnConnect"} :
       ~Top(r, b)
  BY <1>2, Under
<1>5. /\ stack' \in [Thread -> Seq(Frame)] /\ \A u \in Thread : Nested(stack'[u])
      /\ \A u \in Thread \ {t} : stack'[u] = stack[u]
  BY <1>2, <1>3, StackKept
<1>6. /\ Receivers' = Receivers /\ Flushers' = Flushers /\ Counters' = Counters
      /\ Completers' = Completers /\ Closers' = Closers \ {t} /\ Connecters' = Connecters
  <2>1. Types BY DEF IInv
  <2>2. /\ Receivers' = IF Has(r, Receiving) THEN Receivers \cup {t} ELSE Receivers \ {t}
        /\ Flushers' = IF Has(r, Flushing) THEN Flushers \cup {t} ELSE Flushers \ {t}
        /\ Counters' = Counters \ {t} /\ Completers' = Completers \ {t}
        /\ Closers' = Closers \ {t} /\ Connecters' = Connecters \ {t}
    BY <1>3, <1>4, <2>1, Holders
  <2> QED BY <1>2, <2>2
<1>7. UNCHANGED <<OpsOf({"send"}), PortOf({"send"}), OpsOf({"zero", "recv"}),
                  PortOf({"zero", "recv"}), NoSend>>
  BY <1>1, <1>6 DEF OpsOf, PortOf, NoSend
<1>8. Types' BY <1>1, <1>5 DEF IInv, Types
<1>9. Locks' BY <1>1, <1>6 DEF IInv, Locks
<1>10. Sends' BY <1>1, <1>6, <1>7 DEF IInv, Sends
<1>11. Receives' BY <1>6, <1>7 DEF IInv, Receives
<1>12. Closes'
  <2>1. Closers = {t} /\ ~mConnected /\ Connecters = {} BY <1>2 DEF IInv, Closes
  <2> QED BY <1>1, <1>6, <2>1 DEF Closes
<1>13. Bytes'
  <2>1. \A u \in Completers : stack'[u] = stack[u] BY <1>2, <1>5 DEF Completers
  <2> QED BY <1>1, <1>6, <1>7, <2>1, BytesKept
<1> QED BY <1>5, <1>8, <1>9, <1>10, <1>11, <1>12, <1>13 DEF IInv

(* NextReceive keeps the invariant.                                        *)
LEMMA NextReceiveStep ==
  ASSUME IInv, NEW t \in Thread, NEW a \in {"PreRecv", "PostRecv"}, Stands(t, a),
         NEW type \in {"zero", "recv"}, NextReceive(t, type)
  PROVE  IInv'
<1>1. UNCHANGED <<session, owed>> BY DEF NextReceive
<1>2. a \notin Flushing \cup Closing \cup Posting \cup InBroadcast
               \cup {"SendCompletion", "OnDisconnect", "closesocket", "OnConnect", "RecvCompletion"}
  BY DEF Flushing, Closing, Posting, InBroadcast
<1>3. CASE Goto(t, At("Disconnect")) /\ UNCHANGED kernel
  <2>1. At("Disconnect") \in Frame /\ At("Disconnect").at = "Disconnect"
    BY AtFrame DEF Plain, Closing
  <2>2. "Disconnect" \notin
          Flushing \cup Receiving \cup {"SendCompletion", "OnDisconnect", "closesocket", "OnConnect"}
    BY DEF Flushing, Receiving
  <2>3. \A b : ~Above(a, b) BY <1>2 DEF Above
  <2> QED BY <1>1, <1>2, <1>3, <2>1, <2>2, <2>3, QuietGoto
<1>4. CASE Submit(Receive(type)) /\ Return(t)
  <2> DEFINE x == Receive(type)
  <2>1. x \in OpType /\ x.type = type BY DEF Receive, Op, OpType, Kind, NULL
  <2>2. ops' = ops \cup {x} /\ port' = port BY <1>4 DEF Submit
  <2>3. UNCHANGED <<mConnected, mSendBuffer, mSendBufferLock, mSendPendingCount, socketOpen>>
    BY <1>1 DEF session
  <2>4. /\ Tail(stack[t]) \in Seq(Frame) /\ Over(a, Tail(stack[t])) /\ t \in Receivers
        /\ t \notin Counters \cup Completers \cup Connecters \cup Closers
        /\ t \in Flushers <=> Has(Tail(stack[t]), Flushing)
    BY <1>2, StandsAt DEF Receiving
  <2>5. Tail(stack[t]) = <<>> /\ \A L : ~Has(<<>>, L) BY <1>2, <2>4, Under
  <2>6. stack' = [stack EXCEPT ![t] = <<>>] BY <1>4, <2>5 DEF Return
  <2>7. <<>> \in Seq(Frame) /\ Nested(<<>>) /\ \A b : ~Top(<<>>, b) BY DEF Nested, Top
  <2> HIDE DEF x
  <2>8. /\ stack' \in [Thread -> Seq(Frame)] /\ \A u \in Thread : Nested(stack'[u])
        /\ \A u \in Thread \ {t} : stack'[u] = stack[u]
    BY <2>6, <2>7, StackKept
  <2>9. /\ Receivers' = Receivers \ {t} /\ Flushers' = Flushers /\ Counters' = Counters
        /\ Completers' = Completers /\ Closers' = Closers /\ Connecters' = Connecters
    <3>1. Types BY DEF IInv
    <3>2. /\ Receivers' = Receivers \ {t} /\ Flushers' = Flushers \ {t}
          /\ Counters' = Counters \ {t} /\ Completers' = Completers \ {t}
          /\ Closers' = Closers \ {t} /\ Connecters' = Connecters \ {t}
      BY <2>5, <2>6, <2>7, <3>1, Holders
    <3> QED BY <2>4, <2>5, <3>2
  <2>10. /\ OpsOf({"send"})' = OpsOf({"send"})
         /\ OpsOf({"zero", "recv"})' = OpsOf({"zero", "recv"}) \cup {x}
    BY <2>1, <2>2 DEF OpsOf
  <2>11. UNCHANGED <<PortOf({"send"}), PortOf({"zero", "recv"}), NoSend>>
    BY <2>2, <2>9, <2>10 DEF PortOf, NoSend
  <2>12. Types' BY <1>1, <2>1, <2>2, <2>3, <2>8 DEF IInv, Types
  <2>13. Locks' BY <2>3, <2>9 DEF IInv, Locks
  <2>14. Sends' BY <2>3, <2>9, <2>10, <2>11 DEF IInv, Sends
  <2>15. Receives'
    <3>1. /\ OpsOf({"zero", "recv"}) = {} /\ PortOf({"zero", "recv"}) = {} /\ Receivers = {t}
      BY <2>4 DEF IInv, Receives, Single
    <3>2. /\ OpsOf({"zero", "recv"})' = {x} /\ PortOf({"zero", "recv"})' = {} /\ Receivers' = {}
      BY <2>9, <2>10, <2>11, <3>1
    <3> QED BY <3>2 DEF Receives, Single
  <2>16. Closes' BY <2>3, <2>9 DEF IInv, Closes
  <2>17. Bytes'
    <3>1. \A u \in Completers : stack'[u] = stack[u] BY <2>4, <2>8 DEF Completers
    <3> QED BY <1>1, <2>2, <2>3, <2>9, <2>10, <3>1, BytesKept
  <2> QED BY <2>8, <2>12, <2>13, <2>14, <2>15, <2>16, <2>17 DEF IInv
<1> QED BY <1>3, <1>4 DEF NextReceive


-----------------------------------------------------------------------------
(* FlushSend.                                                              *)

(* The lock is released where FlushSend ends.                              *)
LEMMA ReleaseStep ==
  ASSUME IInv, NEW t \in Thread, NEW a \in {"FlushCount", "FlushFailed"}, Stands(t, a),
         Return(t), mSendBufferLock' = Nobody,
         UNCHANGED <<mConnected, mSendBuffer, socketOpen, ops, port, owed>>,
         IF a = "FlushCount" THEN mSendPendingCount' = 1 ELSE UNCHANGED mSendPendingCount
  PROVE  IInv'
<1> DEFINE r == Tail(stack[t])
<1>1. a \in Flushing /\ a \notin Receiving BY DEF Flushing, Receiving
<1>2. /\ r \in Seq(Frame) /\ Nested(r) /\ Over(a, r)
      /\ t \notin Completers \cup Closers \cup Connecters /\ t \in Flushers
      /\ t \in Counters <=> a = "FlushCount"
      /\ t \in Receivers <=> Has(r, Receiving)
  BY <1>1, StandsAt
<1>3. stack' = [stack EXCEPT ![t] = r] BY DEF Return
<1> HIDE DEF r
<1>4. /\ \A b \in {"FlushCount", "SendCompletion", "OnDisconnect", "closesocket", "OnConnect"} :
       ~Top(r, b)
      /\ ~Has(r, Flushing)
  BY <1>1, <1>2, Under
<1>5. /\ stack' \in [Thread -> Seq(Frame)] /\ \A u \in Thread : Nested(stack'[u])
      /\ \A u \in Thread \ {t} : stack'[u] = stack[u]
  BY <1>2, <1>3, StackKept
<1>6. Flushers = {t} BY <1>2 DEF IInv, Locks
<1>7. Counters \subseteq {t} BY <1>6, CountersFlush
<1>8. /\ Receivers' = Receivers /\ Flushers' = {} /\ Counters' = {}
      /\ Completers' = Completers /\ Closers' = Closers /\ Connecters' = Connecters
  <2>1. Types BY DEF IInv
  <2>2. /\ Receivers' = IF Has(r, Receiving) THEN Receivers \cup {t} ELSE Receivers \ {t}
        /\ Flushers' = Flushers \ {t} /\ Counters' = Counters \ {t}
        /\ Completers' = Completers \ {t}
        /\ Closers' = Closers \ {t} /\ Connecters' = Connecters \ {t}
    BY <1>3, <1>4, <2>1, Holders
  <2> QED BY <1>2, <1>6, <1>7, <2>2
<1>9. UNCHANGED <<OpsOf({"send"}), PortOf({"send"}), OpsOf({"zero", "recv"}),
                  PortOf({"zero", "recv"}), NoSend>>
  BY <1>8 DEF OpsOf, PortOf, NoSend
<1>10. mSendPendingCount' \in {0, 1} BY DEF IInv, Types
<1>11. Types' BY <1>5, <1>10 DEF IInv, Types
<1>12. Locks' BY <1>8 DEF Locks
<1>13. a = "FlushFailed" => Counters = {} BY <1>2, <1>7
<1>14. Sends'
  <2>1. NoSend \/ mSendPendingCount = 1 \/ Counters # {} BY DEF IInv, Sends
  <2>2. NoSend' \/ mSendPendingCount' = 1 BY <1>9, <1>13, <2>1
  <2>3. Single(OpsOf({"send"}), PortOf({"send"}), Completers) BY DEF IInv, Sends
  <2> QED BY <1>8, <1>9, <2>2, <2>3 DEF Sends
<1>15. Receives' BY <1>8, <1>9 DEF IInv, Receives
<1>16. Closes' BY <1>8 DEF IInv, Closes
<1>17. Bytes'
  <2>1. \A u \in Completers : stack'[u] = stack[u] BY <1>2, <1>5 DEF Completers
  <2>2. CASE a = "FlushFailed"
    <3>1. Counters' = Counters BY <1>8, <1>13, <2>2
    <3> QED BY <1>8, <1>9, <2>1, <2>2, <3>1, BytesKept
  <2>3. CASE a = "FlushCount"
    <3>1. \A n : Behind(n)' <=> Behind(n) BY DEF Behind
    <3>2. Bytes BY DEF IInv
    <3>3. mSendPendingCount' = 1 BY <2>3
    <3> QED BY <1>8, <1>9, <2>1, <3>1, <3>2, <3>3 DEF Bytes
  <2> QED BY <2>2, <2>3
<1> QED BY <1>5, <1>11, <1>12, <1>14, <1>15, <1>16, <1>17 DEF IInv

(* FlushCount keeps the invariant.                                         *)
LEMMA FlushCountStep ==
  ASSUME IInv, NEW t \in Thread, FlushCount(t)
  PROVE  IInv'
<1>1. /\ Stands(t, "FlushCount") /\ Return(t) /\ mSendBufferLock' = Nobody
      /\ UNCHANGED <<mConnected, mSendBuffer, socketOpen, ops, port, owed>>
      /\ mSendPendingCount' = mSendPendingCount + 1
  BY DEF FlushCount, ReturnValue, kernel
<1>2. t \in Flushers BY <1>1, StandsAt DEF Flushing
<1>3. mSendPendingCount = 0 BY <1>2 DEF IInv, Sends
<1>4. mSendPendingCount' = 1 BY <1>1, <1>3
<1> QED BY <1>1, <1>4, ReleaseStep

(* FlushFailed keeps the invariant.                                        *)
LEMMA FlushFailedStep ==
  ASSUME IInv, NEW t \in Thread, FlushFailed(t)
  PROVE  IInv'
<1>1. /\ Stands(t, "FlushFailed") /\ Return(t) /\ mSendBufferLock' = Nobody
      /\ UNCHANGED <<mConnected, mSendBuffer, socketOpen, ops, port, owed>>
      /\ UNCHANGED mSendPendingCount
  BY DEF FlushFailed, ReturnValue, kernel
<1> QED BY <1>1, ReleaseStep

(* The regions, as FlushSend sees them.                                    *)
LEMMA FirstBytes ==
  ASSUME NEW b, Good(b)
  PROVE  /\ GetContiguiousBytes(b) = b.mARegionSize
         /\ b.mARegionSize \in Nat /\ b.mBRegionSize \in Nat /\ b.mARegionPointer \in Nat
         /\ GetBufferStart(b) \in Int
         /\ b.mARegionSize > 0 => GetBufferStart(b) = b.mARegionPointer
<1>1. /\ b.mARegionSize \in Nat /\ b.mBRegionSize \in Nat /\ b.mARegionPointer \in Nat
      /\ b.mBRegionPointer \in Int
  BY CapacityAssumption DEF Good, Object, NULL
<1>2. b.mARegionSize = 0 => b.mBRegionSize = 0 BY DEF Good, Layout
<1> QED BY <1>1, <1>2 DEF GetContiguiousBytes, GetBufferStart

(* A call that will be followed by another frame.                          *)
LEMMA PushTwo ==
  ASSUME NEW f \in Frame, NEW g \in Frame, NEW r \in Seq(Frame)
  PROVE  <<f, g>> \o r = <<f>> \o (<<g>> \o r)
<1>1. <<f>> \in Seq(Frame) /\ <<g>> \in Seq(Frame) /\ <<f, g>> = <<f>> \o <<g>> BY ShortStacks
<1> QED BY <1>1, ConcatAssociative

(* FlushSend keeps the invariant.                                          *)
LEMMA FlushSendStep ==
  ASSUME IInv, NEW t \in Thread, FlushSend(t)
  PROVE  IInv'
<1> DEFINE r == Tail(stack[t])
<1>1. Stands(t, "FlushSend") /\ UNCHANGED <<session, owed>> BY DEF FlushSend
<1>2. "FlushSend" \in Flushing /\ "FlushSend" \notin Receiving BY DEF Flushing, Receiving
<1>3. /\ r \in Seq(Frame) /\ Nested(r) /\ Over("FlushSend", r)
      /\ t \notin Completers \cup Closers \cup Connecters \cup Counters /\ t \in Flushers
      /\ t \in Receivers <=> Has(r, Receiving)
  BY <1>1, <1>2, StandsAt
<1>4. CASE CallThen(t, At("Disconnect"), At("FlushFailed")) /\ UNCHANGED kernel
  <2> DEFINE f == At("Disconnect")
             g == At("FlushFailed")
             m == <<g>> \o r
             n == <<f>> \o m
  <2>1. f \in Frame /\ f.at = "Disconnect" /\ g \in Frame /\ g.at = "FlushFailed"
    BY AtFrame DEF Plain, Closing, Flushing
  <2>2. stack' = [stack EXCEPT ![t] = <<f, g>> \o r] BY <1>4 DEF CallThen
  <2> HIDE DEF f, g, r
  <2>3. <<f, g>> \o r = n BY <1>3, <2>1, PushTwo
  <2>4. Over("FlushFailed", r) BY <1>3 DEF Over, Above, Closing, Posting, Flushing
  <2>5. /\ m \in Seq(Frame) /\ Nested(m)
        /\ \A L : Has(m, L) <=> g.at \in L \/ Has(r, L)
        /\ Len(m) = Len(r) + 1 /\ m[1] = g /\ \A k \in 1 .. Len(r) : m[k + 1] = r[k]
    BY <1>3, <2>1, <2>4, Pushed
  <2>6. Over("Disconnect", m)
    <3>1. Len(r) \in Nat /\ Len(m) = Len(r) + 1 BY <1>3, <2>5
    <3>2. ASSUME NEW k \in 1 .. Len(m) PROVE Above("Disconnect", m[k].at)
      <4>1. CASE k = 1 BY <2>1, <2>5, <4>1 DEF Above, Closing
      <4>2. CASE k # 1
        <5>1. k - 1 \in 1 .. Len(r) /\ (k - 1) + 1 = k BY <3>1, <4>2
        <5>2. m[k] = r[k - 1] BY <2>5, <5>1
        <5>3. Above("FlushSend", r[k - 1].at) BY <1>3, <5>1 DEF Over
        <5> QED BY <5>2, <5>3 DEF Above, Closing, Posting, Flushing
      <4> QED BY <4>1, <4>2
    <3> QED BY <3>2 DEF Over
  <2> HIDE DEF m
  <2>7. /\ n \in Seq(Frame) /\ Nested(n)
        /\ \A L : Has(n, L) <=> f.at \in L \/ Has(m, L)
        /\ \A b : Top(n, b) <=> b = f.at
    BY <2>1, <2>5, <2>6, Pushed
  <2>8. stack' = [stack EXCEPT ![t] = n] BY <2>2, <2>3
  <2> HIDE DEF n
  <2>9. Has(n, Flushing) /\ (Has(n, Receiving) => Has(r, Receiving))
    BY <2>1, <2>5, <2>7 DEF Flushing, Receiving
  <2>10. \A b \in {"FlushCount", "SendCompletion", "OnDisconnect", "closesocket", "OnConnect"} :
         ~Top(n, b)
    BY <2>1, <2>7
  <2>11. UNCHANGED <<session, kernel, owed>> BY <1>1, <1>4
  <2> QED BY <1>3, <2>7, <2>8, <2>9, <2>10, <2>11, QuietStep
<1>5. CASE /\ Submit(Op("send", GetBufferStart(mSendBuffer), GetContiguiousBytes(mSendBuffer)))
           /\ Goto(t, At("FlushCount"))
  <2> DEFINE x == Op("send", GetBufferStart(mSendBuffer), GetContiguiousBytes(mSendBuffer))
             f == At("FlushCount")
             n == <<f>> \o r
  <2>1. /\ GetContiguiousBytes(mSendBuffer) = mSendBuffer.mARegionSize
        /\ mSendBuffer.mARegionSize \in Nat /\ GetBufferStart(mSendBuffer) \in Int
        /\ mSendBuffer.mARegionSize > 0 =>
             GetBufferStart(mSendBuffer) = mSendBuffer.mARegionPointer
    <3>1. Good(mSendBuffer) BY DEF IInv, Types
    <3> QED BY <3>1, FirstBytes
  <2>2. /\ x \in OpType /\ x.type = "send" /\ x.sent = 0 /\ x.len = mSendBuffer.mARegionSize
        /\ x.len > 0 => x.start = mSendBuffer.mARegionPointer
    BY <2>1 DEF Op, OpType, Kind
  <2>3. ops' = ops \cup {x} /\ port' = port BY <1>5 DEF Submit
  <2>4. f \in Frame /\ f.at = "FlushCount" BY AtFrame DEF Plain, Flushing
  <2>5. stack' = [stack EXCEPT ![t] = n] BY <1>5 DEF Goto
  <2> HIDE DEF x, f, r
  <2>6. Over("FlushCount", r) BY <1>3 DEF Over, Above, Closing, Posting, Flushing
  <2>7. /\ n \in Seq(Frame) /\ Nested(n)
        /\ \A L : Has(n, L) <=> f.at \in L \/ Has(r, L)
        /\ \A b : Top(n, b) <=> b = f.at
    BY <1>3, <2>4, <2>6, Pushed
  <2> HIDE DEF n
  <2>8. Has(n, Flushing) /\ (Has(n, Receiving) <=> t \in Receivers)
    BY <1>3, <2>4, <2>7 DEF Flushing, Receiving
  <2>9. UNCHANGED <<mConnected, mSendBuffer, mSendBufferLock, mSendPendingCount, socketOpen>>
    BY <1>1 DEF session
  <2>10. /\ stack' \in [Thread -> Seq(Frame)] /\ \A u \in Thread : Nested(stack'[u])
         /\ \A u \in Thread \ {t} : stack'[u] = stack[u]
    BY <2>5, <2>7, StackKept
  <2>11. Flushers = {t} BY <1>3 DEF IInv, Locks
  <2>12. Counters = {} BY <1>3, <2>11, CountersFlush
  <2>13. mSendPendingCount = 0 /\ NoSend BY <2>11, <2>12 DEF IInv, Sends
  <2>14. Behind(0) BY <2>12, <2>13 DEF IInv, Bytes
  <2>15. /\ Receivers' = Receivers /\ Flushers' = {t} /\ Counters' = {t}
         /\ Completers' = {} /\ Closers' = Closers /\ Connecters' = Connecters
    <3>1. Types BY DEF IInv
    <3>2. /\ Receivers' = IF Has(n, Receiving) THEN Receivers \cup {t} ELSE Receivers \ {t}
          /\ Flushers' = Flushers \cup {t} /\ Counters' = Counters \cup {t}
          /\ Completers' = Completers \ {t}
          /\ Closers' = Closers \ {t} /\ Connecters' = Connecters \ {t}
      BY <2>4, <2>5, <2>7, <2>8, <3>1, Holders
    <3>3. Completers = {} BY <2>13 DEF NoSend
    <3>4. t \notin Closers /\ t \notin Connecters BY <1>3
    <3>5. Receivers' = Receivers BY <2>8, <3>2
    <3> QED BY <2>11, <2>12, <3>2, <3>3, <3>4, <3>5
  <2>16. OpsOf({"send"}) = {} /\ PortOf({"send"}) = {} BY <2>13 DEF NoSend
  <2>17. /\ OpsOf({"send"})' = OpsOf({"send"}) \cup {x}
         /\ OpsOf({"zero", "recv"})' = OpsOf({"zero", "recv"})
    BY <2>2, <2>3 DEF OpsOf
  <2>18. UNCHANGED <<PortOf({"send"}), PortOf({"zero", "recv"})>> BY <2>3 DEF PortOf
  <2>19. Types' BY <1>1, <2>2, <2>3, <2>9, <2>10 DEF IInv, Types
  <2>20. Locks' BY <2>9, <2>11, <2>15 DEF IInv, Locks
  <2>21. Sends' BY <2>9, <2>13, <2>15, <2>16, <2>17, <2>18 DEF Sends, Single
  <2>22. Receives' BY <2>15, <2>17, <2>18 DEF IInv, Receives
  <2>23. Closes' BY <2>9, <2>15 DEF IInv, Closes
  <2>24. Bytes'
    <3>1. Behind(0)' BY <1>1, <2>9, <2>14 DEF Behind
    <3>2. OpsOf({"send"})' = {x} /\ PortOf({"send"})' = {} BY <2>16, <2>17, <2>18
    <3>3. x.sent <= x.len /\ x.len <= mSendBuffer'.mARegionSize BY <2>1, <2>2, <2>9
    <3> QED BY <2>2, <2>9, <2>15, <3>1, <3>2, <3>3 DEF Bytes
  <2> QED BY <2>10, <2>19, <2>20, <2>21, <2>22, <2>23, <2>24 DEF IInv
<1> QED BY <1>4, <1>5 DEF FlushSend


-----------------------------------------------------------------------------
(* The bytes of the buffer, when a packet is written and when what was     *)
(* transmitted is removed.                                                 *)

(* The bytes in the buffer, one by one.                                    *)
LEMMA ContentsCells ==
  ASSUME NEW b, Good(b)
  PROVE  /\ Contents(b) \in Seq(Byte) /\ Len(Contents(b)) = GetStoredSize(b)
         /\ GetStoredSize(b) \in Nat /\ b.mARegionSize <= GetStoredSize(b)
         /\ \A i \in 1 .. GetStoredSize(b) : Contents(b)[i] = Cell(b, i)
<1>1. GetStoredSize(b) \in Nat /\ b.mARegionSize <= GetStoredSize(b)
  BY FirstBytes DEF GetStoredSize
<1>2. GetStoredSize(b) <= GetStoredSize(b) BY <1>1
<1> QED BY <1>1, <1>2, PeekCells DEF Contents

(* Write leaves region A where it is and appends, or leaves all in place.  *)
LEMMA WriteAppends ==
  ASSUME NEW b, Good(b), NEW data \in Seq(Byte)
  PROVE  LET c == Write(b, data) IN
         /\ Good(c) /\ c.mARegionPointer = b.mARegionPointer
         /\ b.mARegionSize <= c.mARegionSize
         /\ Contents(c) = IF WriteOk(b, Len(data)) THEN Contents(b) \o data ELSE Contents(b)
<1> DEFINE s == SwitchRegion(b)
           c == Commit(Store(s, GetBuffer(s), data), Len(data))
<1>1. /\ Good(s) /\ Contents(s) = Contents(b) /\ s.mARegionPointer = b.mARegionPointer
      /\ s.mARegionSize = b.mARegionSize
  BY SwitchGood, SwitchContents
<1>2. b.mARegionSize \in Nat BY FirstBytes
<1>3. WriteOk(b, Len(data)) <=> Len(data) <= Room(s) BY DEF WriteOk
<1>4. Write(b, data) = IF Room(s) < Len(data) THEN s ELSE c BY DEF Write
<1> HIDE DEF s
<1>5. Room(s) \in Int /\ Len(data) \in Nat
  <2>1. /\ s.mARegionSize \in Int /\ s.mBRegionSize \in Int /\ s.mARegionPointer \in Int
        /\ s.mBRegionPointer \in Int /\ Capacity \in Int
    BY <1>1, CapacityAssumption DEF Good, Object, NULL
  <2> QED BY <2>1 DEF Room, GetAFreeSpace, GetBFreeSpace
<1>6. CASE Len(data) <= Room(s)
  <2>1. Good(c) /\ Contents(c) = Contents(s) \o data BY <1>1, <1>6, AppendGood, AppendContents
  <2>2. c.mARegionPointer = s.mARegionPointer /\ s.mARegionSize <= c.mARegionSize
    <3>1. s \in Object BY <1>1 DEF Good
    <3>2. Store(s, GetBuffer(s), data).mARegionPointer = s.mARegionPointer
          /\ Store(s, GetBuffer(s), data).mARegionSize = s.mARegionSize
      BY <3>1 DEF Store, Object
    <3>3. DOMAIN Store(s, GetBuffer(s), data) = DOMAIN s BY <3>1 DEF Store, Object
    <3> QED BY <1>1, <1>2, <1>5, <3>1, <3>2, <3>3 DEF Commit, Object
  <2>3. Write(b, data) = c BY <1>4, <1>5, <1>6
  <2> QED BY <1>1, <1>3, <1>6, <2>1, <2>2, <2>3
<1>7. CASE ~(Len(data) <= Room(s))
  <2>1. Write(b, data) = s BY <1>4, <1>5, <1>7
  <2> QED BY <1>1, <1>2, <1>3, <1>7, <2>1
<1> QED BY <1>6, <1>7

(* A packet is owed behind what was owed before; the transmitted bytes     *)
(* stay.                                                                   *)
LEMMA WriteBehind ==
  ASSUME IInv, NEW data \in Seq(Byte), mSendBuffer' = Write(mSendBuffer, data),
         owed' = IF WriteOk(mSendBuffer, Len(data)) THEN owed \o data ELSE owed,
         NEW n, Behind(n)
  PROVE  Behind(n)'
<1> DEFINE b == mSendBuffer
           c == Write(mSendBuffer, data)
           k == GetStoredSize(b)
           l == Len(data)
           o == owed
<1>1. Good(b) /\ owed \in Seq(Byte) BY DEF IInv, Types
<1>2. /\ Good(c) /\ b.mARegionSize <= c.mARegionSize
      /\ Contents(c) = IF WriteOk(b, l) THEN Contents(b) \o data ELSE Contents(b)
  BY <1>1, WriteAppends
<1>3. /\ Contents(b) \in Seq(Byte) /\ Len(Contents(b)) = k
      /\ k \in Nat /\ b.mARegionSize <= k
      /\ \A i \in 1 .. k : Contents(b)[i] = Cell(b, i)
  BY <1>1, ContentsCells
<1>4. /\ Contents(c) \in Seq(Byte) /\ Len(Contents(c)) = GetStoredSize(c)
      /\ \A i \in 1 .. GetStoredSize(c) : Contents(c)[i] = Cell(c, i)
  BY <1>2, ContentsCells
<1>5. /\ n \in Nat /\ n <= b.mARegionSize /\ Len(owed) = k - n
      /\ \A i \in 1 .. Len(owed) : owed[i] = Cell(b, n + i)
  BY DEF Behind
<1>6. b.mARegionSize \in Nat /\ c.mARegionSize \in Nat BY <1>1, <1>2, FirstBytes
<1>7. l \in Nat /\ Len(owed) \in Nat BY <1>1
<1> HIDE DEF b, c, k, l
<1>8. n <= c.mARegionSize /\ n <= k BY <1>2, <1>3, <1>5, <1>6
<1>9. \A i \in 1 .. Len(owed) : n + i \in 1 .. k BY <1>3, <1>5, <1>8
<1>10. CASE ~WriteOk(b, l)
  <2>1. owed' = owed BY <1>10 DEF b, l
  <2>2. Contents(c) = Contents(b) /\ GetStoredSize(c) = k BY <1>2, <1>3, <1>4, <1>10
  <2>3. \A i \in 1 .. k : Cell(c, i) = Cell(b, i) BY <1>3, <1>4, <2>2
  <2>4. \A i \in 1 .. Len(owed) : owed[i] = Cell(c, n + i) BY <1>5, <1>9, <2>3
  <2>5. mSendBuffer' = c BY DEF c
  <2> QED BY <1>5, <1>8, <2>1, <2>2, <2>4, <2>5 DEF Behind
<1>11. CASE WriteOk(b, l)
  <2>1. owed' = owed \o data BY <1>11 DEF b, l
  <2>2. Contents(c) = Contents(b) \o data BY <1>2, <1>11
  <2>3. /\ Len(Contents(c)) = k + l
        /\ \A i \in 1 .. k : Contents(c)[i] = Contents(b)[i]
        /\ \A i \in 1 .. l : Contents(c)[k + i] = data[i]
    BY <1>3, <2>2 DEF l
  <2>4. /\ Len(owed') = Len(owed) + l
        /\ \A i \in 1 .. Len(owed) : owed'[i] = owed[i]
        /\ \A i \in 1 .. l : owed'[Len(owed) + i] = data[i]
    BY <1>1, <2>1 DEF l
  <2>5. GetStoredSize(c) = k + l /\ Len(owed') = (k + l) - n BY <1>4, <1>5, <1>3, <1>7, <2>3, <2>4
  <2>6. ASSUME NEW i \in 1 .. Len(owed') PROVE owed'[i] = Cell(c, n + i)
    <3>1. i \in Nat /\ 1 <= i /\ i <= Len(owed) + l BY <1>7, <2>4, <2>6
    <3>2. n + i \in 1 .. k + l BY <1>3, <1>5, <2>5, <1>7, <3>1
    <3>3. Contents(c)[n + i] = Cell(c, n + i) BY <1>4, <2>5, <3>2
    <3>4. CASE i <= Len(owed)
      <4>1. i \in 1 .. Len(owed) BY <3>1, <3>4
      <4>2. n + i \in 1 .. k BY <1>9, <4>1
      <4> QED BY <1>3, <1>5, <2>3, <2>4, <3>3, <4>1, <4>2
    <3>5. CASE ~(i <= Len(owed))
      <4>1. i - Len(owed) \in 1 .. l /\ Len(owed) + (i - Len(owed)) = i BY <1>7, <3>1, <3>5
      <4>2. k + (i - Len(owed)) = n + i BY <1>3, <1>5, <1>7, <3>1
      <4>3. owed'[i] = data[i - Len(owed)] BY <2>4, <4>1
      <4>4. Contents(c)[n + i] = data[i - Len(owed)] BY <2>3, <4>1, <4>2
      <4> QED BY <3>3, <4>3, <4>4
    <3> QED BY <3>4, <3>5
  <2>7. mSendBuffer' = c BY DEF c
  <2> QED BY <1>5, <1>8, <2>5, <2>6, <2>7 DEF Behind
<1> QED BY <1>10, <1>11

(* After what was transmitted is removed, all that is stored is owed.      *)
LEMMA RemoveBehind ==
  ASSUME IInv, NEW n, Behind(n), mSendBuffer' = Remove(mSendBuffer, n), UNCHANGED owed
  PROVE  Good(mSendBuffer') /\ Behind(0)'
<1> DEFINE b == mSendBuffer
           c == Remove(mSendBuffer, n)
           k == GetStoredSize(b)
<1>1. Good(b) BY DEF IInv, Types
<1>2. /\ n \in Nat /\ n <= b.mARegionSize /\ Len(owed) = k - n
      /\ \A i \in 1 .. Len(owed) : owed[i] = Cell(b, n + i)
  BY DEF Behind
<1>3. k \in Nat /\ b.mARegionSize <= k /\ b.mARegionSize \in Nat
  BY <1>1, ContentsCells, FirstBytes
<1>4. n <= k BY <1>2, <1>3
<1>5. Good(c) BY <1>1, <1>2, <1>4, RemoveGood
<1>6. GetStoredSize(c) = k - n /\ \A i \in 1 .. k - n : Cell(c, i) = Cell(b, n + i)
  BY <1>1, <1>2, <1>4, RemoveCells
<1>7. c.mARegionSize \in Nat BY <1>5, FirstBytes
<1>8. mSendBuffer' = c BY DEF c
<1> HIDE DEF b, c, k
<1>9. \A i \in 1 .. Len(owed) : owed[i] = Cell(c, 0 + i)
  <2>1. ASSUME NEW i \in 1 .. Len(owed) PROVE owed[i] = Cell(c, 0 + i)
    <3>1. i \in 1 .. k - n /\ 0 + i = i BY <1>2, <1>3, <2>1
    <3> QED BY <1>2, <1>6, <3>1
  <2> QED BY <2>1
<1>10. Len(owed) = GetStoredSize(c) - 0 BY <1>2, <1>3, <1>6
<1>11. 0 \in Nat /\ 0 <= c.mARegionSize BY <1>7
<1> QED BY <1>5, <1>8, <1>9, <1>10, <1>11 DEF Behind


(* No thread is in FlushSend when the lock is free.                        *)
LEMMA LockFree ==
  ASSUME IInv, mSendBufferLock = Nobody
  PROVE  Flushers = {} /\ Counters = {}
<1>1. Flushers = {} BY DEF IInv, Locks
<1> QED BY <1>1, CountersFlush

(* PostSend, under the lock, leaves thread t with stack n.                 *)
LEMMA WritingStep ==
  ASSUME IInv, mSendBufferLock = Nobody, NEW t \in Thread, NEW n \in Seq(Frame), Nested(n),
         stack' = [stack EXCEPT ![t] = n],
         t \notin Completers \cup Closers \cup Connecters,
         \A a \in {"FlushCount", "SendCompletion", "OnDisconnect", "closesocket", "OnConnect"} : ~Top(n, a),
         Has(n, Receiving) <=> t \in Receivers,
         IF Has(n, Flushing) THEN mSendBufferLock' = t /\ mSendPendingCount = 0
         ELSE mSendBufferLock' = Nobody,
         NEW data \in Seq(Byte), mSendBuffer' = Write(mSendBuffer, data),
         owed' = IF WriteOk(mSendBuffer, Len(data)) THEN owed \o data ELSE owed,
         UNCHANGED <<mConnected, mSendPendingCount, socketOpen, ops, port>>
  PROVE  IInv'
<1>1. Flushers = {} /\ Counters = {} BY LockFree
<1>2. /\ stack' \in [Thread -> Seq(Frame)] /\ \A u \in Thread : Nested(stack'[u])
      /\ \A u \in Thread \ {t} : stack'[u] = stack[u]
  BY StackKept
<1>3. /\ Receivers' = Receivers /\ Flushers' = IF Has(n, Flushing) THEN {t} ELSE {}
      /\ Counters' = {} /\ Completers' = Completers /\ Closers' = Closers
      /\ Connecters' = Connecters
  <2>1. Types BY DEF IInv
  <2>2. /\ Receivers' = IF Has(n, Receiving) THEN Receivers \cup {t} ELSE Receivers \ {t}
        /\ Flushers' = IF Has(n, Flushing) THEN Flushers \cup {t} ELSE Flushers \ {t}
        /\ Counters' = Counters \ {t} /\ Completers' = Completers \ {t}
        /\ Closers' = Closers \ {t} /\ Connecters' = Connecters \ {t}
    BY <2>1, Holders
  <2>3. Receivers' = Receivers BY <2>2
  <2>4. Flushers' = IF Has(n, Flushing) THEN {t} ELSE {} BY <1>1, <2>2
  <2> QED BY <1>1, <2>2, <2>3, <2>4
<1>4. UNCHANGED <<OpsOf({"send"}), PortOf({"send"}), OpsOf({"zero", "recv"}),
                  PortOf({"zero", "recv"}), NoSend>>
  BY <1>3 DEF OpsOf, PortOf, NoSend
<1>5. Good(mSendBuffer) /\ owed \in Seq(Byte) BY DEF IInv, Types
<1>6. /\ Good(mSendBuffer') /\ mSendBuffer'.mARegionPointer = mSendBuffer.mARegionPointer
      /\ mSendBuffer.mARegionSize <= mSendBuffer'.mARegionSize
  BY <1>5, WriteAppends
<1>7. owed' \in Seq(Byte) BY <1>5
<1>8. t # Nobody BY SessionAssumption
<1>9. Types'
  <2>1. mSendBufferLock' \in Thread \cup {Nobody} OBVIOUS
  <2> QED BY <1>2, <1>6, <1>7, <2>1 DEF IInv, Types
<1>10. Locks' BY <1>3, <1>8 DEF Locks
<1>11. Sends' BY <1>1, <1>3, <1>4 DEF IInv, Sends
<1>12. Receives' BY <1>3, <1>4 DEF IInv, Receives
<1>13. Closes' BY <1>3 DEF IInv, Closes
<1>14. Bytes'
  <2>1. \A k : Behind(k) => Behind(k)' BY WriteBehind
  <2>2. Bytes BY DEF IInv
  <2>3. \A u \in Completers : stack'[u] = stack[u] BY <1>2 DEF Completers
  <2>4. ASSUME NEW op \in OpsOf({"send"})'
        PROVE  /\ op.sent <= op.len /\ op.len <= mSendBuffer'.mARegionSize
               /\ op.len > 0 => op.start = mSendBuffer'.mARegionPointer
               /\ Behind(op.sent)'
    <3>1. op \in OpsOf({"send"}) BY <1>4
    <3>2. /\ op.sent <= op.len /\ op.len <= mSendBuffer.mARegionSize
          /\ op.len > 0 => op.start = mSendBuffer.mARegionPointer
          /\ Behind(op.sent)
      BY <2>2, <3>1 DEF Bytes
    <3>3. op.len \in Nat BY <3>1 DEF OpsOf, IInv, Types, OpType
    <3>4. mSendBuffer.mARegionSize \in Nat /\ mSendBuffer'.mARegionSize \in Nat
      BY <1>5, <1>6, FirstBytes
    <3>5. op.len <= mSendBuffer'.mARegionSize BY <1>6, <3>2, <3>3, <3>4
    <3> QED BY <1>6, <2>1, <3>2, <3>5
  <2>5. \A i \in PortOf({"send"}) : port[i].ok => Behind(port[i].sent)' BY <2>1, <2>2 DEF Bytes
  <2>6. \A u \in Completers : Behind(stack[u][1].op.sent)' BY <2>1, <2>2 DEF Bytes
  <2>7. NoSend /\ mSendPendingCount = 0 => Behind(0)' BY <1>1, <2>1, <2>2 DEF Bytes
  <2> QED BY <1>3, <1>4, <2>3, <2>4, <2>5, <2>6, <2>7 DEF Bytes
<1> QED BY <1>2, <1>9, <1>10, <1>11, <1>12, <1>13, <1>14 DEF IInv

(* PostSendLock keeps the invariant.                                       *)
LEMMA PostSendLockStep ==
  ASSUME IInv, NEW t \in Thread, PostSendLock(t)
  PROVE  IInv'
<1> DEFINE r == Tail(stack[t])
           data == stack[t][1].data
<1>1. /\ Stands(t, "PostSendLock") /\ mSendBufferLock = Nobody
      /\ mSendBuffer' = Write(mSendBuffer, data)
      /\ owed' = IF WriteOk(mSendBuffer, Len(data)) THEN owed \o data ELSE owed
      /\ UNCHANGED <<mConnected, mSendPendingCount, socketOpen, ops, port>>
  BY DEF PostSendLock, kernel
<1>2. \/ Goto(t, At("FlushSend")) /\ mSendBufferLock' = t /\ mSendPendingCount = 0
      \/ Return(t) /\ UNCHANGED mSendBufferLock
  BY DEF PostSendLock, ReturnValue
<1>3. "PostSendLock" \notin Flushing \cup Receiving /\ "PostSendLock" \in Posting
  BY DEF Flushing, Receiving, Posting
<1>4. /\ r \in Seq(Frame) /\ Nested(r) /\ Over("PostSendLock", r)
      /\ t \notin Completers \cup Closers \cup Connecters
      /\ t \in Receivers <=> Has(r, Receiving)
  BY <1>1, <1>3, StandsAt
<1>5. data \in Seq(Byte)
  <2>1. stack[t][1] \in Frame /\ stack[t][1].at = "PostSendLock" BY <1>1, StandsAt
  <2>2. data \in Payload BY <1>3, <2>1, FrameAt
  <2> QED BY <2>2, SessionAssumption
<1>6. CASE Goto(t, At("FlushSend")) /\ mSendBufferLock' = t /\ mSendPendingCount = 0
  <2> DEFINE f == At("FlushSend")
             n == <<f>> \o r
  <2>1. f \in Frame /\ f.at = "FlushSend" BY AtFrame DEF Plain, Flushing
  <2>2. stack' = [stack EXCEPT ![t] = n] BY <1>6 DEF Goto
  <2> HIDE DEF f, r, data
  <2>3. Over("FlushSend", r) BY <1>4 DEF Over, Above, Closing, Posting, Flushing
  <2>4. /\ n \in Seq(Frame) /\ Nested(n)
        /\ \A L : Has(n, L) <=> f.at \in L \/ Has(r, L)
        /\ \A b : Top(n, b) <=> b = f.at
    BY <1>4, <2>1, <2>3, Pushed
  <2> HIDE DEF n
  <2>5. Has(n, Flushing) /\ (Has(n, Receiving) <=> t \in Receivers)
    BY <1>4, <2>1, <2>4 DEF Flushing, Receiving
  <2>6. \A a \in {"FlushCount", "SendCompletion", "OnDisconnect", "closesocket", "OnConnect"} :
         ~Top(n, a)
    BY <2>1, <2>4
  <2> QED BY <1>1, <1>4, <1>5, <1>6, <2>2, <2>4, <2>5, <2>6, WritingStep
<1>7. CASE Return(t) /\ UNCHANGED mSendBufferLock
  <2>1. stack' = [stack EXCEPT ![t] = r] BY <1>7 DEF Return
  <2> HIDE DEF r, data
  <2>2. /\ \A b \in {"FlushCount", "SendCompletion", "OnDisconnect", "closesocket", "OnConnect"} :
         ~Top(r, b)
        /\ ~Has(r, Flushing)
    BY <1>3, <1>4, Under
  <2>3. mSendBufferLock' = Nobody BY <1>1, <1>7
  <2> QED BY <1>1, <1>4, <1>5, <2>1, <2>2, <2>3, WritingStep
<1> QED BY <1>2, <1>6, <1>7

(* SendCompletion keeps the invariant.                                     *)
LEMMA SendCompletionStep ==
  ASSUME IInv, NEW t \in Thread, SendCompletion(t)
  PROVE  IInv'
<1> DEFINE r == Tail(stack[t])
           x == stack[t][1].op
           g == Completion("SendResult", x)
           f == At("FlushSend")
<1>1. /\ Stands(t, "SendCompletion") /\ mSendBufferLock = Nobody
      /\ mSendBuffer' = Remove(mSendBuffer, x.sent)
      /\ mSendPendingCount' = mSendPendingCount - 1
      /\ UNCHANGED <<mConnected, socketOpen, ops, port, owed>>
  BY DEF SendCompletion, kernel
<1>2. \/ CallThen(t, f, g) /\ mSendBufferLock' = t
      \/ Goto(t, g) /\ mSendBufferLock' = Nobody
  BY <1>1 DEF SendCompletion
<1>3. "SendCompletion" \notin Flushing \cup Receiving \cup Closing \cup Posting \cup InBroadcast
                            \cup {"RecvCompletion"}
      /\ "SendCompletion" \in WithOp
  BY DEF InBroadcast, Flushing, Receiving, Posting, Closing, WithOp
<1>4. /\ r \in Seq(Frame) /\ Over("SendCompletion", r)
      /\ t \notin Closers \cup Connecters /\ t \in Completers
      /\ t \in Receivers <=> Has(r, Receiving)
      /\ stack[t][1] \in Frame /\ stack[t][1].at = "SendCompletion"
  BY <1>1, <1>3, StandsAt
<1>5. r = <<>> /\ t \notin Receivers BY <1>3, <1>4, Under
<1>6. x \in Done BY <1>3, <1>4, FrameAt
<1>7. f \in Frame /\ f.at = "FlushSend" BY AtFrame DEF Plain, Flushing
<1>8. g \in Frame /\ g.at = "SendResult" BY <1>6, DoneFrame DEF WithOp
<1>9. \/ stack' = [stack EXCEPT ![t] = <<f, g>> \o r] /\ mSendBufferLock' = t
      \/ stack' = [stack EXCEPT ![t] = <<g>> \o r] /\ mSendBufferLock' = Nobody
  BY <1>2 DEF CallThen, Goto
<1>10. Behind(x.sent) BY <1>4 DEF IInv, Bytes
<1> HIDE DEF r, x, f, g
<1>11. /\ <<g>> \in Seq(Frame) /\ Nested(<<g>>) /\ <<g>> \o <<>> = <<g>>
       /\ \A L : Has(<<g>>, L) <=> g.at \in L
       /\ \A a : Top(<<g>>, a) <=> a = g.at
       /\ Over("FlushSend", <<g>>)
       /\ <<f, g>> \o <<>> = <<f>> \o (<<g>> \o <<>>)
  <2>1. Above("FlushSend", "SendResult") BY DEF Above, Flushing
  <2>2. <<>> \in Seq(Frame) OBVIOUS
  <2> QED BY <1>7, <1>8, <2>1, <2>2, ShortStacks, PushTwo
<1>12. PICK n \in {<<f>> \o <<g>>, <<g>>} :
         /\ stack' = [stack EXCEPT ![t] = n]
         /\ mSendBufferLock' = IF n = <<g>> THEN Nobody ELSE t
  <2>1. <<f>> \o <<g>> # <<g>>
    <3>1. (<<f>> \o <<g>>)[1] = f /\ <<g>>[1] = g BY <1>7, <1>8, <1>11, Pushed
    <3> QED BY <1>7, <1>8, <3>1
  <2> QED BY <1>5, <1>9, <1>11, <2>1
<1>13. /\ n \in Seq(Frame) /\ Nested(n) /\ ~Has(n, Receiving)
       /\ Has(n, Flushing) <=> n # <<g>>
       /\ \A a \in {"FlushCount", "SendCompletion", "OnDisconnect", "closesocket", "OnConnect"} : ~Top(n, a)
  <2>1. CASE n = <<g>> BY <1>8, <1>11, <2>1 DEF Receiving, Flushing
  <2>2. CASE n = <<f>> \o <<g>> /\ n # <<g>>
    <3> DEFINE s == <<g>>
               m == <<f>> \o s
    <3>1. s \in Seq(Frame) /\ Nested(s) /\ Over(f.at, s) BY <1>7, <1>11
    <3> HIDE DEF s
    <3>2. /\ m \in Seq(Frame) /\ Nested(m)
          /\ \A L : Has(m, L) <=> f.at \in L \/ Has(s, L)
          /\ \A b : Top(m, b) <=> b = f.at
      BY <1>7, <3>1, Pushed
    <3>3. m = n BY <2>2 DEF s
    <3> HIDE DEF m
    <3>4. /\ n \in Seq(Frame) /\ Nested(n)
          /\ \A L : Has(n, L) <=> f.at \in L \/ Has(<<g>>, L)
          /\ \A b : Top(n, b) <=> b = f.at
      BY <3>2, <3>3 DEF s
    <3> QED BY <1>7, <1>8, <1>11, <2>2, <3>4 DEF Receiving, Flushing
  <2> QED BY <2>1, <2>2
<1>14. Flushers = {} /\ Counters = {} BY <1>1, LockFree
<1>15. /\ Completers = {t} /\ OpsOf({"send"}) = {} /\ PortOf({"send"}) = {}
       /\ mSendPendingCount = 1
  BY <1>4, <1>14 DEF IInv, Sends, Single, NoSend
<1>16. mSendPendingCount' = 0 BY <1>1, <1>15
<1>17. Good(mSendBuffer') /\ Behind(0)' BY <1>1, <1>10, RemoveBehind
<1>18. /\ stack' \in [Thread -> Seq(Frame)] /\ \A u \in Thread : Nested(stack'[u])
  BY <1>12, <1>13, StackKept
<1>19. /\ Receivers' = Receivers /\ Flushers' = IF n = <<g>> THEN {} ELSE {t}
       /\ Counters' = {} /\ Completers' = {} /\ Closers' = Closers /\ Connecters' = Connecters
  <2>1. Types BY DEF IInv
  <2>2. /\ Receivers' = Receivers \ {t}
        /\ Flushers' = IF Has(n, Flushing) THEN Flushers \cup {t} ELSE Flushers \ {t}
        /\ Counters' = Counters \ {t} /\ Completers' = Completers \ {t}
        /\ Closers' = Closers \ {t} /\ Connecters' = Connecters \ {t}
    BY <1>12, <1>13, <2>1, Holders
  <2>3. Flushers' = IF n = <<g>> THEN {} ELSE {t} BY <1>13, <1>14, <2>2
  <2> QED BY <1>4, <1>5, <1>14, <1>15, <2>2, <2>3
<1>20. /\ UNCHANGED <<OpsOf({"zero", "recv"}), PortOf({"zero", "recv"})>>
       /\ OpsOf({"send"})' = {} /\ PortOf({"send"})' = {}
  BY <1>1, <1>15 DEF OpsOf, PortOf
<1>21. NoSend' BY <1>19, <1>20 DEF NoSend
<1>22. Types'
  <2>1. mSendBufferLock' \in Thread \cup {Nobody} BY <1>12
  <2>2. mSendPendingCount' \in {0, 1} BY <1>16
  <2> QED BY <1>1, <1>17, <1>18, <2>1, <2>2 DEF IInv, Types
<1>23. Locks'
  <2>1. t # Nobody BY SessionAssumption
  <2> QED BY <1>12, <1>19, <2>1 DEF Locks
<1>24. Sends' BY <1>16, <1>19, <1>20, <1>21 DEF Sends, Single
<1>25. Receives' BY <1>19, <1>20 DEF IInv, Receives
<1>26. Closes' BY <1>1, <1>19 DEF IInv, Closes
<1>27. Bytes' BY <1>17, <1>19, <1>20 DEF Bytes
<1> QED BY <1>18, <1>22, <1>23, <1>24, <1>25, <1>26, <1>27 DEF IInv


-----------------------------------------------------------------------------
(* The completion port.                                                    *)

(* Thread t takes the oldest completion and is left with stack n.          *)
LEMMA DequeueStep ==
  ASSUME IInv, NEW t \in Thread, Idle(t), port # <<>>, port' = Tail(port),
         NEW n \in Seq(Frame), Nested(n), stack' = [stack EXCEPT ![t] = n],
         ~Has(n, Flushing),
         \A a \in {"FlushCount", "OnDisconnect", "closesocket", "OnConnect"} : ~Top(n, a),
         Has(n, Receiving) => Head(port).type \in {"zero", "recv"},
         Top(n, "SendCompletion") =>
           Head(port).type = "send" /\ Head(port).ok /\ n[1].op = Head(port),
         UNCHANGED <<session, ops, owed>>
  PROVE  IInv'
<1>1. port \in Seq(Done) BY DEF IInv, Types
<1>2. /\ port' \in Seq(Done) /\ Head(port) = port[1] /\ 1 \in 1 .. Len(port)
      /\ \A i \in 1 .. Len(port') : i + 1 \in 1 .. Len(port) /\ i + 1 # 1 /\ port'[i] = port[i + 1]
  BY <1>1
<1>3. ASSUME NEW K
      PROVE  /\ \A i \in PortOf(K)' : i \in Nat /\ i + 1 \in PortOf(K) /\ i + 1 # 1
                                       /\ port'[i] = port[i + 1]
             /\ Head(port).type \in K => 1 \in PortOf(K)
  BY <1>2 DEF PortOf
<1>4. UNCHANGED <<mConnected, mSendBuffer, mSendBufferLock, mSendPendingCount, socketOpen>>
  BY DEF session
<1>5. /\ stack' \in [Thread -> Seq(Frame)] /\ \A u \in Thread : Nested(stack'[u])
      /\ stack'[t] = n /\ \A u \in Thread \ {t} : stack'[u] = stack[u]
  BY StackKept
<1>6. t \notin Counters \cup Completers \cup Closers \cup Connecters \cup Flushers \cup Receivers
  BY IdleAt
<1>7. /\ Receivers' = IF Has(n, Receiving) THEN Receivers \cup {t} ELSE Receivers
      /\ Completers' = IF Top(n, "SendCompletion") THEN Completers \cup {t} ELSE Completers
      /\ Flushers' = Flushers /\ Counters' = Counters
      /\ Closers' = Closers /\ Connecters' = Connecters
  <2>1. Types BY DEF IInv
  <2>2. /\ Receivers' = IF Has(n, Receiving) THEN Receivers \cup {t} ELSE Receivers \ {t}
        /\ Completers' = IF Top(n, "SendCompletion") THEN Completers \cup {t}
                         ELSE Completers \ {t}
        /\ Flushers' = Flushers \ {t} /\ Counters' = Counters \ {t}
        /\ Closers' = Closers \ {t} /\ Connecters' = Connecters \ {t}
    BY <2>1, Holders
  <2>3. Receivers \ {t} = Receivers /\ Completers \ {t} = Completers BY <1>6
  <2> QED BY <1>6, <2>2, <2>3
<1>8. UNCHANGED <<OpsOf({"send"}), OpsOf({"zero", "recv"})>> BY DEF OpsOf
(* The taken completion's token, if it goes on, is the thread's.           *)
<1>9. ASSUME NEW K, NEW A, NEW B, NEW go \in BOOLEAN, Single(A, PortOf(K), B),
             go => Head(port).type \in K
      PROVE  Single(A, PortOf(K)', IF go THEN B \cup {t} ELSE B)
  <2>1. \A i, j \in PortOf(K)' : i = j
    <3>1. ASSUME NEW i \in PortOf(K)', NEW j \in PortOf(K)' PROVE i = j
      <4>1. i + 1 = j + 1 BY <1>3, <1>9 DEF Single
      <4> QED BY <1>3, <4>1
    <3> QED BY <3>1
  <2>2. PortOf(K) = {} => PortOf(K)' = {} BY <1>3
  <2>3. CASE ~go BY <1>9, <2>1, <2>2, <2>3 DEF Single
  <2>4. CASE go
    <3>1. 1 \in PortOf(K) BY <1>3, <1>9, <2>4
    <3>2. A = {} /\ B = {} BY <1>9, <3>1 DEF Single
    <3>3. PortOf(K)' = {} BY <1>3, <1>9, <3>1 DEF Single
    <3> QED BY <2>4, <3>2, <3>3 DEF Single
  <2> QED BY <2>3, <2>4
<1>10. Single(OpsOf({"send"}), PortOf({"send"}), Completers)' 
  <2>1. Single(OpsOf({"send"}), PortOf({"send"}), Completers) BY DEF IInv, Sends
  <2> DEFINE go == Top(n, "SendCompletion")
  <2>2. go \in BOOLEAN BY DEF Top
  <2>3. go => Head(port).type \in {"send"} OBVIOUS
  <2>4. Completers' = IF go THEN Completers \cup {t} ELSE Completers BY <1>7
  <2> HIDE DEF go
  <2>5. Single(OpsOf({"send"}), PortOf({"send"})', IF go THEN Completers \cup {t} ELSE Completers)
    BY <1>9, <2>1, <2>2, <2>3
  <2> QED BY <1>8, <2>4, <2>5
<1>11. Receives'
  <2>1. Single(OpsOf({"zero", "recv"}), PortOf({"zero", "recv"}), Receivers)
    BY DEF IInv, Receives
  <2> DEFINE go == Has(n, Receiving)
  <2>2. go \in BOOLEAN BY DEF Has
  <2>3. go => Head(port).type \in {"zero", "recv"} OBVIOUS
  <2>4. Receivers' = IF go THEN Receivers \cup {t} ELSE Receivers BY <1>7
  <2> HIDE DEF go
  <2>5. Single(OpsOf({"zero", "recv"}), PortOf({"zero", "recv"})',
               IF go THEN Receivers \cup {t} ELSE Receivers)
    BY <1>9, <2>1, <2>2, <2>3
  <2> QED BY <1>8, <2>4, <2>5 DEF Receives
<1>12. NoSend => NoSend'
  <2>1. ASSUME NoSend PROVE NoSend'
    <3>1. OpsOf({"send"}) = {} /\ PortOf({"send"}) = {} /\ Completers = {} BY <2>1 DEF NoSend
    <3>2. PortOf({"send"})' = {} BY <1>3, <3>1
    <3>3. ~Top(n, "SendCompletion") BY <1>3, <3>1
    <3> QED BY <1>7, <1>8, <3>1, <3>2, <3>3 DEF NoSend
  <2> QED BY <2>1
<1>13. Types' BY <1>2, <1>4, <1>5 DEF IInv, Types
<1>14. Locks' BY <1>4, <1>7 DEF IInv, Locks
<1>15. Sends' BY <1>4, <1>7, <1>10, <1>12 DEF IInv, Sends
<1>16. Closes' BY <1>4, <1>7 DEF IInv, Closes
<1>17. Bytes'
  <2>1. \A k : Behind(k)' <=> Behind(k) BY <1>4 DEF Behind
  <2>2. Bytes BY DEF IInv
  <2>3. ASSUME NEW i \in PortOf({"send"})', port'[i].ok PROVE Behind(port'[i].sent)
    <3>1. i + 1 \in PortOf({"send"}) /\ port'[i] = port[i + 1] BY <1>3
    <3> QED BY <2>2, <2>3, <3>1 DEF Bytes
  <2>4. ASSUME NEW u \in Completers' PROVE Behind(stack'[u][1].op.sent)
    <3>1. CASE u \in Completers
      <4>1. u \in Thread \ {t} BY <1>6, <3>1 DEF Completers
      <4> QED BY <1>5, <2>2, <3>1, <4>1 DEF Bytes
    <3>2. CASE u \notin Completers
      <4>1. u = t /\ Top(n, "SendCompletion") BY <1>7, <3>2
      <4>2. Head(port).type \in {"send"} /\ Head(port).ok /\ n[1].op = Head(port) BY <4>1
      <4>3. 1 \in PortOf({"send"}) BY <1>3, <4>2
      <4>4. Behind(port[1].sent) BY <1>2, <2>2, <4>2, <4>3 DEF Bytes
      <4> QED BY <1>2, <1>5, <4>1, <4>2, <4>4
    <3> QED BY <3>1, <3>2
  <2>5. NoSend' /\ mSendPendingCount = 0 /\ Counters = {} => Behind(0)
    BY <2>2 DEF Bytes, IInv, Sends
  <2> QED BY <1>4, <1>7, <1>8, <2>1, <2>2, <2>3, <2>4, <2>5 DEF Bytes
<1> QED BY <1>5, <1>11, <1>13, <1>14, <1>15, <1>16, <1>17 DEF IInv

(* DoIocpJob keeps the invariant.                                          *)
LEMMA DoIocpJobStep ==
  ASSUME IInv, NEW t \in Thread, DoIocpJob(t)
  PROVE  IInv'
<1> DEFINE c == Head(port)
           n == HandlerFrames(c)
<1>1. /\ Idle(t) /\ port # <<>> /\ port' = Tail(port) /\ UNCHANGED <<session, ops, owed>>
      /\ stack' = [stack EXCEPT ![t] = n]
  BY DEF DoIocpJob, Start
<1>2. c \in Done
  <2>1. port \in Seq(Done) BY DEF IInv, Types
  <2> QED BY <1>1, <2>1
<1> DEFINE s == Completion("SendCompletion", c)
           d == At("Disconnect")
           p == At("PostRecv")
           v == At("RecvCompletion")
           q == At("PreRecv")
<1>3. /\ s \in Frame /\ s.at = "SendCompletion" /\ s.op = c
      /\ d \in Frame /\ d.at = "Disconnect" /\ p \in Frame /\ p.at = "PostRecv"
      /\ v \in Frame /\ v.at = "RecvCompletion" /\ q \in Frame /\ q.at = "PreRecv"
  BY <1>2, DoneFrame, AtFrame DEF WithOp, Plain, Receiving, Closing
<1>4. \/ n = <<s>> /\ c.type = "send" /\ c.ok
      \/ n = <<d>>
      \/ n = <<p>> /\ c.type = "zero"
      \/ n = <<v, q>> /\ c.type = "recv"
  BY <1>2 DEF HandlerFrames, Done, Kind
<1>5. c = Head(port) OBVIOUS
<1> HIDE DEF c, n, s, d, p, v, q
<1>6. CASE n = <<s>> /\ c.type = "send" /\ c.ok
  <2>1. /\ <<s>> \in Seq(Frame) /\ Nested(<<s>>) /\ <<s>>[1] = s
        /\ \A L : Has(<<s>>, L) <=> s.at \in L
        /\ \A a : Top(<<s>>, a) <=> a = s.at
    BY <1>3, ShortStacks
  <2>2. ~Has(<<s>>, Flushing) /\ ~Has(<<s>>, Receiving) BY <1>3, <2>1 DEF Flushing, Receiving
  <2>3. \A a \in {"FlushCount", "OnDisconnect", "closesocket", "OnConnect"} :
         ~Top(<<s>>, a) BY <1>3, <2>1
  <2>4. <<s>>[1].op = c BY <1>3, <2>1
  <2> QED BY <1>1, <1>5, <1>6, <2>1, <2>2, <2>3, <2>4, DequeueStep
<1>7. ASSUME NEW f \in Frame, n = <<f>>, f.at \in {"Disconnect", "PostRecv"},
             f.at = "PostRecv" => c.type \in {"zero", "recv"}
      PROVE  IInv'
  <2>1. /\ <<f>> \in Seq(Frame) /\ Nested(<<f>>)
        /\ \A L : Has(<<f>>, L) <=> f.at \in L
        /\ \A a : Top(<<f>>, a) <=> a = f.at
    BY <1>7, ShortStacks
  <2>2. ~Has(<<f>>, Flushing) BY <1>7, <2>1 DEF Flushing
  <2>3. Has(<<f>>, Receiving) => c.type \in {"zero", "recv"} BY <1>7, <2>1 DEF Receiving
  <2>4. \A a \in {"FlushCount", "OnDisconnect", "closesocket", "OnConnect", "SendCompletion"} :
         ~Top(<<f>>, a)
    BY <1>7, <2>1
  <2> QED BY <1>1, <1>5, <1>7, <2>1, <2>2, <2>3, <2>4, DequeueStep
<1>8. CASE n = <<v, q>> /\ c.type = "recv"
  <2> DEFINE z == <<q>>
             m == <<v>> \o z
  <2>1. /\ z \in Seq(Frame) /\ Nested(z) /\ <<v, q>> = m
        /\ \A L : Has(z, L) <=> q.at \in L
        /\ \A a : Above(a, q.at) => Over(a, z)
    BY <1>3, ShortStacks
  <2>2. Over(v.at, z) BY <1>3, <2>1 DEF Above
  <2> HIDE DEF z
  <2>3. /\ m \in Seq(Frame) /\ Nested(m)
        /\ \A L : Has(m, L) <=> v.at \in L \/ Has(z, L)
        /\ \A b : Top(m, b) <=> b = v.at
    BY <1>3, <2>1, <2>2, Pushed
  <2>4. n = m BY <1>8, <2>1
  <2> HIDE DEF m
  <2>5. ~Has(m, Flushing) BY <1>3, <2>1, <2>3 DEF Flushing
  <2>6. \A a \in {"FlushCount", "OnDisconnect", "closesocket", "OnConnect", "SendCompletion"} :
         ~Top(m, a)
    BY <1>3, <2>3
  <2> QED BY <1>1, <1>5, <1>8, <2>3, <2>4, <2>5, <2>6, DequeueStep
<1> QED BY <1>3, <1>4, <1>6, <1>7, <1>8

(* The kernel transmits a byte.                                            *)
LEMMA TransmitStep ==
  ASSUME IInv, NEW op \in ops, KernelTransmit(op)
  PROVE  IInv'
<1> DEFINE x == [op EXCEPT !.sent = @ + 1]
           k == GetStoredSize(mSendBuffer)
<1>1. /\ op.type = "send" /\ op.sent < op.len
      /\ ops' = (ops \ {op}) \cup {x} /\ owed' = Tail(owed)
      /\ UNCHANGED <<mConnected, mSendBuffer, mSendBufferLock, mSendPendingCount, socketOpen,
                     port, stack>>
  BY DEF KernelTransmit, session
<1>2. op \in OpType BY DEF IInv, Types
<1>3. /\ x \in OpType /\ x.type = "send" /\ x.sent = op.sent + 1 /\ x.len = op.len
      /\ x.start = op.start /\ op.sent \in Nat /\ op.len \in Nat
  BY <1>1, <1>2 DEF OpType
<1> HIDE DEF x
<1>4. UNCHANGED <<Receivers, Flushers, Counters, Completers, Closers, Connecters,
                  PortOf({"send"}), PortOf({"zero", "recv"})>>
  BY <1>1 DEF Receivers, Flushers, Counters, Completers, Closers, Connecters, PortOf
<1>5. OpsOf({"send"}) = {op} /\ PortOf({"send"}) = {} /\ Completers = {}
  <2>1. op \in OpsOf({"send"}) BY <1>1 DEF OpsOf
  <2> QED BY <2>1 DEF IInv, Sends, Single
<1>6. OpsOf({"send"})' = {x} /\ OpsOf({"zero", "recv"})' = OpsOf({"zero", "recv"})
  <2>1. /\ OpsOf({"send"})' = (OpsOf({"send"}) \ {op}) \cup {x}
        /\ OpsOf({"zero", "recv"})' = OpsOf({"zero", "recv"})
    BY <1>1, <1>3 DEF OpsOf
  <2> QED BY <1>5, <2>1
<1>7. /\ op.len <= mSendBuffer.mARegionSize
      /\ op.len > 0 => op.start = mSendBuffer.mARegionPointer
      /\ Behind(op.sent)
  BY <1>5 DEF IInv, Bytes
<1>8. mSendBuffer.mARegionSize \in Nat /\ k \in Nat /\ mSendBuffer.mARegionSize <= k
      /\ owed \in Seq(Byte)
  BY FirstBytes, ContentsCells DEF IInv, Types
<1>9. Behind(x.sent)' /\ owed' \in Seq(Byte)
  <2>1. /\ Len(owed) = k - op.sent
        /\ \A i \in 1 .. Len(owed) : owed[i] = Cell(mSendBuffer, op.sent + i)
    BY <1>7 DEF Behind
  <2>2. Len(owed) > 0 /\ Len(owed) \in Nat BY <1>1, <1>3, <1>7, <1>8, <2>1
  <2>3. /\ owed' \in Seq(Byte) /\ Len(owed') = Len(owed) - 1
        /\ \A i \in 1 .. Len(owed) - 1 : owed'[i] = owed[i + 1]
    BY <1>1, <1>8, <2>2
  <2>4. x.sent \in Nat /\ x.sent <= mSendBuffer.mARegionSize /\ Len(owed') = k - x.sent
    BY <1>1, <1>3, <1>7, <1>8, <2>1, <2>3
  <2>5. ASSUME NEW i \in 1 .. Len(owed') PROVE owed'[i] = Cell(mSendBuffer, x.sent + i)
    <3>1. i \in 1 .. Len(owed) - 1 /\ i + 1 \in 1 .. Len(owed) BY <2>2, <2>3
    <3>2. op.sent + (i + 1) = x.sent + i BY <1>3, <3>1
    <3> QED BY <2>1, <2>3, <3>1, <3>2
  <2> QED BY <1>1, <2>3, <2>4, <2>5 DEF Behind
<1>10. Types' BY <1>1, <1>3, <1>9 DEF IInv, Types
<1>11. Locks' BY <1>1, <1>4 DEF IInv, Locks
<1>12. Sends'
  <2>1. ~NoSend BY <1>5 DEF NoSend
  <2>2. mSendPendingCount = 1 \/ Counters # {} BY <2>1 DEF IInv, Sends
  <2>3. Flushers # {} => mSendPendingCount = 0 BY DEF IInv, Sends
  <2> QED BY <1>1, <1>4, <1>5, <1>6, <2>2, <2>3 DEF Sends, Single
<1>13. Receives' BY <1>4, <1>6 DEF IInv, Receives
<1>14. Closes' BY <1>1, <1>4 DEF IInv, Closes
<1>15. Bytes'
  <2>1. ~NoSend' BY <1>6 DEF NoSend
  <2>2. x.sent <= x.len BY <1>1, <1>3
  <2> QED BY <1>1, <1>3, <1>4, <1>5, <1>6, <1>7, <1>9, <2>1, <2>2 DEF Bytes
<1>16. \A u \in Thread : Nested(stack'[u]) BY <1>1 DEF IInv
<1> QED BY <1>10, <1>11, <1>12, <1>13, <1>14, <1>15, <1>16 DEF IInv


(* The kernel finishes an operation, or gives it up.                       *)
LEMMA FinishStep ==
  ASSUME IInv, NEW op \in ops, NEW ok \in BOOLEAN, Finish(op, ok)
  PROVE  IInv'
<1> DEFINE c == [type |-> op.type, ok |-> ok, len |-> op.len, sent |-> op.sent]
           l == Len(port) + 1
<1>1. /\ ops' = ops \ {op} /\ port' = Append(port, c)
      /\ UNCHANGED <<mConnected, mSendBuffer, mSendBufferLock, mSendPendingCount, socketOpen,
                     stack, owed>>
  BY DEF Finish, session
<1>2. op \in OpType /\ port \in Seq(Done) BY DEF IInv, Types
<1>3. c \in Done /\ c.type = op.type /\ c.sent = op.sent BY <1>2 DEF OpType, Done
<1> HIDE DEF c
<1>4. /\ port' \in Seq(Done) /\ Len(port') = l /\ port'[l] = c /\ Len(port) \in Nat
      /\ \A i \in 1 .. Len(port) : port'[i] = port[i]
  BY <1>1, <1>2, <1>3
<1>5. 1 .. l = (1 .. Len(port)) \cup {l} /\ l \notin 1 .. Len(port) BY <1>4
<1> HIDE DEF l
<1>6. ASSUME NEW K
      PROVE  /\ OpsOf(K)' = OpsOf(K) \ {op}
             /\ op.type \in K => op \in OpsOf(K)
             /\ op.type \in K => PortOf(K)' = PortOf(K) \cup {l}
             /\ op.type \notin K => PortOf(K)' = PortOf(K) /\ op \notin OpsOf(K)
  BY <1>1, <1>3, <1>4, <1>5 DEF OpsOf, PortOf
<1>7. UNCHANGED <<Receivers, Flushers, Counters, Completers, Closers, Connecters>>
  BY <1>1 DEF Receivers, Flushers, Counters, Completers, Closers, Connecters
(* The operation's token moves from the kernel to the port.                *)
<1>8. ASSUME NEW K, NEW B, Single(OpsOf(K), PortOf(K), B)
      PROVE  Single(OpsOf(K)', PortOf(K)', B)
  <2>1. CASE op.type \in K
    <3>1. OpsOf(K) = {op} /\ PortOf(K) = {} /\ B = {} BY <1>6, <1>8, <2>1 DEF Single
    <3>2. OpsOf(K)' = {} /\ PortOf(K)' = {l} BY <1>6, <2>1, <3>1
    <3> QED BY <3>1, <3>2 DEF Single
  <2>2. CASE op.type \notin K
    <3>1. OpsOf(K)' = OpsOf(K) /\ PortOf(K)' = PortOf(K) BY <1>6, <2>2
    <3> QED BY <1>8, <3>1
  <2> QED BY <2>1, <2>2
<1>9. NoSend' <=> NoSend
  <2>1. CASE op.type \in {"send"}
    <3>1. op \in OpsOf({"send"}) /\ l \in PortOf({"send"})' BY <1>6, <2>1
    <3> QED BY <3>1 DEF NoSend
  <2>2. CASE op.type \notin {"send"}
    <3>1. OpsOf({"send"})' = OpsOf({"send"}) /\ PortOf({"send"})' = PortOf({"send"})
      BY <1>6, <2>2
    <3> QED BY <1>7, <3>1 DEF NoSend
  <2> QED BY <2>1, <2>2
<1>10. Types'
  <2>1. ops' \subseteq OpType BY <1>1 DEF IInv, Types
  <2> QED BY <1>1, <1>4, <2>1 DEF IInv, Types
<1>11. Locks' BY <1>1, <1>7 DEF IInv, Locks
<1>12. Sends'
  <2>1. Single(OpsOf({"send"}), PortOf({"send"}), Completers) BY DEF IInv, Sends
  <2>2. Single(OpsOf({"send"})', PortOf({"send"})', Completers) BY <1>8, <2>1
  <2>3. /\ Flushers # {} => mSendPendingCount = 0
        /\ NoSend \/ mSendPendingCount = 1 \/ Counters # {}
    BY DEF IInv, Sends
  <2> QED BY <1>1, <1>7, <1>9, <2>2, <2>3 DEF Sends
<1>13. Receives'
  <2>1. Single(OpsOf({"zero", "recv"}), PortOf({"zero", "recv"}), Receivers)
    BY DEF IInv, Receives
  <2>2. Single(OpsOf({"zero", "recv"})', PortOf({"zero", "recv"})', Receivers) BY <1>8, <2>1
  <2> QED BY <1>7, <2>2 DEF Receives
<1>14. Closes' BY <1>1, <1>7 DEF IInv, Closes
<1>15. Bytes'
  <2>1. \A k : Behind(k)' <=> Behind(k) BY <1>1 DEF Behind
  <2>2. Bytes BY DEF IInv
  <2>3. OpsOf({"send"})' \subseteq OpsOf({"send"}) BY <1>6
  <2>4. ASSUME NEW i \in PortOf({"send"})', port'[i].ok PROVE Behind(port'[i].sent)
    <3>1. CASE i \in PortOf({"send"})
      <4>1. port'[i] = port[i] BY <1>4, <3>1 DEF PortOf
      <4> QED BY <2>2, <2>4, <3>1, <4>1 DEF Bytes
    <3>2. CASE i \notin PortOf({"send"})
      <4>1. i = l /\ op \in OpsOf({"send"}) BY <1>6, <3>2
      <4> QED BY <1>3, <1>4, <2>2, <4>1 DEF Bytes
    <3> QED BY <3>1, <3>2
  <2> QED BY <1>1, <1>7, <1>9, <2>1, <2>2, <2>3, <2>4 DEF Bytes
<1>16. \A u \in Thread : Nested(stack'[u]) BY <1>1 DEF IInv
<1> QED BY <1>10, <1>11, <1>12, <1>13, <1>14, <1>15, <1>16 DEF IInv

-----------------------------------------------------------------------------
(* The invariant.                                                          *)

(* The invariant holds when the connection is accepted.                    *)
LEMMA InitIInv == Init => IInv
<1> SUFFICES ASSUME Init PROVE IInv OBVIOUS
<1> DEFINE f == At("OnConnect")
<1>1. f \in Frame /\ f.at = "OnConnect" BY AtFrame DEF Plain, Receiving
<1>2. stack = [t \in Thread |-> IF t = Main THEN <<f>> ELSE <<>>] BY DEF Init
<1>3. /\ mConnected = FALSE /\ socketOpen = TRUE /\ mSendBufferLock = Nobody
      /\ mSendPendingCount = 0 /\ ops = {} /\ port = <<>> /\ owed = <<>>
  BY DEF Init
<1> HIDE DEF f
<1>4. /\ <<f>> \in Seq(Frame) /\ Nested(<<f>>)
      /\ \A L : Has(<<f>>, L) <=> f.at \in L
      /\ \A a : Top(<<f>>, a) <=> a = f.at
  BY <1>1, ShortStacks
<1>5. <<>> \in Seq(Frame) /\ Nested(<<>>) /\ (\A L : ~Has(<<>>, L)) /\ \A a : ~Top(<<>>, a)
  BY DEF Nested, Has, Top
<1>6. Good(mSendBuffer) /\ GetStoredSize(mSendBuffer) = 0
  <2>1. PICK b \in Byte : mSendBuffer = New([k \in 0 .. Capacity - 1 |-> b]) BY DEF Init
  <2>2. [k \in 0 .. Capacity - 1 |-> b] \in Memory BY DEF Memory
  <2> QED BY <2>1, <2>2, NewGood
<1>7. stack \in [Thread -> Seq(Frame)] /\ \A t \in Thread : Nested(stack[t])
  <2>1. ASSUME NEW t \in Thread PROVE stack[t] \in Seq(Frame) /\ Nested(stack[t])
    BY <1>2, <1>4, <1>5
  <2> QED BY <1>2, <2>1
<1>8. \A t \in Thread : (stack[t] = <<f>> /\ t = Main) \/ stack[t] = <<>> BY <1>2
<1>9. /\ Flushers = {} /\ Counters = {} /\ Completers = {} /\ Closers = {}
      /\ Receivers \subseteq {Main} /\ Connecters \subseteq {Main}
  <2>1. ~Has(<<f>>, Flushing) BY <1>1, <1>4 DEF Flushing
  <2>2. \A a \in {"FlushCount", "OnDisconnect", "closesocket", "SendCompletion"} :
         ~Top(<<f>>, a) BY <1>1, <1>4
  <2> QED BY <1>5, <1>8, <2>1, <2>2
          DEF Flushers, Counters, Completers, Closers, Receivers, Connecters
<1>10. \A K : OpsOf(K) = {} /\ PortOf(K) = {} BY <1>3 DEF OpsOf, PortOf
<1>11. Types
  <2>1. port \in Seq(Done) /\ owed \in Seq(Byte) /\ ops \subseteq OpType BY <1>3
  <2> QED BY <1>3, <1>6, <1>7, <2>1 DEF Types
<1>12. Locks BY <1>3, <1>9 DEF Locks
<1>13. Sends BY <1>3, <1>9, <1>10 DEF Sends, Single, NoSend
<1>14. Receives BY <1>9, <1>10 DEF Receives, Single
<1>15. Closes BY <1>3, <1>9 DEF Closes
<1>16. Bytes
  <2>1. Len(owed) = 0 BY <1>3
  <2>2. mSendBuffer.mARegionSize \in Nat BY <1>6, FirstBytes
  <2>3. Behind(0) BY <1>6, <2>1, <2>2 DEF Behind
  <2> QED BY <1>9, <1>10, <2>3 DEF Bytes
<1> QED BY <1>7, <1>11, <1>12, <1>13, <1>14, <1>15, <1>16 DEF IInv

(* Every step keeps the invariant.                                         *)
LEMMA NextIInv == IInv /\ [Next]_vars => IInv'
<1> SUFFICES ASSUME IInv, [Next]_vars PROVE IInv' OBVIOUS
<1>1. ASSUME NEW t \in Thread, ThreadStep(t) PROVE IInv'
  <2>1. CASE OnConnect(t) BY <2>1, OnConnectStep
  <2>2. CASE Disconnect(t) BY <2>2, DisconnectStep
  <2>3. CASE CloseSocket(t) BY <2>3, CloseSocketStep
  <2>4. CASE BroadcastResult(t) BY <2>4, BroadcastResultStep
  <2>5. CASE PostSend(t) BY <2>5, PostSendStep
  <2>6. CASE PostSendLock(t) BY <2>6, PostSendLockStep
  <2>7. CASE FlushSend(t) BY <2>7, FlushSendStep
  <2>8. CASE FlushCount(t) BY <2>8, FlushCountStep
  <2>9. CASE FlushFailed(t) BY <2>9, FlushFailedStep
  <2>10. CASE SendCompletion(t) BY <2>10, SendCompletionStep
  <2>11. CASE SendResult(t) BY <2>11, SendResultStep
  <2>12. CASE PreRecv(t) BY <2>12, NextReceiveStep DEF PreRecv
  <2>13. CASE PostRecv(t) BY <2>13, NextReceiveStep DEF PostRecv
  <2>14. CASE OnRead(t) BY <2>14, OnReadStep
  <2>15. CASE DoIocpJob(t) BY <2>15, DoIocpJobStep
  <2>16. CASE OnDisconnect(t) BY <2>16, OnDisconnectStep
  <2>17. CASE BroadcastEnd(t) BY <2>17, BroadcastEndStep
  <2> QED BY <1>1, <2>1, <2>2, <2>3, <2>4, <2>5, <2>6, <2>7, <2>8, <2>9, <2>10, <2>11, <2>12,
             <2>13, <2>14, <2>15, <2>16, <2>17 DEF ThreadStep
<1>2. ASSUME NEW t \in Worker, NEW data \in Payload, BroadcastMessage(t, data) PROVE IInv'
  BY <1>2, BroadcastMessageStep
<1>3. ASSUME NEW op \in ops, KernelTransmit(op) \/ KernelFinish(op) \/ KernelFail(op)
      PROVE  IInv'
  BY <1>3, TransmitStep, FinishStep DEF KernelFinish, KernelFail
<1>4. CASE UNCHANGED vars
  <2>1. UNCHANGED <<mConnected, mSendBuffer, mSendBufferLock, mSendPendingCount, socketOpen,
                    ops, port, stack, owed>>
    BY <1>4 DEF vars, session, kernel
  <2>2. UNCHANGED <<Receivers, Flushers, Counters, Completers, Closers, Connecters,
                    OpsOf({"send"}), OpsOf({"zero", "recv"}), PortOf({"send"}),
                    PortOf({"zero", "recv"}), NoSend>>
    BY <2>1 DEF Receivers, Flushers, Counters, Completers, Closers, Connecters, OpsOf, PortOf,
                NoSend
  <2>3. Types' BY <2>1 DEF IInv, Types
  <2>4. Locks' BY <2>1, <2>2 DEF IInv, Locks
  <2>5. Sends' BY <2>1, <2>2 DEF IInv, Sends
  <2>6. Receives' BY <2>2 DEF IInv, Receives
  <2>7. Closes' BY <2>1, <2>2 DEF IInv, Closes
  <2>8. Bytes' BY <2>1, <2>2, BytesKept
  <2>9. \A u \in Thread : Nested(stack'[u]) BY <2>1 DEF IInv
  <2> QED BY <2>3, <2>4, <2>5, <2>6, <2>7, <2>8, <2>9 DEF IInv
<1> QED BY <1>1, <1>2, <1>3, <1>4 DEF Next, KernelStep

(* The invariant of the whole session: who holds the lock, the one send,   *)
(* the one receive and the right to close, and what the buffer holds.      *)
THEOREM Invariance == Spec => []IInv
BY InitIInv, NextIInv, PTL DEF Spec

-----------------------------------------------------------------------------
(* What follows.                                                           *)

(* The CRASH_ASSERTs of FlushSend and SendCompletion on mSendPendingCount  *)
(* never fire, for any number of I/O threads.                              *)
THEOREM AssertsAlwaysHold == Spec => []AssertsHold
<1>1. IInv => AssertsHold
  <2> SUFFICES ASSUME IInv, NEW t \in Thread
               PROVE  /\ Stands(t, "FlushCount") => mSendPendingCount = 0
                      /\ Stands(t, "SendCompletion") /\ mSendBufferLock = Nobody
                           => mSendPendingCount = 1
    BY DEF AssertsHold
  <2>1. ASSUME Stands(t, "FlushCount") PROVE mSendPendingCount = 0
    <3>1. t \in Flushers BY <2>1, StandsAt DEF Flushing
    <3> QED BY <3>1 DEF IInv, Sends
  <2>2. ASSUME Stands(t, "SendCompletion"), mSendBufferLock = Nobody PROVE mSendPendingCount = 1
    <3>1. t \in Completers BY <2>2, StandsAt
    <3>2. Counters = {} BY <2>2, LockFree
    <3> QED BY <3>1, <3>2 DEF IInv, Sends, NoSend
  <2> QED BY <2>1, <2>2
<1> QED BY <1>1, Invariance, PTL

(* OnDisconnect runs and closesocket is called by one thread only, however *)
(* many threads call Disconnect at the same time.                          *)
THEOREM ClosedOnceAlways == Spec => []ClosedOnce
<1>1. IInv => ClosedOnce
  <2> SUFFICES ASSUME IInv, NEW t \in Thread, ToClose(t)
               PROVE  /\ socketOpen /\ ~mConnected
                      /\ \A u \in Thread \ {t} : ~ToClose(u)
    BY DEF ClosedOnce
  <2>1. \A u \in Thread : ToClose(u) => u \in Closers BY StandsAt DEF ToClose
  <2>2. t \in Closers BY <2>1
  <2> QED BY <2>1, <2>2 DEF IInv, Closes
<1> QED BY <1>1, Invariance, PTL

(* The size of a set of at most one element.                               *)
LEMMA SmallSet ==
  ASSUME NEW A, \A x, y \in A : x = y
  PROVE  /\ A = {} => Cardinality(A) = 0
         /\ A # {} => Cardinality(A) = 1
<1>1. A = {} => Cardinality(A) = 0 BY FS_EmptySet
<1>2. ASSUME A # {} PROVE Cardinality(A) = 1
  <2>1. PICK x \in A : TRUE BY <1>2
  <2>2. A = {x} BY <2>1
  <2> QED BY <2>2, FS_Singleton
<1> QED BY <1>1, <1>2

(* mRecvBuffer, which no lock protects, has one user at a time: one        *)
(* receive in the kernel, one completion in the port, or one thread.       *)
THEOREM OneReceiverAlways == Spec => []OneReceiver
<1>1. IInv => OneReceiver
  <2> SUFFICES ASSUME IInv PROVE OneReceiver OBVIOUS
  <2> DEFINE A == {op \in ops : op.type # "send"}
             B == {i \in 1 .. Len(port) : port[i].type # "send"}
             C == {t \in Thread : InReceive(t)}
  <2>1. A = OpsOf({"zero", "recv"})
    <3>1. \A op \in ops : op.type \in Kind BY DEF IInv, Types, OpType
    <3> QED BY <3>1 DEF OpsOf, Kind
  <2>2. B = PortOf({"zero", "recv"})
    <3>1. port \in Seq(Done) BY DEF IInv, Types
    <3>2. \A i \in 1 .. Len(port) : port[i] \in Done BY <3>1
    <3>3. \A i \in 1 .. Len(port) : port[i].type \in Kind BY <3>2 DEF Done
    <3> QED BY <3>3 DEF PortOf, Kind
  <2>3. C = Receivers BY DEF InReceive, Receivers, Has, Receiving
  <2>4. Single(A, B, C) BY <2>1, <2>2, <2>3 DEF IInv, Receives
  <2>5. OneReceiver <=> Cardinality(A) + Cardinality(B) + Cardinality(C) <= 1
    BY DEF OneReceiver
  <2> HIDE DEF A, B, C
  <2>6. /\ A = {} => Cardinality(A) = 0
        /\ A # {} => Cardinality(A) = 1
        /\ B = {} => Cardinality(B) = 0
        /\ B # {} => Cardinality(B) = 1
        /\ C = {} => Cardinality(C) = 0
        /\ C # {} => Cardinality(C) = 1
    BY <2>4, SmallSet DEF Single
  <2>7. (A = {} \/ B = {}) /\ (A = {} \/ C = {}) /\ (B = {} \/ C = {}) BY <2>4 DEF Single
  <2> QED BY <2>5, <2>6, <2>7
<1> QED BY <1>1, Invariance, PTL

(* No Write or Remove moves or overwrites the bytes the kernel is sending, *)
(* and they are the oldest ones PostSend accepted, for every capacity and  *)
(* every set of packets.                                                   *)
THEOREM InFlightIntactAlways == Spec => []InFlightIntact
<1>1. IInv => InFlightIntact
  <2> SUFFICES ASSUME IInv, NEW op \in SendOps, NEW i \in 1 .. op.len - op.sent
               PROVE  /\ i <= Len(owed)
                      /\ mSendBuffer.mBuffer[op.start + op.sent + i - 1] = owed[i]
    BY DEF InFlightIntact
  <2> DEFINE b == mSendBuffer
             k == GetStoredSize(b)
  <2>1. op \in OpsOf({"send"}) /\ op \in OpType BY DEF SendOps, OpsOf, IInv, Types
  <2>2. /\ op.sent <= op.len /\ op.len <= b.mARegionSize
        /\ op.len > 0 => op.start = b.mARegionPointer
        /\ Behind(op.sent)
    BY <2>1 DEF IInv, Bytes
  <2>3. op.len \in Nat /\ op.sent \in Nat BY <2>1 DEF OpType
  <2>4. b.mARegionSize \in Nat /\ k \in Nat /\ b.mARegionSize <= k /\ b.mARegionPointer \in Nat
    BY FirstBytes, ContentsCells DEF IInv, Types
  <2>5. /\ Len(owed) = k - op.sent
        /\ \A j \in 1 .. Len(owed) : owed[j] = Cell(b, op.sent + j)
    BY <2>2 DEF Behind
  <2> HIDE DEF b, k
  <2>6. i <= Len(owed) /\ i \in 1 .. Len(owed) BY <2>2, <2>3, <2>4, <2>5
  <2>7. op.sent + i <= b.mARegionSize /\ op.len > 0 BY <2>2, <2>3, <2>4
  <2>8. owed[i] = b.mBuffer[b.mARegionPointer + (op.sent + i) - 1] BY <2>5, <2>6, <2>7 DEF Cell
  <2>9. b.mARegionPointer + (op.sent + i) - 1 = op.start + op.sent + i - 1
    BY <2>2, <2>3, <2>4, <2>7
  <2> QED BY <2>6, <2>8, <2>9 DEF b
<1> QED BY <1>1, Invariance, PTL
=============================================================================
